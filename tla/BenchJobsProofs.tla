--------------------------- MODULE BenchJobsProofs ---------------------------
(***************************************************************************)
(* What BenchJobs does for every radio, plan, file and failure: no LO      *)
(* moves under a playing TX, no job but a sweep leaves one playing, every  *)
(* row of every CSV is true of its capture and of its files, and a sweep   *)
(* that ends has measured exactly the points its plan asks for.            *)
(***************************************************************************)
EXTENDS BenchJobs, TLAPS, WellFoundedInduction, FiniteSetTheorems

SweepPcs == {"point", "bands", "transmit", "action", "measure", "swept", "stopped"}

(* Where TX is off: before every retune and, in a survey, from its start   *)
(* to the first playback of each frequency.  Only a sweep is at the steps  *)
(* that set LOs without switching TX off and end without a finally.        *)
QuietInv ==
  /\ pc \in {"tune", "session"} => on = Quiet
  /\ kind = "survey" /\ pc \in {"open", "signal", "start"} => on = Quiet
  /\ pc \in SweepPcs => kind = "sweep"
  /\ pc \in {"session", "start", "signal", "lock"} => kind = "survey"

LEMMA QuietInit == Init => QuietInv
  BY DEF Init, QuietInv, SweepPcs

LEMMA QuietNext == QuietInv /\ [Next]_vars => QuietInv'
<1> SUFFICES ASSUME QuietInv, [Next]_vars PROVE QuietInv'
  OBVIOUS
<1> USE DEF QuietInv, SweepPcs
<1>1. CASE BeginReplay \/ BeginCommand \/ BeginLinearize
  BY <1>1 DEF MayBegin, BeginReplay, BeginCommand, BeginLinearize, Begin
<1>2. CASE BeginSurvey \/ FirstLo \/ BeginSweep
  BY <1>2 DEF BeginSurvey, FirstLo, TunesLo, BeginSweep, Begin
<1>3. CASE Open
  BY <1>3 DEF Open, radioVars, planVars
<1>4. CASE TakeSource
  BY <1>4 DEF TakeSource, radioVars, planVars
<1>5. CASE DisableTx
  BY <1>5 DEF DisableTx, AfterQuiet, planVars
<1>6. CASE RetuneLo \/ SetTxAtten \/ SetRxGain \/ TransmitStored
  BY <1>6 DEF RetuneLo, TunesLo, SetTxAtten, SetRxGain, TransmitStored, planVars
<1>7. CASE CapturePoint \/ KeepInput \/ SaveOutput
  BY <1>7 DEF CapturePoint, KeepInput, SaveOutput, radioVars, planVars
<1>8. CASE AppendRow \/ AppendIteration \/ AppendCondition
  BY <1>8 DEF AppendRow, AppendIteration, AppendCondition, radioVars
<1>9. CASE SaveSignal \/ StartAtten \/ FindLock \/ LevelOrx
  BY <1>9 DEF SaveSignal, StartAtten, FindLock, LevelOrx, radioVars, planVars
<1>10. CASE ApplyLos \/ ApplyBands \/ TransmitPoint
  BY <1>10 DEF ApplyLos, ApplyBands, TransmitPoint, planVars
<1>11. CASE LevelBands \/ MeasureBands \/ EndSweep
  BY <1>11 DEF LevelBands, MeasureBands, EndSweep, planVars
<1>12. CASE Fail \/ Finish \/ Kill
  BY <1>12 DEF Fail, Finish, Kill, planVars, radioVars
<1>13. CASE Done \/ UNCHANGED vars
  BY <1>13 DEF Done, vars, radioVars, planVars
<1> QED
  BY <1>1, <1>2, <1>3, <1>4, <1>5, <1>6, <1>7, <1>8, <1>9, <1>10, <1>11, <1>12, <1>13
  DEF Next

LEMMA QuietAlways == Spec => []QuietInv
  BY QuietInit, QuietNext, PTL DEF Spec

(* An LO moves in three places: when a survey begins, at the retune of a   *)
(* row, and in a sweep.                                                    *)
LEMMA LoMoves ==
  ASSUME [Next]_vars, lo' # lo
  PROVE  FirstLo \/ RetuneLo \/ ApplyLos
<1>1. CASE BeginReplay \/ BeginCommand \/ BeginLinearize \/ BeginSurvey \/ BeginSweep
  BY <1>1 DEF MayBegin, BeginReplay, BeginCommand, BeginLinearize, BeginSurvey, BeginSweep, radioVars
<1>2. CASE Open \/ TakeSource \/ DisableTx \/ SetTxAtten \/ SetRxGain \/ TransmitStored
  BY <1>2 DEF Open, TakeSource, DisableTx, SetTxAtten, SetRxGain, TransmitStored, radioVars
<1>3. CASE CapturePoint \/ KeepInput \/ SaveOutput \/ AppendRow \/ AppendIteration
  BY <1>3 DEF CapturePoint, KeepInput, SaveOutput, AppendRow, AppendIteration, radioVars
<1>4. CASE SaveSignal \/ StartAtten \/ FindLock \/ LevelOrx \/ AppendCondition
  BY <1>4 DEF SaveSignal, StartAtten, FindLock, LevelOrx, AppendCondition, radioVars
<1>5. CASE ApplyBands \/ TransmitPoint \/ LevelBands \/ MeasureBands \/ EndSweep
  BY <1>5 DEF ApplyBands, TransmitPoint, LevelBands, MeasureBands, EndSweep
<1>6. CASE Fail \/ Finish \/ Kill \/ Done \/ UNCHANGED vars
  BY <1>6 DEF Fail, Finish, Kill, Done, vars, radioVars
<1> QED
  BY <1>1, <1>2, <1>3, <1>4, <1>5, <1>6 DEF Next

(* No job but a sweep moves an LO under a playing TX, whatever the job     *)
(* before it left on and wherever it failed (replay_row, linearize and the *)
(* survey switch TX off before they retune).                               *)
THEOREM LoMovesQuietly == Spec => RetunesQuietly
<1>1. QuietInv /\ [Next]_vars => [lo' # lo /\ kind # "sweep" => on = Quiet]_vars
  <2> SUFFICES ASSUME QuietInv, [Next]_vars, lo' # lo, kind # "sweep" PROVE on = Quiet
    OBVIOUS
  <2>1. FirstLo \/ RetuneLo \/ ApplyLos
    BY LoMoves
  <2> QED
    BY <2>1 DEF QuietInv, SweepPcs, FirstLo, RetuneLo, ApplyLos
<1> QED
  BY <1>1, QuietAlways, PTL DEF Spec, RetunesQuietly

(* A job that had begun is over only through the finally of its function,  *)
(* or because its process died, or it is a sweep.                          *)
LEMMA JobEnds ==
  ASSUME [Next]_vars, pc # "idle", pc' = "idle"
  PROVE  EndSweep \/ Finish \/ Kill
<1>1. CASE BeginReplay \/ BeginCommand \/ BeginLinearize \/ BeginSurvey \/ BeginSweep
  BY <1>1 DEF MayBegin, BeginReplay, BeginCommand, BeginLinearize, BeginSurvey, BeginSweep, Begin
<1>2. CASE FirstLo \/ Open \/ TakeSource \/ DisableTx \/ RetuneLo \/ SetTxAtten \/ SetRxGain
  BY <1>2 DEF FirstLo, Open, TakeSource, DisableTx, AfterQuiet, RetuneLo, SetTxAtten, SetRxGain
<1>3. CASE TransmitStored \/ CapturePoint \/ KeepInput \/ SaveOutput \/ AppendRow
  BY <1>3 DEF TransmitStored, CapturePoint, KeepInput, SaveOutput, AppendRow
<1>4. CASE AppendIteration \/ SaveSignal \/ StartAtten \/ FindLock \/ LevelOrx \/ AppendCondition
  BY <1>4 DEF AppendIteration, SaveSignal, StartAtten, FindLock, LevelOrx, AppendCondition
<1>5. CASE ApplyLos \/ ApplyBands \/ TransmitPoint \/ LevelBands \/ MeasureBands
  BY <1>5 DEF ApplyLos, ApplyBands, TransmitPoint, LevelBands, MeasureBands
<1>6. CASE Fail \/ Done \/ UNCHANGED vars
  BY <1>6 DEF Fail, Done, vars
<1> QED
  BY <1>1, <1>2, <1>3, <1>4, <1>5, <1>6 DEF Next

(* Wherever a replay, a command, a linearisation or a survey stops, TX is  *)
(* off behind it, unless its process died or disable_tx itself failed.     *)
THEOREM JobsEndQuiet == Spec => EndsQuiet
<1>1. QuietInv /\ [Next]_vars =>
        [pc # "idle" /\ pc' = "idle" /\ kind # "sweep" /\ ~offFailed' => on' = Quiet]_vars
  <2> SUFFICES ASSUME QuietInv, [Next]_vars, pc # "idle", pc' = "idle",
                      kind # "sweep", ~offFailed'
               PROVE  on' = Quiet
    OBVIOUS
  <2>1. EndSweep \/ Finish \/ Kill
    BY JobEnds
  <2> QED
    BY <2>1 DEF QuietInv, SweepPcs, EndSweep, Finish, Kill
<1> QED
  BY <1>1, QuietAlways, PTL DEF Spec, EndsQuiet

-----------------------------------------------------------------------------
(* The rows of the CSVs tell the truth                                      *)

(* The parts of the invariant.                                             *)

(* What a plan's steps are made of. *)
PlanNames == Tx \X Nat \X Nat \X Nat

PlanLabels == {"dpd", "ila", "conditions"} \cup Items(Labels)

Steps ==
  [name : PlanNames, label : PlanLabels, tx : Tx, freq : Freqs, backoff : Nat, level : Nat,
   gain : Nat, ref : Waves, u : Waves, array : BOOLEAN, turn : Nat, first : BOOLEAN]

(* A survey's rows: one CSV, one LO setting and signal for the rows of a   *)
(* turn, and the same signal until the next first.                         *)
SurveyRowsOK(s) ==
  /\ \A i \in 1 .. Len(s) : s[i].label = "conditions"
  /\ \A i \in 1 .. Len(s) - 1 :
       /\ s[i].turn = s[i + 1].turn =>
            s[i].tx = s[i + 1].tx /\ s[i].freq = s[i + 1].freq /\ s[i].u = s[i + 1].u
       /\ ~s[i + 1].first => s[i].u = s[i + 1].u

PlanOK(k, s) ==
  /\ s \in Seq(Steps)
  /\ k = "linearize" => Len(s) = 1 /\ s[1].array
  /\ k = "survey" => SurveyRowsOK(s)

(* While a job is open its plan is one of these, has a row left wherever   *)
(* one is read, and every label of it has its CSV.                         *)
PlanInv ==
  pc \in InTry \cup {"session", "open"} =>
    /\ kind \in {"replay", "command", "linearize", "survey"}
    /\ PlanOK(kind, steps)
    /\ steps = <<>> => pc \in {"open", "session"} \/ (pc = "quiet" /\ kind = "survey")
    /\ pc \in {"open", "session"} /\ kind = "survey" /\ steps # <<>> => Step.first
    /\ pc \in {"signal", "start", "lock"} => kind = "survey"
    /\ pc = "source" => kind # "survey"
    /\ pc = "keep" => kind = "linearize"
    /\ pc \in InTry => \A i \in 1 .. Len(steps) : steps[i].label \in DOMAIN log

ShapeInv == DOMAIN lo = Los /\ DOMAIN atten = Tx /\ DOMAIN gain = Tx

(* The steps up to which each setting of the row under way is the radio's: *)
(* the LO that the job set last is at the row's frequency, set there or,   *)
(* by a replay, found there from the last row; whether it is the LO of the *)
(* row's channel is what TrueOf asks.  A survey locks and levels what the   *)
(* others set.                                                             *)
AtCapture == {"capture", "keep", "save", "note"}

Tuned ==
  \/ pc \in {"atten", "gain", "play", "lock"} \cup AtCapture
  \/ pc = "source" /\ (kind = "linearize" \/ Step.freq = current)

Attenuated ==
  \/ pc \in {"gain"} \cup AtCapture
  \/ pc = "play" /\ kind # "survey"
  \/ pc = "source" /\ kind = "linearize"

Gained ==
  \/ pc \in AtCapture
  \/ pc = "play" /\ kind # "survey"
  \/ pc = "source" /\ kind = "linearize"

Playing ==
  \/ pc \in {"lock"} \cup AtCapture
  \/ pc \in {"atten", "gain"} /\ kind = "survey"

(* The capture a row claims: at every setting it says, its frequency only  *)
(* if its channel's LO was the last one set.                               *)
TrueOf(e, l, got) ==
  got = IF l = LoOf[e.tx] THEN Claimed(e) ELSE [Claimed(e) EXCEPT !.freq = got.freq]

(* What is set is the row's, and the capture in hand was made with it.     *)
RadioInv ==
  /\ pc \in {"open", "session"} => current = 0
  /\ Tuned => lo[tuned] = Step.freq
  /\ Attenuated => atten[Step.tx] = Step.level
  /\ Gained => gain[Step.tx] = Step.gain
  /\ Playing => on[Step.tx] = Step.u
  /\ pc \in {"keep", "save", "note"} => TrueOf(Step, tuned, shot)

(* From where on the row's input is in the folder: a survey keeps a        *)
(* signal once, with the first of its rows.                                *)
InKept ==
  \/ kind = "survey" /\ (pc \in {"signal", "quiet"} => steps # <<>> /\ ~Step.first)
  \/ kind = "linearize" /\ pc \in {"save", "note"}
  \/ kind \in {"replay", "command"} /\ pc # "source" /\ Step.array

(* A kept input and a saved capture are there when the row is noted.       *)
FilesInv ==
  /\ pc = "note" => File("out") \in DOMAIN files /\ files[File("out")].holds = shot
  /\ pc \in InTry /\ InKept => InFile \in DOMAIN files /\ files[InFile].holds = Step.u

(* The file f of the i-th row of a CSV.                                    *)
Kept(f, i, content) == f \in DOMAIN files /\ (files[f].row <= i => files[f].holds = content)

(* The i-th row of label l: the property, with the names of its files.  A  *)
(* file carries the label of the CSV it is for, but for a survey's signals.*)
RowTrue(e, i, l) ==
  /\ TrueOf(e, e.lo, e.got)
  /\ e.out = <<e.out[1], l, e.out[3], "out">>
  /\ \/ e.in \in {<<>>, <<e.out[1], l, e.out[3], "in">>}
     \/ l = "conditions" /\ \E stem : e.in = <<"signal", stem>>
  /\ Kept(e.out, i, e.got)
  /\ e.in # <<>> => Kept(e.in, i, e.u)

LogInv ==
  \A l \in DOMAIN log :
    /\ log[l] \in Seq(Items(log[l]))
    /\ \A i \in 1 .. Len(log[l]) : RowTrue(log[l][i], i, l)

-----------------------------------------------------------------------------
(* Sequences *)

LEMMA AppendItems ==
  ASSUME NEW s, s \in Seq(Items(s)), NEW e
  PROVE  LET t == Append(s, e)
         IN  /\ t \in Seq(Items(t)) /\ Len(s) \in Nat /\ Len(t) = Len(s) + 1
             /\ \A i \in 1 .. Len(s) : t[i] = s[i]
             /\ t[Len(s) + 1] = e
<1> DEFINE t == Append(s, e)
<1>1. /\ t \in Seq(Items(s) \cup {e}) /\ Len(t) = Len(s) + 1 /\ Len(s) \in Nat
      /\ \A i \in 1 .. Len(s) : t[i] = s[i]
      /\ t[Len(s) + 1] = e
  BY DEF Items
<1>2. Items(t) = Items(s) \cup {e}
  BY <1>1 DEF Items
<1> QED BY <1>1, <1>2

LEMMA EmptyItems == <<>> \in Seq(Items(<<>>)) /\ Len(<<>>) = 0
  BY DEF Items

LEMMA TailFacts ==
  ASSUME NEW S, NEW s \in Seq(S), s # <<>>
  PROVE  /\ Len(s) \in Nat \ {0} /\ s[1] \in S
         /\ Tail(s) \in Seq(S) /\ Len(Tail(s)) = Len(s) - 1
         /\ \A i \in 1 .. Len(s) - 1 : Tail(s)[i] = s[i + 1]
  OBVIOUS

LEMMA PlanTail ==
  ASSUME NEW k, NEW s, PlanOK(k, s), s # <<>>, k # "linearize"
  PROVE  PlanOK(k, Tail(s))
<1> DEFINE t == Tail(s)
<1>1. /\ s \in Seq(Steps) /\ Len(s) \in Nat \ {0}
      /\ t \in Seq(Steps) /\ Len(t) = Len(s) - 1
      /\ \A i \in 1 .. Len(t) : t[i] = s[i + 1] /\ i + 1 \in 1 .. Len(s)
  BY TailFacts DEF PlanOK
<1> HIDE DEF t
<1>2. CASE k = "survey"
  BY <1>1, <1>2 DEF PlanOK, SurveyRowsOK, t
<1> QED BY <1>1, <1>2 DEF PlanOK, t

(* A capture of one channel holds its own ORx and nothing else, at         *)
(* whatever place the readback has for it.                                 *)
LEMMA OwnInput ==
  ASSUME NEW o \in Orx, NEW order, ChannelSlot(o, order) # 0, NEW enabled, enabled \cap Orx = {o}
  PROVE  LET slot == ChannelSlot(o, order)
         IN  CaptureArrays(Snapshot(order, enabled), {slot})[slot] = {o}
<1> DEFINE slots == OrxSlots(order)
           fits == {p \in slots : Cardinality({q \in slots : q < p}) = AdcIndex(o)}
           slot == ChannelSlot(o, order)
<1>1. slot = OrxSlotFor(o, order)
  BY DEF ChannelSlot
<1>2. fits # {} /\ slot \in fits
  BY <1>1 DEF OrxSlotFor
<1>3. slot \in DOMAIN order /\ order[slot] \in Orx
  BY <1>2 DEF OrxSlots
<1>4. Snapshot(order, enabled)[slot] = {o} /\ slot \in DOMAIN Snapshot(order, enabled)
  BY <1>1, <1>3 DEF Snapshot
<1> QED BY <1>4 DEF CaptureArrays

LEMMA OwnInputAlone ==
  ASSUME NEW o \in Orx, NEW order, ChannelSlot(o, order) # 0
  PROVE  LET slot == ChannelSlot(o, order)
         IN  CaptureArrays(Snapshot(order, (RxInit \cap MainRx) \cup {o}), {slot})[slot] = {o}
<1>1. ((RxInit \cap MainRx) \cup {o}) \cap Orx = {o}
  BY DEF MainRx, Orx
<1> QED BY <1>1, OwnInput

-----------------------------------------------------------------------------
(* The plans of the jobs                                                    *)

LEMMA DivMod ==
  ASSUME NEW a \in Nat, NEW n \in Nat \ {0}
  PROVE  \E q \in Nat, r \in 0 .. n - 1 : q = a \div n /\ r = a % n /\ a = n * q + r
<1>1. PICK q \in Int : q = a \div n
  OBVIOUS
<1>2. PICK r \in Int : r = a % n
  OBVIOUS
<1>3. a = n*q + r /\ 0 <= r /\ r < n
  BY <1>1, <1>2
<1>4. q >= 0
  BY <1>1
<1> QED BY <1>1, <1>2, <1>3, <1>4

LEMMA DivLess ==
  ASSUME NEW a \in Nat, NEW m \in Nat, NEW n \in Nat \ {0}, a < m * n
  PROVE  a \div n < m
<1>1. PICK q \in Nat, r \in 0 .. n - 1 : q = a \div n /\ r = a % n /\ a = n * q + r
  BY DivMod
<1>2. ASSUME q >= m PROVE FALSE
  <2>1. PICK d \in Nat : q = m + d
    BY <1>2
  <2>2. n * q = m * n + n * d /\ n * d >= 0
    BY <2>1
  <2> QED BY <1>1, <2>2
<1> QED BY <1>1, <1>2

LEMMA DivNext ==
  ASSUME NEW a \in Nat, NEW n \in Nat \ {0}
  PROVE  \/ (a + 1) \div n = a \div n
         \/ (a + 1) \div n = a \div n + 1 /\ (a + 1) % n = 0
<1>1. PICK q \in Nat, r \in 0 .. n - 1 : q = a \div n /\ r = a % n /\ a = n * q + r
  BY DivMod
<1>2. PICK v \in Nat, w \in 0 .. n - 1 : v = (a+1) \div n /\ w = (a+1) % n /\ a+1 = n * v + w
  BY DivMod
<1>3. n * (v - q) = r + 1 - w
  <2>1. n * (v - q) = n * v - n * q
    OBVIOUS
  <2> DEFINE x == n * q
             y == n * v
  <2>2. x \in Int /\ y \in Int /\ a = x + r /\ a + 1 = y + w
    BY <1>1, <1>2
  <2> HIDE DEF x, y
  <2>3. y - x = r + 1 - w
    BY <2>2
  <2> QED BY <2>1, <2>3 DEF x, y
<1>4. v - q >= 0
  <2>1. ASSUME v - q <= -1 PROVE FALSE
    <3>1. n * (v - q) <= -n
      BY <2>1
    <3> QED BY <3>1, <1>3
  <2> QED BY <2>1
<1>5. v - q <= 1
  <2>1. ASSUME v - q >= 2 PROVE FALSE
    <3>1. n * (v - q) >= n + n
      BY <2>1
    <3> QED BY <3>1, <1>3
  <2> QED BY <2>1
<1>6. CASE v = q
  BY <1>1, <1>2, <1>6
<1>7. CASE v = q + 1
  <2>1. n * (v - q) = n
    BY <1>7
  <2>2. w = 0
    BY <1>3, <2>1
  <2> QED BY <1>1, <1>2, <1>7, <2>2
<1> QED BY <1>4, <1>5, <1>6, <1>7

LEMMA ModOfMultiple ==
  ASSUME NEW m \in Nat \ {0}, NEW k \in Nat
  PROVE  (m * k) % m = 0
<1>1. m * k \in Nat
  OBVIOUS
<1>2. PICK q \in Nat, r \in 0 .. m - 1 : q = (m * k) \div m /\ r = (m * k) % m /\ m * k = m * q + r
  BY <1>1, DivMod
<1>3. m * (k - q) = r
  <2>1. m * (k - q) = m * k - m * q
    OBVIOUS
  <2> DEFINE x == m * q
             y == m * k
  <2>2. x \in Int /\ y \in Int /\ y = x + r
    BY <1>2
  <2> HIDE DEF x, y
  <2>3. y - x = r
    BY <2>2
  <2> QED BY <2>1, <2>3 DEF x, y
<1>4. k - q = 0
  <2>1. ASSUME k - q >= 1 PROVE FALSE
    <3>1. m * (k - q) >= m
      BY <2>1
    <3> QED BY <3>1, <1>3
  <2>2. ASSUME k - q <= -1 PROVE FALSE
    <3>1. m * (k - q) <= -m
      BY <2>2
    <3> QED BY <3>1, <1>3
  <2> QED BY <2>1, <2>2
<1> QED BY <1>2, <1>3, <1>4

(* While a counter has not come round to a multiple of n * m, its quotient *)
(* by m, then by n, stays.                                                 *)
LEMMA OuterDivStays ==
  ASSUME NEW a \in Nat, NEW n \in Nat \ {0}, NEW m \in Nat \ {0}, (a + 1) % (n * m) # 0
  PROVE  ((a + 1) \div m) \div n = (a \div m) \div n
<1>1. PICK t \in Nat : t = a \div m
  BY DivMod
<1>2. CASE (a + 1) \div m = t
  BY <1>1, <1>2
<1>3. CASE (a + 1) \div m = t + 1 /\ (a + 1) % m = 0
  <2>1. (t + 1) \div n = t \div n \/ (t + 1) % n = 0
    BY DivNext
  <2>2. CASE (t + 1) % n = 0
    <3>1. PICK k \in Nat : t + 1 = n * k
      BY <2>2, DivMod
    <3>2. a + 1 = m * (t + 1)
      BY <1>3, DivMod
    <3>3. a + 1 = (n * m) * k
      BY <3>1, <3>2
    <3>4. PICK p \in Nat \ {0} : p = n * m
      OBVIOUS
    <3> QED BY <3>3, <3>4, ModOfMultiple
  <2> QED BY <2>1, <2>2, <1>1, <1>3
<1>4. \/ (a + 1) \div m = t
      \/ (a + 1) \div m = t + 1 /\ (a + 1) % m = 0
  BY <1>1, DivNext
<1> QED BY <1>2, <1>3, <1>4

LEMMA NameTyped ==
  ASSUME NEW t \in Tx, NEW b \in Nat, NEW f \in Freqs, NEW w \in Nat
  PROVE  ConditionName(t, b, f, w) \in PlanNames
<1>1. f \in Nat /\ MHz \in Nat \ {0}
  BY BenchAssumption
<1>2. f \div MHz \in Nat
  BY <1>1, DivMod
<1> QED BY <1>2 DEF ConditionName, PlanNames

LEMMA PlayedStep ==
  ASSUME NEW c \in Conditions, NEW l \in PlanLabels, NEW w \in Waves, NEW array \in BOOLEAN
  PROVE  Played(c, l, w, array) \in Steps
<1>1. c.tx \in Tx /\ c.freq \in Freqs /\ c.bw \in Nat /\ c.backoff \in Nat /\ c.ref \in Waves
  BY DEF Conditions
<1>2. c.level \in Nat /\ c.gain \in Nat
  BY BenchAssumption DEF Conditions
<1>3. NameOf(c) \in PlanNames
  BY <1>1, NameTyped DEF NameOf
<1> QED BY <1>1, <1>2, <1>3 DEF Played, Steps

(* Every row of a name plays what a row of the table was given. *)
LEMMA SourcesAreRows ==
  ASSUME NEW rows \in Seq(Rows), NEW from \in SourceRows(rows), NEW i \in 1 .. Len(rows)
  PROVE  /\ from[i] \in 1 .. Len(rows)
         /\ Saved[rows[i]] \in Conditions /\ Saved[rows[from[i]]] \in Conditions
<1>1. from[i] \in 1 .. Len(rows)
  BY DEF SourceRows
<1> QED BY <1>1, BenchAssumption

LEMMA ReplayPlanOK ==
  ASSUME NEW r \in Replays, NEW rows \in Sorted(r), NEW from \in SourceRows(rows)
  PROVE  PlanOK("replay", ReplayPlan(rows, from))
<1> DEFINE n == Len(r)
           plan == ReplayPlan(rows, from)
<1>1. r \in Seq(Rows) /\ n \in Nat
  BY BenchAssumption
<1>2. PICK q \in Bijection(1 .. n, 1 .. n) : rows = [i \in 1 .. n |-> r[q[i]]]
  BY DEF Sorted
<1>3. \A i \in 1 .. n : q[i] \in 1 .. n
  BY <1>2 DEF Bijection, Injection
<1>4. rows \in Seq(Rows) /\ Len(rows) = n
  BY <1>1, <1>2, <1>3
<1>5. ASSUME NEW i \in 1 .. n
      PROVE  plan[i] \in Steps
  <2>1. PICK c \in Conditions, d \in Conditions : c = Saved[rows[i]] /\ d = Saved[rows[from[i]]]
    BY <1>4, SourcesAreRows
  <2>2. plan[i] = Played(c, "dpd", d.u, d.array)
    BY <1>4, <2>1 DEF ReplayPlan
  <2>3. d.u \in Waves /\ d.array \in BOOLEAN /\ "dpd" \in PlanLabels
    BY DEF Conditions, PlanLabels
  <2> QED BY <2>2, <2>3, PlayedStep
<1>6. plan \in Seq(Steps)
  <2>1. plan \in [1 .. n -> Steps]
    BY <1>4, <1>5 DEF ReplayPlan
  <2> QED BY <2>1, <1>1
<1> QED BY <1>6 DEF PlanOK

LEMMA LinearizePlanOK ==
  ASSUME NEW n \in Rows
  PROVE  PlanOK("linearize", <<Played(Saved[n], "ila", Saved[n].u, TRUE)>>)
<1>1. PICK c \in Conditions : c = Saved[n]
  BY BenchAssumption
<1>2. c.u \in Waves
  BY DEF Conditions
<1> DEFINE p == Played(c, "ila", c.u, TRUE)
<1>3. p \in Steps
  <2>1. "ila" \in PlanLabels
    BY DEF PlanLabels
  <2> QED BY <1>2, <2>1, PlayedStep
<1>4. p.array
  BY DEF Played
<1> HIDE DEF p
<1>5. <<p>> \in Seq(Steps) /\ Len(<<p>>) = 1 /\ <<p>>[1] = p
  BY <1>3
<1>6. PlanOK("linearize", <<p>>)
  BY <1>4, <1>5 DEF PlanOK
<1> QED BY <1>1, <1>6 DEF p

LEMMA CommandPlanOK ==
  ASSUME NEW c \in Commands, NEW from \in SourceRows(c)
  PROVE  PlanOK("command", CommandPlan(c, from))
<1> DEFINE n == Len(Labels)
           plan == CommandPlan(c, from)
           at(i) == ((i - 1) \div n) + 1
           row(i) == Saved[c[at(i)]]
           source(i) == Saved[c[from[at(i)]]]
           label(i) == Labels[((i - 1) % n) + 1]
           wave(i) == IF label(i) = "input" THEN row(i).ref ELSE source(i).u
           size == Len(c) * n
<1>1. c \in Seq(Rows) /\ Len(c) \in Nat /\ Labels \in Seq(STRING) /\ n \in Nat /\ size \in Nat
  BY BenchAssumption
<1>2. ASSUME NEW i \in 1 .. size
      PROVE  at(i) \in 1 .. Len(c) /\ ((i - 1) % n) + 1 \in 1 .. n
  <2>1. i - 1 \in Nat /\ n > 0 /\ i - 1 < Len(c) * n
    BY <1>1
  <2>2. (i - 1) \div n < Len(c)
    BY <1>1, <2>1, DivLess
  <2>3. (i - 1) \div n \in Nat /\ (i - 1) % n \in 0 .. n - 1
    BY <1>1, <2>1, DivMod
  <2> QED BY <1>1, <2>1, <2>2, <2>3
<1>3. ASSUME NEW i \in 1 .. size
      PROVE  row(i) \in Conditions /\ source(i) \in Conditions /\ label(i) \in PlanLabels
  <2>1. PICK a : a = at(i) /\ a \in 1 .. Len(c)
    BY <1>2
  <2>2. Saved[c[a]] \in Conditions /\ Saved[c[from[a]]] \in Conditions
    BY <1>1, <2>1, SourcesAreRows
  <2>3. label(i) \in PlanLabels
    BY <1>1, <1>2 DEF PlanLabels, Items
  <2> QED BY <2>1, <2>2, <2>3
<1>4. plan = [i \in 1 .. size |-> Played(row(i), label(i), wave(i), FALSE)]
  BY DEF CommandPlan
<1>5. ASSUME NEW i \in 1 .. size
      PROVE  Played(row(i), label(i), wave(i), FALSE) \in Steps
  <2>1. PICK b \in Conditions, d \in Conditions, l \in PlanLabels :
          b = row(i) /\ d = source(i) /\ l = label(i)
    BY <1>3
  <2>2. PICK w \in Waves : w = wave(i)
    BY <2>1 DEF Conditions
  <2>3. Played(b, l, w, FALSE) \in Steps
    BY PlayedStep
  <2> QED BY <2>1, <2>2, <2>3
<1>6. plan \in Seq(Steps)
  <2>1. plan \in [1 .. size -> Steps]
    BY <1>4, <1>5
  <2> QED BY <1>1, <2>1
<1> QED BY <1>6 DEF PlanOK

(* The i-th step of a survey, counted in its three loops.                  *)
LEMMA SurveyIndices ==
  ASSUME NEW ns \in Nat, NEW nf \in Nat, NEW nb \in Nat, NEW i \in 1 .. ns * nf * nb
  PROVE  /\ nf > 0 /\ nb > 0
         /\ (i - 1) \div nb \in Nat /\ ((i - 1) % nb) + 1 \in 1 .. nb
         /\ (((i - 1) \div nb) % nf) + 1 \in 1 .. nf
         /\ ((i - 1) \div nb) \div nf + 1 \in 1 .. ns
<1>1. nf > 0 /\ nb > 0 /\ ns * nf \in Nat /\ i - 1 \in Nat /\ i - 1 < (ns * nf) * nb
  OBVIOUS
<1>2. PICK a \in Nat : a = i - 1
  BY <1>1
<1>3. PICK t \in Nat, b \in 0 .. nb - 1 : t = a \div nb /\ b = a % nb
  BY <1>1, DivMod
<1>4. t < ns * nf
  BY <1>1, <1>2, <1>3, DivLess
<1>5. PICK q \in Nat, f \in 0 .. nf - 1 : q = t \div nf /\ f = t % nf
  BY <1>1, DivMod
<1>6. q < ns
  BY <1>1, <1>4, <1>5, DivLess
<1> QED BY <1>1, <1>2, <1>3, <1>5, <1>6

Signals == [bw : Nat, wave : Waves]

LEMMA SurveyPlanOK ==
  ASSUME NEW v \in Surveys
  PROVE  /\ PlanOK("survey", SurveyPlan(v))
         /\ SurveyPlan(v) # <<>> => SurveyPlan(v)[1].first
<1>a. /\ v.tx \in Tx /\ v.signals \in Seq(Signals) /\ v.freqs \in Seq(Freqs)
      /\ v.backoffs \in Seq(Nat)
  BY BenchAssumption DEF Signals
<1>b. PICK ns \in Nat, nf \in Nat, nb \in Nat :
         ns = Len(v.signals) /\ nf = Len(v.freqs) /\ nb = Len(v.backoffs)
  BY <1>a
<1>c. PICK size \in Nat : size = ns * nf * nb
  OBVIOUS
<1> DEFINE plan == SurveyPlan(v)
           turn(i) == (i - 1) \div nb
           signal(i) == v.signals[(turn(i) \div nf) + 1]
           freq(i) == v.freqs[(turn(i) % nf) + 1]
           backoff(i) == v.backoffs[((i - 1) % nb) + 1]
<1>2. ASSUME NEW i \in 1 .. size
      PROVE  /\ nf > 0 /\ nb > 0 /\ turn(i) \in Nat /\ ((i - 1) % nb) + 1 \in 1 .. nb
             /\ (turn(i) % nf) + 1 \in 1 .. nf /\ turn(i) \div nf + 1 \in 1 .. ns
  BY <1>c, SurveyIndices
<1>3. ASSUME NEW i \in 1 .. size
      PROVE  signal(i) \in Signals /\ freq(i) \in Freqs /\ backoff(i) \in Nat
  <2>1. PICK x \in 1 .. Len(v.signals), y \in 1 .. Len(v.freqs), z \in 1 .. Len(v.backoffs) :
          x = turn(i) \div nf + 1 /\ y = (turn(i) % nf) + 1 /\ z = ((i - 1) % nb) + 1
    BY <1>b, <1>2
  <2>2. v.signals[x] \in Signals /\ v.freqs[y] \in Freqs /\ v.backoffs[z] \in Nat
    <3>1. PICK sg \in Seq(Signals), fr \in Seq(Freqs), bk \in Seq(Nat) :
            sg = v.signals /\ fr = v.freqs /\ bk = v.backoffs
      BY <1>a
    <3>2. x \in 1 .. Len(sg) /\ y \in 1 .. Len(fr) /\ z \in 1 .. Len(bk)
      BY <2>1, <3>1
    <3>3. sg[x] \in Signals /\ fr[y] \in Freqs /\ bk[z] \in Nat
      BY ONLY <3>2
    <3> QED BY <3>1, <3>3
  <2> QED BY <2>1, <2>2
<1>4. plan = [i \in 1 .. size |->
         [name |-> ConditionName(v.tx, backoff(i), freq(i), signal(i).bw), label |-> "conditions",
          tx |-> v.tx, freq |-> freq(i), backoff |-> backoff(i), level |-> StartLevel,
          gain |-> 0, ref |-> signal(i).wave, u |-> signal(i).wave, array |-> TRUE,
          turn |-> turn(i) + 1, first |-> (i - 1) % (nf * nb) = 0]]
  BY <1>b, <1>c DEF SurveyPlan
<1>5. ASSUME NEW i \in 1 .. size
      PROVE  /\ plan[i].label = "conditions" /\ plan[i].tx = v.tx
             /\ plan[i].freq = freq(i) /\ plan[i].u = signal(i).wave
             /\ plan[i].turn = turn(i) + 1
             /\ plan[i].first <=> (i - 1) % (nf * nb) = 0
             /\ plan[i] \in Steps
  <2>1. PICK b \in Nat, f \in Freqs, g \in Signals, t \in Nat, one \in BOOLEAN :
          /\ b = backoff(i) /\ f = freq(i) /\ g = signal(i) /\ t = turn(i)
          /\ one = ((i - 1) % (nf * nb) = 0)
    BY <1>2, <1>3
  <2>2. PICK w \in Waves, bw \in Nat : w = g.wave /\ bw = g.bw
    BY DEF Signals
  <2>3. PICK name \in PlanNames : name = ConditionName(v.tx, b, f, bw)
    BY <1>a, NameTyped
  <2> DEFINE p == [name |-> name, label |-> "conditions",
                   tx |-> v.tx, freq |-> f, backoff |-> b, level |-> StartLevel,
                   gain |-> 0, ref |-> w, u |-> w, array |-> TRUE, turn |-> t + 1,
                   first |-> one]
  <2>4. plan[i] = p
    BY <1>4, <2>1, <2>2, <2>3
  <2>5. p \in Steps
    <3>1. "conditions" \in PlanLabels
      BY DEF PlanLabels
    <3> QED BY <1>a, <3>1, BenchAssumption DEF Steps
  <2>6. plan[i].first <=> (i - 1) % (nf * nb) = 0
    <3>1. plan[i].first = one
      BY <2>4
    <3> QED BY <2>1, <3>1, Zenon
  <2> HIDE DEF plan
  <2>7. plan[i].label = "conditions" /\ plan[i].tx = v.tx /\ plan[i].freq = f
        /\ plan[i].u = w /\ plan[i].turn = t + 1 /\ plan[i] \in Steps
    BY <2>4, <2>5
  <2> QED BY <2>1, <2>2, <2>6, <2>7
<1>6. plan \in Seq(Steps) /\ Len(plan) = size
  <2>1. DOMAIN plan = 1 .. size /\ plan = [i \in DOMAIN plan |-> plan[i]]
    BY <1>4
  <2> HIDE DEF plan
  <2>2. plan \in [1 .. size -> Steps]
    BY <1>5, <2>1
  <2> QED BY <2>2
<1>8. ASSUME NEW i \in 1 .. size - 1
      PROVE  /\ plan[i].turn = plan[i + 1].turn =>
                  plan[i].tx = plan[i + 1].tx /\ plan[i].freq = plan[i + 1].freq
                  /\ plan[i].u = plan[i + 1].u
             /\ ~plan[i + 1].first => plan[i].u = plan[i + 1].u
  <2>1. i \in 1 .. size /\ i + 1 \in 1 .. size /\ i - 1 \in Nat /\ i + 1 - 1 = i - 1 + 1
    OBVIOUS
  <2>2. /\ plan[i].tx = v.tx /\ plan[i].freq = freq(i) /\ plan[i].u = signal(i).wave
        /\ plan[i].turn = turn(i) + 1
        /\ plan[i + 1].tx = v.tx /\ plan[i + 1].freq = freq(i + 1)
        /\ plan[i + 1].u = signal(i + 1).wave
        /\ plan[i + 1].turn = turn(i + 1) + 1
        /\ plan[i + 1].first <=> (i + 1 - 1) % (nf * nb) = 0
    <3> HIDE DEF plan, signal, freq, turn
    <3> QED BY <1>5, <2>1
  <2>3. turn(i) \in Nat /\ turn(i + 1) \in Nat /\ nf \in Nat \ {0} /\ nb \in Nat \ {0}
    BY <1>2, <2>1
  <2>4. turn(i) = turn(i + 1) => freq(i) = freq(i + 1) /\ signal(i) = signal(i + 1)
    <3> HIDE DEF turn
    <3> QED OBVIOUS
  <2>5. ASSUME (i - 1 + 1) % (nf * nb) # 0 PROVE signal(i) = signal(i + 1)
    <3>1. PICK a \in Nat : a = i - 1
      BY <2>1
    <3>2. ((a + 1) \div nb) \div nf = (a \div nb) \div nf
      BY <2>3, <2>5, <3>1, OuterDivStays
    <3>3. a = i - 1 /\ a + 1 = i + 1 - 1
      BY <2>1, <3>1
    <3>4. turn(i) \div nf = turn(i + 1) \div nf
      BY ONLY <3>2, <3>3
    <3> HIDE DEF turn
    <3> QED BY <3>4
  <2> HIDE DEF plan, signal, freq, turn
  <2>6. plan[i].turn = plan[i + 1].turn => turn(i) = turn(i + 1)
    <3>1. PICK p \in Nat, q \in Nat : p = turn(i) /\ q = turn(i + 1)
      BY <2>3
    <3>2. plan[i].turn = p + 1 /\ plan[i + 1].turn = q + 1
      BY <2>2, <3>1
    <3> QED BY <3>1, <3>2
  <2>7. ~plan[i + 1].first => signal(i) = signal(i + 1)
    BY <2>1, <2>2, <2>5
  <2>8. signal(i) = signal(i + 1) => plan[i].u = plan[i + 1].u
    BY <2>2
  <2>9. freq(i) = freq(i + 1) => plan[i].freq = plan[i + 1].freq
    BY <2>2
  <2> QED BY <2>2, <2>4, <2>6, <2>7, <2>8, <2>9
<1>9. ASSUME plan # <<>> PROVE plan[1].first
  <2>1. 1 \in 1 .. size
    <3> HIDE DEF plan
    <3> QED BY <1>6, <1>9
  <2>2. PICK m : m = nf * nb /\ m \in Nat \ {0}
    BY <1>2, <2>1
  <2>3. (1 - 1) % m = 0
    BY <2>2
  <2> HIDE DEF plan
  <2> QED BY <1>5, <2>1, <2>2, <2>3
<1>10. PlanOK("survey", plan)
  <2> HIDE DEF plan
  <2>1. SurveyRowsOK(plan)
    BY <1>5, <1>6, <1>8 DEF SurveyRowsOK
  <2> QED BY <1>6, <2>1 DEF PlanOK
<1> QED BY <1>9, <1>10

-----------------------------------------------------------------------------
(* What the steps that change a row under way leave of it.                 *)

SameRows(s, t) ==
  /\ Len(t) = Len(s)
  /\ \A i \in 1 .. Len(s) :
       /\ t[i].name = s[i].name /\ t[i].label = s[i].label /\ t[i].tx = s[i].tx
       /\ t[i].freq = s[i].freq /\ t[i].u = s[i].u /\ t[i].turn = s[i].turn
       /\ t[i].first = s[i].first

LEMMA SameRowsOK ==
  ASSUME NEW s, PlanOK("survey", s), NEW t \in Seq(Steps), SameRows(s, t)
  PROVE  PlanOK("survey", t)
<1>1. s \in Seq(Steps) /\ Len(s) \in Nat /\ SurveyRowsOK(s)
  BY DEF PlanOK
<1>2. SurveyRowsOK(t)
  BY <1>1 DEF SameRows, SurveyRowsOK
<1> QED BY <1>2 DEF PlanOK

LEMMA LockedRow ==
  ASSUME NEW r \in Steps, NEW a \in Levels, NEW t,
         t = [r EXCEPT !.level = BackedOff(a, r.backoff)]
  PROVE  /\ t \in Steps
         /\ t.name = r.name /\ t.label = r.label /\ t.tx = r.tx /\ t.freq = r.freq
         /\ t.u = r.u /\ t.turn = r.turn /\ t.first = r.first
<1>1. BackedOff(a, r.backoff) \in Nat
  BY BenchAssumption DEF BackedOff, Steps
<1> QED BY <1>1 DEF Steps

LEMMA FirstReplaced ==
  ASSUME NEW s \in Seq(Steps), s # <<>>, NEW r \in Steps, NEW t, t = [s EXCEPT ![1] = r]
  PROVE  /\ t \in Seq(Steps) /\ Len(t) = Len(s) /\ t[1] = r
         /\ \A i \in 2 .. Len(s) : t[i] = s[i]
  OBVIOUS

LEMMA FindLockRows ==
  ASSUME PlanInv, FindLock
  PROVE  /\ kind = "survey" /\ steps # <<>> /\ steps \in Seq(Steps) /\ Len(steps) \in Nat \ {0}
         /\ steps' \in Seq(Steps) /\ SameRows(steps, steps')
<1>1. pc = "lock"
  BY DEF FindLock
<1>2. kind = "survey" /\ PlanOK(kind, steps) /\ steps # <<>>
  BY <1>1 DEF PlanInv, InTry
<1>3. steps \in Seq(Steps) /\ Len(steps) \in Nat \ {0}
  BY <1>2 DEF PlanOK
<1>4. PICK a \in Levels :
        steps' = [i \in DOMAIN steps |->
                    IF steps[i].turn = Step.turn
                    THEN [steps[i] EXCEPT !.level = BackedOff(a, steps[i].backoff)] ELSE steps[i]]
  BY DEF FindLock
<1>5. ASSUME NEW i \in 1 .. Len(steps)
      PROVE  /\ steps'[i] \in Steps
             /\ steps'[i].name = steps[i].name /\ steps'[i].label = steps[i].label
             /\ steps'[i].tx = steps[i].tx /\ steps'[i].freq = steps[i].freq
             /\ steps'[i].u = steps[i].u /\ steps'[i].turn = steps[i].turn
             /\ steps'[i].first = steps[i].first
  <2>1. PICK r \in Steps : r = steps[i]
    BY <1>3
  <2>2. steps'[i] = [r EXCEPT !.level = BackedOff(a, r.backoff)] \/ steps'[i] = r
    BY <1>3, <1>4, <2>1
  <2> QED BY <2>1, <2>2, LockedRow
<1>6. DOMAIN steps' = 1 .. Len(steps) /\ steps' = [i \in 1 .. Len(steps) |-> steps'[i]]
  BY <1>3, <1>4
<1>7. steps' \in [1 .. Len(steps) -> Steps]
  BY <1>5, <1>6
<1>8. steps' \in Seq(Steps) /\ Len(steps') = Len(steps)
  BY <1>3, <1>7
<1> QED BY <1>2, <1>3, <1>5, <1>8 DEF SameRows

LEMMA LevelOrxRows ==
  ASSUME PlanInv, LevelOrx
  PROVE  /\ kind = "survey" /\ steps # <<>> /\ steps \in Seq(Steps) /\ Len(steps) \in Nat \ {0}
         /\ steps' \in Seq(Steps) /\ SameRows(steps, steps')
         /\ steps'[1].level = Step.level
         /\ DOMAIN gain = Tx => steps'[1].gain = gain'[Step.tx]
<1>1. pc = "gain" /\ kind = "survey"
  BY DEF LevelOrx
<1>2. PlanOK(kind, steps) /\ steps # <<>>
  BY <1>1 DEF PlanInv, InTry
<1>3. steps \in Seq(Steps) /\ Len(steps) \in Nat \ {0} /\ Step \in Steps
  BY <1>2 DEF PlanOK, Step
<1>4. PICK g \in Gains : /\ gain' = [gain EXCEPT ![Step.tx] = g]
                         /\ steps' = [steps EXCEPT ![1].gain = g]
  BY DEF LevelOrx
<1>5. g \in Nat
  BY BenchAssumption
<1> DEFINE r == [Step EXCEPT !.gain = g]
<1>6. /\ r \in Steps
      /\ r.name = Step.name /\ r.label = Step.label /\ r.tx = Step.tx
      /\ r.freq = Step.freq /\ r.u = Step.u /\ r.turn = Step.turn
      /\ r.first = Step.first /\ r.level = Step.level /\ r.gain = g
  BY <1>3, <1>5 DEF Steps
<1>7. steps' = [steps EXCEPT ![1] = r]
  BY <1>3, <1>4 DEF Step
<1> HIDE DEF r
<1>8. /\ steps' \in Seq(Steps) /\ Len(steps') = Len(steps) /\ steps'[1] = r
      /\ \A i \in 2 .. Len(steps) : steps'[i] = steps[i]
  BY <1>2, <1>3, <1>6, <1>7, FirstReplaced
<1>11. SameRows(steps, steps')
  BY <1>3, <1>6, <1>8 DEF SameRows, Step
<1>12. Step.tx \in Tx
  BY <1>3 DEF Steps
<1>13. DOMAIN gain = Tx => gain'[Step.tx] = g
  BY <1>4, <1>12
<1>14. steps'[1].level = Step.level /\ steps'[1].gain = g
  BY <1>6, <1>8
<1> QED BY <1>1, <1>2, <1>3, <1>8, <1>11, <1>13, <1>14

LEMMA IterationRows ==
  ASSUME PlanInv, AppendIteration
  PROVE  /\ kind = "linearize" /\ steps # <<>> /\ Len(steps) = 1 /\ Step \in Steps
         /\ Step.array
         /\ steps' \in Seq(Steps) /\ Len(steps') = 1
         /\ steps'[1].name = Step.name /\ steps'[1].label = Step.label /\ steps'[1].tx = Step.tx
         /\ steps'[1].freq = Step.freq /\ steps'[1].array = Step.array
         /\ steps'[1].level = Step.level /\ steps'[1].gain = Step.gain
<1>1. pc = "note" /\ kind = "linearize"
  BY DEF AppendIteration
<1>2. PlanOK(kind, steps) /\ steps # <<>>
  BY <1>1 DEF PlanInv, InTry
<1>3. steps \in Seq(Steps) /\ Len(steps) = 1 /\ Step \in Steps /\ Step.array
  BY <1>1, <1>2 DEF PlanOK, Step
<1>4. CASE steps' = steps
  BY <1>1, <1>2, <1>3, <1>4 DEF Step
<1>6. CASE \E u \in Waves : steps' = [steps EXCEPT ![1].u = u]
  <2>1. PICK u \in Waves : steps' = [steps EXCEPT ![1].u = u]
    BY <1>6
  <2> DEFINE r == [Step EXCEPT !.u = u]
  <2>2. /\ r \in Steps
        /\ r.name = Step.name /\ r.label = Step.label /\ r.tx = Step.tx /\ r.freq = Step.freq
        /\ r.array = Step.array /\ r.level = Step.level /\ r.gain = Step.gain
    BY <1>3 DEF Steps
  <2>3. steps' = [steps EXCEPT ![1] = r]
    BY <1>3, <2>1 DEF Step
  <2> HIDE DEF r
  <2>4. steps' \in Seq(Steps) /\ Len(steps') = 1 /\ steps'[1] = r
    BY <1>2, <1>3, <2>2, <2>3, FirstReplaced
  <2> QED BY <1>1, <1>2, <1>3, <2>2, <2>4
<1> QED BY <1>4, <1>6 DEF AppendIteration

-----------------------------------------------------------------------------
(* The plan *)

LEMMA PlanInit == Init => PlanInv
  BY DEF Init, PlanInv, InTry

LEMMA PlanBegins ==
  ASSUME PlanInv,
         BeginReplay \/ BeginCommand \/ BeginLinearize \/ BeginSurvey \/ BeginSweep
  PROVE  PlanInv'
<1> DEFINE Begun(k) ==
      /\ kind' = k /\ pc' \in {"open", "session"} /\ PlanOK(k, steps')
      /\ k = "survey" /\ steps' # <<>> => steps'[1].first
<1>1. ASSUME NEW k \in {"replay", "command", "linearize", "survey"}, Begun(k)
      PROVE  PlanInv'
  BY <1>1 DEF PlanInv, InTry, Step
<1>2. ASSUME pc' \in {"idle", "point"}
      PROVE  PlanInv'
  BY <1>2 DEF PlanInv, InTry
<1>3. CASE BeginReplay
  <2>1. PICK r \in Replays :
          \/ \E rows \in RowsOf[r] : \E from \in SourceRows(rows) :
               Begin("replay", ReplayPlan(rows, from), "open")
          \/ Begin("replay", <<>>, "idle")
    BY <1>3 DEF BeginReplay
  <2>2. CASE Begin("replay", <<>>, "idle")
    BY <1>2, <2>2 DEF Begin
  <2>3. ASSUME NEW rows \in RowsOf[r], NEW from \in SourceRows(rows),
               Begin("replay", ReplayPlan(rows, from), "open")
        PROVE  PlanInv'
    <3>1. PlanOK("replay", ReplayPlan(rows, from))
      BY ReplayPlanOK DEF RowsOf
    <3>2. kind' = "replay" /\ pc' = "open" /\ steps' = ReplayPlan(rows, from)
      BY <2>3 DEF Begin
    <3> QED BY <1>1, <3>1, <3>2
  <2> QED BY <2>1, <2>2, <2>3
<1>4. CASE BeginCommand
  <2>1. PICK c \in Commands :
          \/ \E from \in SourceRows(c) : Begin("command", CommandPlan(c, from), "open")
          \/ Begin("command", <<>>, "idle")
    BY <1>4 DEF BeginCommand
  <2>2. CASE Begin("command", <<>>, "idle")
    BY <1>2, <2>2 DEF Begin
  <2>3. ASSUME NEW from \in SourceRows(c), Begin("command", CommandPlan(c, from), "open")
        PROVE  PlanInv'
    <3>1. PlanOK("command", CommandPlan(c, from))
      BY CommandPlanOK
    <3>2. kind' = "command" /\ pc' = "open" /\ steps' = CommandPlan(c, from)
      BY <2>3 DEF Begin
    <3> QED BY <1>1, <3>1, <3>2
  <2> QED BY <2>1, <2>2, <2>3
<1>5. CASE BeginLinearize
  <2>1. PICK n \in Rows :
          Begin("linearize", <<Played(Saved[n], "ila", Saved[n].u, TRUE)>>, "open")
    BY <1>5 DEF BeginLinearize
  <2> DEFINE plan == <<Played(Saved[n], "ila", Saved[n].u, TRUE)>>
  <2>2. PlanOK("linearize", plan)
    BY LinearizePlanOK
  <2>3. kind' = "linearize" /\ pc' = "open" /\ steps' = plan
    BY <2>1 DEF Begin
  <2> HIDE DEF plan
  <2> QED BY <1>1, <2>2, <2>3
<1>6. CASE BeginSurvey
  <2>1. PICK v \in Surveys : Begin("survey", SurveyPlan(v), "session")
    BY <1>6 DEF BeginSurvey
  <2>2. PlanOK("survey", SurveyPlan(v)) /\ (SurveyPlan(v) # <<>> => SurveyPlan(v)[1].first)
    BY SurveyPlanOK
  <2>3. kind' = "survey" /\ pc' = "session" /\ steps' = SurveyPlan(v)
    BY <2>1 DEF Begin
  <2> QED BY <1>1, <2>2, <2>3
<1>7. CASE BeginSweep
  BY <1>2, <1>7 DEF BeginSweep, Begin
<1> QED BY <1>3, <1>4, <1>5, <1>6, <1>7

LEMMA PlanNext ==
  ASSUME PlanInv, [Next]_vars PROVE PlanInv'
<1> USE DEF InTry
<1>1. CASE BeginReplay \/ BeginCommand \/ BeginLinearize \/ BeginSurvey \/ BeginSweep
  BY <1>1, PlanBegins
<1>2. CASE FirstLo
  BY <1>2 DEF PlanInv, FirstLo, TunesLo, folderVars, Step
<1>3. CASE Open
  <2>1. \A i \in 1 .. Len(steps) : steps[i].label \in DOMAIN log'
    BY <1>3 DEF Open
  <2>2. /\ pc = "open" /\ kind' = kind /\ steps' = steps
        /\ pc' \in {"finish", "quiet", "signal", "source"}
        /\ pc' # "finish" => steps # <<>>
        /\ pc' = "signal" => kind = "survey"
        /\ pc' = "source" => kind # "survey"
    BY <1>3 DEF Open, planVars
  <2>3. PlanOK(kind', steps')
    BY <2>2 DEF PlanInv
  <2>4. kind \in {"replay", "command", "linearize", "survey"}
    BY <2>2 DEF PlanInv
  <2> QED BY <2>1, <2>2, <2>3, <2>4 DEF PlanInv
<1>4. CASE TakeSource \/ DisableTx
  BY <1>4 DEF PlanInv, TakeSource, DisableTx, AfterQuiet, planVars, folderVars, Step
<1>5. CASE RetuneLo \/ SetTxAtten \/ SetRxGain \/ TransmitStored
  BY <1>5 DEF PlanInv, RetuneLo, TunesLo, SetTxAtten, SetRxGain, TransmitStored, planVars,
              folderVars, Step
<1>6. CASE CapturePoint \/ KeepInput \/ SaveOutput \/ SaveSignal \/ StartAtten
  BY <1>6 DEF PlanInv, CapturePoint, KeepInput, SaveOutput, SaveSignal, StartAtten, planVars,
              folderVars, Step
<1>7. CASE AppendRow \/ AppendCondition
  <2>1. kind # "linearize" /\ pc = "note"
    BY <1>7 DEF AppendRow, AppendCondition
  <2>2. PlanOK(kind, steps) /\ steps # <<>>
    BY <2>1 DEF PlanInv
  <2>3. PlanOK(kind, Tail(steps)) /\ steps' = Tail(steps) /\ kind' = kind
    BY <1>7, <2>1, <2>2, PlanTail DEF AppendRow, AppendCondition
  <2>4. /\ Len(steps) \in Nat \ {0} /\ steps' \in Seq(Steps)
        /\ Len(steps') = Len(steps) - 1
        /\ \A i \in 1 .. Len(steps) - 1 : steps'[i] = steps[i + 1]
    BY <2>2, <2>3, TailFacts DEF PlanOK
  <2>5. DOMAIN log' = DOMAIN log
    BY <1>7 DEF AppendRow, AppendCondition, Noted
  <2>6. \A i \in 1 .. Len(steps') : steps'[i].label \in DOMAIN log'
    BY <2>1, <2>4, <2>5 DEF PlanInv
  <2>7. steps' = <<>> <=> Len(steps) = 1
    BY <2>4
  <2>8. /\ pc' \in {"finish", "source", "atten", "quiet"}
        /\ pc' = "source" => kind # "survey"
        /\ pc' = "quiet" => kind = "survey"
        /\ steps' = <<>> => pc' \in {"finish", "quiet"}
    BY <1>7, <2>4, <2>7 DEF AppendRow, AppendCondition
  <2>9. kind \in {"replay", "command", "linearize", "survey"}
    BY <2>1 DEF PlanInv
  <2> QED BY <2>3, <2>6, <2>8, <2>9 DEF PlanInv
<1>8. CASE AppendIteration
  <2>1. /\ kind = "linearize" /\ Len(steps') = 1 /\ steps' \in Seq(Steps)
        /\ steps'[1].array /\ steps'[1].label = Step.label /\ steps' # <<>>
    BY <1>8, IterationRows
  <2>2. kind' = "linearize" /\ pc' \in {"finish", "source"}
    BY <1>8, <2>1 DEF AppendIteration
  <2>3. PlanOK(kind', steps')
    BY <2>1, <2>2 DEF PlanOK
  <2>4. steps'[1].label \in DOMAIN log'
    BY <1>8, <2>1, IterationRows DEF AppendIteration, Noted, PlanInv, Step
  <2> QED BY <2>1, <2>2, <2>3, <2>4 DEF PlanInv
<1>9. CASE FindLock \/ LevelOrx
  <2>1. /\ kind = "survey" /\ steps # <<>> /\ steps \in Seq(Steps) /\ Len(steps) \in Nat \ {0}
        /\ steps' \in Seq(Steps) /\ SameRows(steps, steps')
    BY <1>9, FindLockRows, LevelOrxRows
  <2>2. kind' = kind /\ log' = log /\ pc' \in {"atten", "capture"} /\ pc \in {"lock", "gain"}
    BY <1>9 DEF FindLock, LevelOrx, folderVars
  <2>3. PlanOK("survey", steps')
    BY <2>1, <2>2, SameRowsOK DEF PlanInv
  <2>4. \A i \in 1 .. Len(steps') : steps'[i].label \in DOMAIN log'
    BY <2>1, <2>2 DEF SameRows, PlanInv
  <2>5. steps' # <<>>
    BY <2>1 DEF SameRows
  <2> QED BY <2>1, <2>2, <2>3, <2>4, <2>5 DEF PlanInv
<1>10. CASE ApplyLos \/ ApplyBands \/ TransmitPoint \/ LevelBands \/ MeasureBands \/ EndSweep
  BY <1>10 DEF PlanInv, ApplyLos, ApplyBands, TransmitPoint, LevelBands, MeasureBands, EndSweep
<1>11. CASE Fail \/ Finish \/ Kill
  BY <1>11 DEF PlanInv, Fail, Finish, Kill
<1>12. CASE Done \/ UNCHANGED vars
  BY <1>12 DEF PlanInv, Done, vars, planVars, folderVars, Step
<1> QED
  BY <1>1, <1>2, <1>3, <1>4, <1>5, <1>6, <1>7, <1>8, <1>9, <1>10, <1>11, <1>12 DEF Next

-----------------------------------------------------------------------------
(* The radio *)

LEMMA ShapeInit == Init => ShapeInv
  BY DEF Init, ShapeInv

LEMMA ShapeNext == ShapeInv /\ [Next]_vars => ShapeInv'
<1> SUFFICES ASSUME ShapeInv, [Next]_vars PROVE ShapeInv'
  OBVIOUS
<1> USE DEF ShapeInv
<1>1. CASE BeginReplay \/ BeginCommand \/ BeginLinearize
  BY <1>1 DEF MayBegin, BeginReplay, BeginCommand, BeginLinearize, radioVars
<1>2. CASE BeginSurvey \/ BeginSweep \/ FirstLo
  BY <1>2 DEF BeginSurvey, BeginSweep, FirstLo, TunesLo, radioVars
<1>3. CASE Open \/ TakeSource \/ DisableTx \/ RetuneLo \/ SetTxAtten \/ SetRxGain
  BY <1>3 DEF Open, TakeSource, DisableTx, RetuneLo, TunesLo, SetTxAtten, SetRxGain, radioVars
<1>4. CASE TransmitStored \/ CapturePoint \/ KeepInput \/ SaveOutput \/ AppendRow
  BY <1>4 DEF TransmitStored, CapturePoint, KeepInput, SaveOutput, AppendRow, radioVars
<1>5. CASE AppendIteration \/ SaveSignal \/ StartAtten \/ AppendCondition
  BY <1>5 DEF AppendIteration, SaveSignal, StartAtten, AppendCondition, radioVars
<1>6. CASE FindLock \/ LevelOrx
  BY <1>6 DEF FindLock, LevelOrx
<1>7. CASE ApplyLos \/ ApplyBands \/ TransmitPoint \/ LevelBands \/ MeasureBands \/ EndSweep
  BY <1>7 DEF ApplyLos, ApplyBands, TransmitPoint, LevelBands, MeasureBands, EndSweep
<1>8. CASE Fail \/ Finish \/ Kill \/ Done \/ UNCHANGED vars
  BY <1>8 DEF Fail, Finish, Kill, Done, vars, radioVars
<1> QED
  BY <1>1, <1>2, <1>3, <1>4, <1>5, <1>6, <1>7, <1>8 DEF Next

(* What the row under way is made of. *)
LEMMA StepFacts ==
  ASSUME PlanInv, pc \in InTry, steps # <<>>
  PROVE  /\ Step \in Steps /\ Step.tx \in Tx /\ LoOf[Step.tx] \in Los /\ OrxOf[Step.tx] \in Orx
         /\ Step.u \in Waves /\ Step.freq \in Freqs /\ Step.freq # 0
         /\ Step.label \in DOMAIN log
         /\ steps \in Seq(Steps) /\ Len(steps) \in Nat \ {0}
<1>1. steps \in Seq(Steps) /\ Len(steps) \in Nat \ {0}
  BY DEF PlanInv, PlanOK
<1>2. Step \in Steps /\ Step.label \in DOMAIN log
  BY <1>1 DEF Step, PlanInv
<1> QED BY <1>1, <1>2, BenchAssumption DEF Steps

LEMMA RadioInit == Init => RadioInv
  BY DEF Init, RadioInv, Tuned, Attenuated, Gained, Playing, AtCapture

LEMMA RadioCapture ==
  ASSUME PlanInv, ShapeInv, RadioInv, CapturePoint PROVE RadioInv'
<1>1. pc = "capture" /\ pc \in InTry /\ steps # <<>>
  BY DEF CapturePoint, PlanInv, InTry
<1>2. /\ lo[tuned] = Step.freq /\ atten[Step.tx] = Step.level
      /\ gain[Step.tx] = Step.gain /\ on[Step.tx] = Step.u
  BY <1>1 DEF RadioInv, Tuned, Attenuated, Gained, Playing, AtCapture
<1>3. UNCHANGED <<lo, atten, gain, on, steps, kind, current, tuned>>
  BY DEF CapturePoint, planVars
<1>4. CASE pc' = "finish"
  BY <1>4 DEF RadioInv, Tuned, Attenuated, Gained, Playing, AtCapture
<1>5. CASE pc' \in {"keep", "save"}
  <2>1. ChannelSlot(OrxOf[Step.tx], RxOrder) # 0
    BY <1>5 DEF CapturePoint
  <2>2. shot' = Measured(Step.tx, orx') /\ orx' = (RxInit \cap MainRx) \cup {OrxOf[Step.tx]}
    BY <2>1 DEF CapturePoint, EnableOrx
  <2>3. PICK t \in Tx, o \in Orx : t = Step.tx /\ o = OrxOf[t]
    BY <1>1, StepFacts
  <2>4. CaptureArrays(Snapshot(RxOrder, (RxInit \cap MainRx) \cup {o}), {ChannelSlot(o, RxOrder)})
          [ChannelSlot(o, RxOrder)] = {o}
    BY <2>1, <2>3, OwnInputAlone
  <2>5. Measured(t, orx') = [of |-> {o}, freq |-> lo[LoOf[t]], level |-> atten[t],
                              gain |-> gain[t], wave |-> on[t]]
    BY <2>2, <2>3, <2>4 DEF Measured
  <2>6. shot' = [Claimed(Step) EXCEPT !.freq = lo[LoOf[Step.tx]]]
    BY <1>2, <2>2, <2>3, <2>5 DEF Claimed
  <2>7. Claimed(Step).freq = Step.freq /\ shot'.freq = lo[LoOf[Step.tx]]
    BY <2>6 DEF Claimed
  <2>8. TrueOf(Step, tuned, shot')
    <3>1. CASE tuned = LoOf[Step.tx]
      <4>1. shot' = Claimed(Step)
        BY <1>2, <2>6, <3>1 DEF Claimed
      <4> QED BY <3>1, <4>1 DEF TrueOf
    <3>2. CASE tuned # LoOf[Step.tx]
      BY <2>6, <2>7, <3>2 DEF TrueOf
    <3> QED BY <3>1, <3>2
  <2>9. Step' = Step /\ tuned' = tuned
    BY <1>3 DEF Step
  <2>10. TrueOf(Step', tuned', shot')
    BY <2>8, <2>9
  <2>11. TrueOf(Step, tuned, shot)'
    BY <2>10 DEF TrueOf, Claimed
  <2> QED
    BY <1>2, <1>3, <1>5, <2>9, <2>11 DEF RadioInv, Tuned, Attenuated, Gained, Playing, AtCapture
<1> QED BY <1>4, <1>5 DEF CapturePoint

LEMMA RadioRows ==
  ASSUME PlanInv, ShapeInv, RadioInv,
         AppendRow \/ AppendIteration \/ AppendCondition \/ FindLock \/ LevelOrx
  PROVE  RadioInv'
<1> USE DEF RadioInv, Tuned, Attenuated, Gained, Playing, AtCapture
<1>1. CASE AppendRow
  <2>1. /\ pc = "note" /\ kind \in {"replay", "command"} /\ kind' = kind
        /\ current' = Step.freq /\ UNCHANGED <<lo, tuned>> /\ pc' \in {"finish", "source"}
    BY <1>1 DEF AppendRow, radioVars
  <2>2. lo[tuned] = Step.freq
    BY <2>1
  <2> HIDE DEF Step
  <2> QED BY <2>1, <2>2
<1>2. CASE AppendIteration
  <2>1. /\ kind = "linearize" /\ steps'[1].tx = Step.tx
        /\ steps'[1].freq = Step.freq /\ steps'[1].level = Step.level /\ steps'[1].gain = Step.gain
    BY <1>2, IterationRows
  <2>2. pc = "note" /\ UNCHANGED <<lo, tuned, atten, gain, kind>> /\ pc' \in {"source", "finish"}
    BY <1>2 DEF AppendIteration, radioVars
  <2> QED BY <2>1, <2>2 DEF Step
<1>3. CASE AppendCondition
  <2>1. /\ pc = "note" /\ kind = "survey" /\ kind' = kind /\ steps' = Tail(steps)
        /\ UNCHANGED <<lo, tuned, on>>
        /\ pc' = IF Len(steps) > 1 /\ steps[2].turn = Step.turn THEN "atten" ELSE "quiet"
    BY <1>3 DEF AppendCondition, radioVars
  <2>2. steps # <<>> /\ SurveyRowsOK(steps) /\ steps \in Seq(Steps)
    BY <2>1 DEF PlanInv, PlanOK, InTry
  <2>3. lo[tuned] = Step.freq /\ on[Step.tx] = Step.u
    BY <2>1
  <2>4. ASSUME pc' = "atten"
        PROVE  Step'.tx = Step.tx /\ Step'.freq = Step.freq /\ Step'.u = Step.u
    <3>1. Len(steps) \in Nat /\ Len(steps) > 1 /\ Step' = steps[2] /\ steps[2].turn = steps[1].turn
      BY <2>1, <2>2, <2>4, TailFacts DEF Step
    <3> QED BY <2>2, <3>1 DEF SurveyRowsOK, Step
  <2> QED BY <2>1, <2>3, <2>4
<1>4. CASE FindLock
  <2>1. /\ kind = "survey" /\ Len(steps) \in Nat \ {0} /\ SameRows(steps, steps')
    BY <1>4, FindLockRows
  <2>2. pc = "lock" /\ pc' = "atten" /\ UNCHANGED <<lo, tuned, on, kind>>
    BY <1>4 DEF FindLock
  <2>3. Step'.tx = Step.tx /\ Step'.freq = Step.freq /\ Step'.u = Step.u
    BY <2>1 DEF SameRows, Step
  <2> QED BY <2>1, <2>2, <2>3
<1>5. CASE LevelOrx
  <2>1. /\ kind = "survey" /\ Len(steps) \in Nat \ {0} /\ SameRows(steps, steps')
        /\ steps'[1].level = Step.level /\ steps'[1].gain = gain'[Step.tx]
    BY <1>5, LevelOrxRows DEF ShapeInv
  <2>2. pc = "gain" /\ pc' = "capture" /\ UNCHANGED <<lo, tuned, atten, on, kind>>
    BY <1>5 DEF LevelOrx
  <2>3. Step'.tx = Step.tx /\ Step'.freq = Step.freq /\ Step'.u = Step.u
        /\ Step'.level = Step.level /\ Step'.gain = gain'[Step.tx]
    BY <2>1 DEF SameRows, Step
  <2> QED BY <2>1, <2>2, <2>3
<1> QED BY <1>1, <1>2, <1>3, <1>4, <1>5

LEMMA RadioNext ==
  ASSUME PlanInv, ShapeInv, RadioInv, [Next]_vars PROVE RadioInv'
<1> USE DEF RadioInv, Tuned, Attenuated, Gained, Playing, AtCapture, Step
<1>1. CASE BeginReplay \/ BeginCommand \/ BeginLinearize \/ BeginSurvey \/ BeginSweep
  <2>1. pc' \in {"open", "session", "point", "idle"} /\ current' = 0
    BY <1>1 DEF MayBegin, BeginReplay, BeginCommand, BeginLinearize, BeginSurvey, BeginSweep, Begin
  <2> QED BY <2>1
<1>2. CASE FirstLo
  BY <1>2 DEF FirstLo, TunesLo
<1>3. CASE Open
  <2>1. /\ pc = "open" /\ UNCHANGED <<kind, steps, current>>
        /\ pc' \in {"finish", "quiet", "signal", "source"}
        /\ pc' # "finish" => steps # <<>>
        /\ pc' = "source" => kind # "linearize"
    BY <1>3 DEF Open, planVars
  <2>2. current = 0
    BY <2>1
  <2>3. ASSUME pc' = "source" PROVE steps[1].freq # 0
    <3>1. steps \in Seq(Steps) /\ steps # <<>>
      BY <2>1, <2>3 DEF PlanInv, PlanOK
    <3>2. steps[1] \in Steps
      BY <3>1, TailFacts
    <3> QED BY <3>2, BenchAssumption DEF Steps
  <2> QED BY <2>1, <2>2, <2>3
<1>4. CASE TakeSource
  <2>1. /\ pc = "source" /\ pc' \in {"finish", "play", "quiet", "atten"}
        /\ UNCHANGED <<lo, tuned, atten, gain, on, kind, steps, current>>
        /\ pc' = "play" <=> pc' # "finish" /\ kind = "linearize"
        /\ pc' = "atten" => ~Retunes
    BY <1>4 DEF TakeSource, radioVars, planVars
  <2>2. kind # "survey"
    BY <2>1 DEF PlanInv, InTry
  <2> QED BY <2>1, <2>2 DEF Retunes
<1>5. CASE DisableTx
  <2>1. pc' \in {"tune", "finish", "signal"}
    BY <1>5 DEF DisableTx, AfterQuiet
  <2> QED BY <2>1
<1>6. CASE RetuneLo
  <2>1. /\ pc = "tune" /\ UNCHANGED <<kind, steps>>
        /\ lo' = [lo EXCEPT ![LoOf[Step.tx]] = Step.freq] /\ tuned' = LoOf[Step.tx]
        /\ pc' = IF kind = "survey" THEN "play" ELSE "atten"
    BY <1>6 DEF RetuneLo, TunesLo
  <2>2. LoOf[Step.tx] \in DOMAIN lo
    BY <2>1, StepFacts DEF ShapeInv, PlanInv, InTry
  <2> QED BY <2>1, <2>2
<1>7. CASE SetTxAtten
  <2>1. /\ pc = "atten" /\ pc' = "gain" /\ UNCHANGED <<lo, tuned, on, kind, steps>>
        /\ atten' = [atten EXCEPT ![Step.tx] = Step.level]
    BY <1>7 DEF SetTxAtten, planVars
  <2>2. Step.tx \in DOMAIN atten
    BY <2>1, StepFacts DEF ShapeInv, PlanInv, InTry
  <2> QED BY <2>1, <2>2
<1>8. CASE SetRxGain
  <2>1. /\ pc = "gain" /\ kind # "survey" /\ UNCHANGED <<lo, tuned, atten, kind, steps>>
        /\ pc' \in {"source", "play"} /\ (pc' = "source" => kind = "linearize")
        /\ gain' = [gain EXCEPT ![Step.tx] = Step.gain]
    BY <1>8 DEF SetRxGain, planVars
  <2>2. Step.tx \in DOMAIN gain
    BY <2>1, StepFacts DEF ShapeInv, PlanInv, InTry
  <2> QED BY <2>1, <2>2
<1>9. CASE TransmitStored
  <2>1. /\ pc = "play" /\ UNCHANGED <<lo, tuned, atten, gain, kind, steps>>
        /\ \/ /\ on' = [Quiet EXCEPT ![Step.tx] = Step.u]
              /\ pc' = IF kind = "survey" THEN "lock" ELSE "capture"
           \/ pc' = "finish"
    BY <1>9 DEF TransmitStored, planVars
  <2>2. Step.tx \in DOMAIN Quiet
    BY <2>1, StepFacts DEF Quiet, PlanInv, InTry
  <2> QED BY <2>1, <2>2
<1>10. CASE CapturePoint
  BY <1>10, RadioCapture
<1>11. CASE KeepInput \/ SaveOutput
  <2>1. /\ pc \in {"keep", "save"} /\ pc' \in {"save", "note"}
        /\ UNCHANGED <<lo, tuned, atten, gain, on, shot, kind, steps>>
    BY <1>11 DEF KeepInput, SaveOutput, radioVars, planVars
  <2>2. TrueOf(Step, tuned, shot)' <=> TrueOf(Step, tuned, shot)
    BY <2>1 DEF TrueOf, Claimed
  <2> HIDE DEF Step
  <2>3. Step' = Step
    BY <2>1 DEF Step
  <2> QED BY <2>1, <2>2, <2>3
<1>12. CASE AppendRow \/ AppendIteration \/ AppendCondition \/ FindLock \/ LevelOrx
  BY <1>12, RadioRows
<1>13. CASE SaveSignal \/ StartAtten
  BY <1>13 DEF SaveSignal, StartAtten
<1>14. CASE ApplyLos \/ ApplyBands \/ TransmitPoint \/ LevelBands \/ MeasureBands \/ EndSweep
  BY <1>14 DEF ApplyLos, ApplyBands, TransmitPoint, LevelBands, MeasureBands, EndSweep
<1>15. CASE Fail \/ Finish \/ Kill
  BY <1>15 DEF Fail, Finish, Kill
<1>16. CASE Done \/ UNCHANGED vars
  <2>1. UNCHANGED <<lo, tuned, atten, gain, on, shot, kind, steps, pc, current>>
    BY <1>16 DEF Done, vars, radioVars, planVars
  <2>2. TrueOf(Step, tuned, shot)' <=> TrueOf(Step, tuned, shot)
    BY <2>1 DEF TrueOf, Claimed
  <2> HIDE DEF Step
  <2>3. Step' = Step
    BY <2>1 DEF Step
  <2> QED BY <2>1, <2>2, <2>3
<1> QED
  BY <1>1, <1>2, <1>3, <1>4, <1>5, <1>6, <1>7, <1>8, <1>9, <1>10, <1>11, <1>12, <1>13, <1>14,
     <1>15, <1>16 DEF Next

-----------------------------------------------------------------------------
(* The folder *)

LEMMA Pairs ==
  \A a, b, c, d, e, f : <<a, b>> # <<c, d, e, f>> /\ <<a, b>> # <<>> /\ <<c, d, e, f>> # <<>>
  OBVIOUS

LEMMA WrittenFacts ==
  ASSUME NEW f, NEW c, files' = Written(f, c)
  PROVE  /\ f \in DOMAIN files' /\ files'[f].holds = c /\ files'[f].row = NextRow
         /\ \A g \in DOMAIN files : g \in DOMAIN files' /\ (g # f => files'[g] = files[g])
  BY DEF Written

LEMMA LogUnchanged ==
  ASSUME LogInv, UNCHANGED folderVars PROVE LogInv'
<1>1. log' = log /\ files' = files
  BY DEF folderVars
<1>2. ASSUME NEW l, NEW e, NEW i, RowTrue(e, i, l) PROVE RowTrue(e, i, l)'
  BY <1>1, <1>2 DEF RowTrue, Kept, TrueOf, Claimed
<1> QED BY <1>1, <1>2 DEF LogInv

(* Writing a file leaves the rows true: only rows of the label it is       *)
(* written for name it, and all of those are older than it.                *)
LEMMA LogWritten ==
  ASSUME LogInv, NEW f, NEW c, files' = Written(f, c), log' = log,
         \A l \in DOMAIN log : \A i \in 1 .. Len(log[l]) :
           log[l][i].out = f \/ log[l][i].in = f => l = Step.label
  PROVE  LogInv'
<1>1. ASSUME NEW l \in DOMAIN log, NEW i \in 1 .. Len(log[l]) PROVE RowTrue(log[l][i], i, l)'
  <2>1. PICK e : e = log[l][i]
    OBVIOUS
  <2>2. RowTrue(e, i, l) /\ (e.out = f \/ e.in = f => l = Step.label)
    BY <2>1 DEF LogInv
  <2>3. Len(log[l]) \in Nat
    BY DEF LogInv
  <2>4. l = Step.label => ~(files'[f].row <= i)
    BY <2>3, WrittenFacts DEF NextRow
  <2>5. ASSUME NEW g, NEW what, Kept(g, i, what), g = f => l = Step.label
        PROVE  Kept(g, i, what)'
    <3>1. CASE g = f
      BY <2>4, <2>5, <3>1, WrittenFacts DEF Kept
    <3>2. CASE g # f
      BY <2>5, <3>2, WrittenFacts DEF Kept
    <3> QED BY <3>1, <3>2
  <2>6. RowTrue(e, i, l)'
    BY <2>2, <2>5 DEF RowTrue, TrueOf, Claimed
  <2> QED BY <2>1, <2>6
<1>2. \A l \in DOMAIN log' : log'[l] \in Seq(Items(log'[l]))
  BY DEF LogInv
<1> QED BY <1>1, <1>2 DEF LogInv

(* A step that leaves the row, the files and what was kept as they were.   *)
LEMMA FilesStay ==
  ASSUME FilesInv, pc \in InTry, pc' # "note", UNCHANGED <<files, steps, kind, it>>,
         pc' \in InTry /\ InKept' => InKept
  PROVE  FilesInv'
<1>1. Step' = Step
  BY DEF Step
<1>2. File("in")' = File("in")
  BY <1>1 DEF File
<1>3. InFile' = InFile
  BY <1>1, <1>2 DEF InFile
<1>4. pc' \in InTry /\ InKept' => InFile' \in DOMAIN files' /\ files'[InFile'].holds = Step'.u
  BY <1>1, <1>3 DEF FilesInv
<1> QED BY <1>4 DEF FilesInv

LEMMA FilesInit == Init => FilesInv
<1>1. Init => pc = "idle" /\ DOMAIN files = {}
  BY DEF Init, Nothing
<1> QED BY <1>1 DEF FilesInv, InTry

(* The steps that leave the row.                                           *)
LEMMA FilesLeave ==
  ASSUME FilesInv, UNCHANGED files, pc' # "note", pc' \in InTry => ~InKept'
  PROVE  FilesInv'
  BY DEF FilesInv

LEMMA FilesRows ==
  ASSUME PlanInv, FilesInv,
         AppendRow \/ AppendIteration \/ AppendCondition \/ FindLock \/ LevelOrx
  PROVE  FilesInv'
<1>1. CASE AppendRow \/ AppendIteration
  <2>1. /\ UNCHANGED <<files, kind>> /\ kind \in {"replay", "command", "linearize"}
        /\ pc' \in {"finish", "source"}
    BY <1>1 DEF AppendRow, AppendIteration
  <2> QED BY <2>1, FilesLeave DEF InKept, InTry
<1>2. ASSUME UNCHANGED <<files, kind>>, kind = "survey", pc' # "note", pc \in InTry, InKept,
             pc' \in InTry /\ InKept' => Step'.u = Step.u
      PROVE  FilesInv'
  <2>1. InFile \in DOMAIN files /\ files[InFile].holds = Step.u
    BY <1>2 DEF FilesInv
  <2>2. ASSUME Step'.u = Step.u PROVE InFile' = InFile
    BY <1>2, <2>2 DEF InFile
  <2> QED BY <1>2, <2>1, <2>2 DEF FilesInv
<1>3. CASE FindLock \/ LevelOrx
  <2>1. /\ kind = "survey" /\ Len(steps) \in Nat \ {0} /\ SameRows(steps, steps')
    BY <1>3, FindLockRows, LevelOrxRows
  <2>2. UNCHANGED <<files, kind>> /\ pc \in {"lock", "gain"} /\ pc' # "note"
    BY <1>3 DEF FindLock, LevelOrx, folderVars
  <2>3. Step'.u = Step.u
    BY <2>1 DEF SameRows, Step
  <2> QED BY <1>2, <2>1, <2>2, <2>3 DEF InKept, InTry
<1>4. CASE AppendCondition
  <2>1. /\ pc = "note" /\ kind = "survey" /\ UNCHANGED <<files, kind>> /\ steps' = Tail(steps)
        /\ pc' = IF Len(steps) > 1 /\ steps[2].turn = Step.turn THEN "atten" ELSE "quiet"
    BY <1>4 DEF AppendCondition
  <2>2. steps # <<>> /\ SurveyRowsOK(steps) /\ steps \in Seq(Steps)
    BY <2>1 DEF PlanInv, PlanOK, InTry
  <2>3. /\ Len(steps) \in Nat \ {0} /\ steps' \in Seq(Steps) /\ Len(steps') = Len(steps) - 1
        /\ \A i \in 1 .. Len(steps) - 1 : steps'[i] = steps[i + 1]
    BY <2>1, <2>2, TailFacts
  <2>4. ASSUME InKept' PROVE Step'.u = Step.u
    <3>1. CASE pc' = "atten"
      <4>1. Len(steps) > 1 /\ steps[2].turn = steps[1].turn
        BY <2>1, <3>1 DEF Step
      <4> QED BY <2>2, <2>3, <4>1 DEF SurveyRowsOK, Step
    <3>2. CASE pc' = "quiet"
      <4>1. steps' # <<>> /\ ~Step'.first
        BY <2>1, <2>4, <3>2 DEF InKept
      <4>2. Len(steps) > 1 /\ Step' = steps[2]
        BY <2>3, <4>1 DEF Step
      <4> QED BY <2>2, <2>3, <4>1, <4>2 DEF SurveyRowsOK, Step
    <3> QED BY <2>1, <3>1, <3>2
  <2> QED BY <1>2, <2>1, <2>4 DEF InKept, InTry
<1> QED BY <1>1, <1>3, <1>4

LEMMA FilesNext ==
  ASSUME PlanInv, FilesInv, [Next]_vars PROVE FilesInv'
<1>1. CASE BeginReplay \/ BeginCommand \/ BeginLinearize \/ BeginSurvey \/ BeginSweep \/ FirstLo
  <2>1. pc' \in {"open", "session", "point", "idle"} /\ UNCHANGED files
    BY <1>1 DEF MayBegin, BeginReplay, BeginCommand, BeginLinearize, BeginSurvey, BeginSweep, Begin,
                FirstLo, folderVars
  <2> QED BY <2>1, FilesLeave DEF InTry
<1>2. CASE Open
  <2>1. /\ pc = "open" /\ UNCHANGED <<kind, steps, files>>
        /\ pc' \in {"finish", "quiet", "signal", "source"}
        /\ pc' = "signal" => kind = "survey"
        /\ pc' = "quiet" => kind = "linearize"
        /\ pc' = "source" => kind # "survey"
        /\ pc' # "finish" => steps # <<>>
    BY <1>2 DEF Open, planVars
  <2>2. pc' = "signal" => Step'.first
    BY <2>1 DEF PlanInv, Step
  <2> QED BY <2>1, <2>2, FilesLeave DEF InKept, InTry
<1>3. CASE TakeSource
  <2>1. /\ pc = "source" /\ pc' \in {"finish", "play", "quiet", "atten"}
        /\ UNCHANGED <<kind, steps, it>>
        /\ files' = IF Step.array /\ kind # "linearize" THEN Written(File("in"), Step.u) ELSE files
        /\ pc' = "play" => kind = "linearize"
    BY <1>3 DEF TakeSource, planVars
  <2>2. kind # "survey"
    BY <2>1 DEF PlanInv, InTry
  <2>3. CASE Step.array /\ kind # "linearize"
    <3>1. files' = Written(File("in"), Step.u)
      BY <2>1, <2>3
    <3>2. File("in") \in DOMAIN files' /\ files'[File("in")].holds = Step.u
      BY <3>1, WrittenFacts
    <3>3. Step' = Step /\ InFile' = File("in")
      BY <2>1, <2>2, <2>3 DEF InFile, File, Step
    <3> QED BY <2>1, <3>2, <3>3 DEF FilesInv
  <2>4. CASE ~(Step.array /\ kind # "linearize")
    <3>1. UNCHANGED files
      BY <2>1, <2>4
    <3>2. pc' \in InTry => ~InKept'
      BY <2>1, <2>2, <2>4 DEF InKept, Step
    <3> QED BY <2>1, <3>1, <3>2, FilesLeave
  <2> QED BY <2>3, <2>4
<1>4. CASE DisableTx
  <2>1. /\ pc = "quiet" /\ UNCHANGED <<files, steps, kind, it>>
        /\ pc' \in {"tune", "finish", "signal"}
        /\ pc' = "tune" <=> kind # "survey"
    BY <1>4 DEF DisableTx, AfterQuiet, planVars, folderVars
  <2>2. pc' \in InTry /\ InKept' => InKept
    BY <2>1 DEF InKept, Step, InTry
  <2> QED BY <2>1, <2>2, FilesStay DEF InTry
<1>5. CASE RetuneLo \/ SetTxAtten \/ SetRxGain \/ TransmitStored \/ CapturePoint \/ StartAtten
  <2>1. UNCHANGED <<files, steps, kind, it>>
    BY <1>5 DEF RetuneLo, TunesLo, SetTxAtten, SetRxGain, TransmitStored, CapturePoint,
                StartAtten, planVars, folderVars
  <2>2. /\ pc \in {"tune", "atten", "gain", "play", "capture", "start"}
        /\ pc' \notin {"note", "signal", "quiet"}
        /\ pc' = "save" => kind # "linearize"
    BY <1>5 DEF RetuneLo, SetTxAtten, SetRxGain, TransmitStored, CapturePoint, StartAtten
  <2>3. pc' \in InTry /\ InKept' => InKept
    BY <2>1, <2>2 DEF InKept, Step
  <2> QED BY <2>1, <2>2, <2>3, FilesStay DEF InTry
<1>6. CASE KeepInput
  <2>1. /\ pc = "keep" /\ pc' = "save" /\ UNCHANGED <<kind, steps, it>>
        /\ files' = Written(File("in"), Step.u)
    BY <1>6 DEF KeepInput, planVars
  <2>2. File("in") \in DOMAIN files' /\ files'[File("in")].holds = Step.u
    BY <2>1, WrittenFacts
  <2>3. kind = "linearize" /\ Step.array
    BY <2>1 DEF PlanInv, PlanOK, InTry, Step
  <2>4. Step' = Step /\ InFile' = File("in")
    BY <2>1, <2>3 DEF InFile, File, Step
  <2> QED BY <2>1, <2>2, <2>4 DEF FilesInv
<1>7. CASE SaveOutput
  <2>1. /\ pc = "save" /\ pc' = "note" /\ UNCHANGED <<kind, steps, it, shot>>
        /\ files' = Written(File("out"), shot)
    BY <1>7 DEF SaveOutput, planVars
  <2>2. Step' = Step
    BY <2>1 DEF Step
  <2>3. File("in")' = File("in") /\ File("out")' = File("out")
    BY <2>1, <2>2 DEF File
  <2>4. InFile' = InFile
    BY <2>1, <2>2, <2>3 DEF InFile
  <2>5. File("out") \in DOMAIN files' /\ files'[File("out")].holds = shot
    BY <2>1, WrittenFacts
  <2>6. ASSUME InKept' PROVE InFile \in DOMAIN files' /\ files'[InFile].holds = Step.u
    <3>1. InKept
      BY <2>1, <2>2, <2>6 DEF InKept
    <3>2. InFile \in DOMAIN files /\ files[InFile].holds = Step.u
      BY <2>1, <3>1 DEF FilesInv, InTry
    <3>3. InFile # File("out")
      BY <3>1, Pairs DEF InFile, File, InKept
    <3> QED BY <2>1, <3>2, <3>3, WrittenFacts
  <2> QED BY <2>1, <2>2, <2>3, <2>4, <2>5, <2>6 DEF FilesInv
<1>8. CASE SaveSignal
  <2>1. /\ pc = "signal" /\ pc' = "start" /\ UNCHANGED <<kind, steps, it>>
        /\ files' = IF Step.first THEN Written(InFile, Step.u) ELSE files
    BY <1>8 DEF SaveSignal, planVars
  <2>2. kind = "survey" /\ steps # <<>>
    BY <2>1 DEF PlanInv, InTry
  <2>3. CASE ~Step.first
    <3>1. InKept /\ UNCHANGED files
      BY <2>1, <2>2, <2>3 DEF InKept
    <3> QED BY <2>1, <3>1, FilesStay DEF InTry
  <2>4. CASE Step.first
    <3>1. InFile' = InFile /\ Step' = Step
      BY <2>1, <2>2 DEF InFile, Step
    <3>2. files' = Written(InFile, Step.u)
      BY <2>1, <2>4
    <3>3. InFile \in DOMAIN files' /\ files'[InFile].holds = Step.u
      BY <3>2, WrittenFacts
    <3> QED BY <2>1, <3>1, <3>3 DEF FilesInv
  <2> QED BY <2>3, <2>4
<1>9. CASE AppendRow \/ AppendIteration \/ AppendCondition \/ FindLock \/ LevelOrx
  BY <1>9, FilesRows
<1>10. CASE ApplyLos \/ ApplyBands \/ TransmitPoint \/ LevelBands \/ MeasureBands \/ EndSweep
            \/ Fail \/ Finish \/ Kill
  <2>1. pc' \notin InTry /\ UNCHANGED files
    BY <1>10 DEF ApplyLos, ApplyBands, TransmitPoint, LevelBands, MeasureBands, EndSweep,
                 Fail, Finish, Kill, folderVars, InTry
  <2> QED BY <2>1, FilesLeave DEF InTry
<1>11. CASE Done \/ UNCHANGED vars
  <2>1. UNCHANGED <<pc, kind, steps, it, shot, files>>
    BY <1>11 DEF Done, vars, planVars, folderVars
  <2>2. Step' = Step
    BY <2>1 DEF Step
  <2>3. File("in")' = File("in") /\ File("out")' = File("out")
    BY <2>1, <2>2 DEF File
  <2>4. InFile' = InFile /\ (InKept' <=> InKept)
    BY <2>1, <2>2, <2>3 DEF InFile, InKept
  <2> QED BY <2>1, <2>2, <2>3, <2>4 DEF FilesInv
<1> QED
  BY <1>1, <1>2, <1>3, <1>4, <1>5, <1>6, <1>7, <1>8, <1>9, <1>10, <1>11 DEF Next

-----------------------------------------------------------------------------
(* The log *)

LEMMA LogInit == Init => LogInv
<1>1. Init => DOMAIN log = {}
  BY DEF Init, Nothing
<1> QED BY <1>1 DEF LogInv

(* A new row is true of its capture and of its files: they were kept       *)
(* before it was written, and the capture is one at the row's settings.    *)
LEMMA RecordTrue ==
  ASSUME PlanInv, RadioInv, FilesInv, pc = "note", steps # <<>>, NEW i
  PROVE  RowTrue(Record, i, Step.label)
<1>1. /\ Record.got = shot /\ Record.u = Step.u /\ Record.in = InFile /\ Record.lo = tuned
      /\ Record.out = File("out") /\ Record.tx = Step.tx
  BY DEF Record
<1>2. Claimed(Record) = Claimed(Step)
  BY DEF Claimed, Record
<1>3. TrueOf(Step, tuned, shot)
  BY DEF RadioInv
<1>4. TrueOf(Record, Record.lo, Record.got)
  BY <1>1, <1>2, <1>3 DEF TrueOf
<1>5. File("out") = <<Step.name, Step.label, it, "out">>
  BY DEF File
<1>6. File("out") \in DOMAIN files /\ files[File("out")].holds = shot
  BY DEF FilesInv
<1>7. kind \in {"replay", "command", "linearize", "survey"}
  BY DEF PlanInv, InTry
<1>8. \/ InFile \in {<<>>, <<Step.name, Step.label, it, "in">>}
      \/ Step.label = "conditions" /\ \E stem : InFile = <<"signal", stem>>
  <2>1. ASSUME kind = "survey" PROVE Step.label = "conditions"
    <3>1. steps \in Seq(Steps) /\ SurveyRowsOK(steps)
      BY <2>1 DEF PlanInv, PlanOK, InTry
    <3> QED BY <3>1, TailFacts DEF SurveyRowsOK, Step
  <2> QED BY <2>1 DEF InFile, File
<1>9. ASSUME InFile # <<>> PROVE InFile \in DOMAIN files /\ files[InFile].holds = Step.u
  <2>1. InKept
    BY <1>7, <1>9 DEF InFile, InKept
  <2> QED BY <2>1 DEF FilesInv, InTry
<1>10. Record.out = <<Record.out[1], Step.label, Record.out[3], "out">>
       /\ Record.out[1] = Step.name /\ Record.out[3] = it
  BY <1>1, <1>5
<1>11. Kept(Record.out, i, Record.got)
  BY <1>1, <1>6 DEF Kept
<1>12. Record.in # <<>> => Kept(Record.in, i, Record.u)
  BY <1>1, <1>9 DEF Kept
<1>13. \/ Record.in \in {<<>>, <<Record.out[1], Step.label, Record.out[3], "in">>}
       \/ Step.label = "conditions" /\ \E stem : Record.in = <<"signal", stem>>
  BY <1>1, <1>8, <1>10
<1> QED BY <1>4, <1>10, <1>11, <1>12, <1>13 DEF RowTrue

LEMMA LogNoted ==
  ASSUME PlanInv, RadioInv, FilesInv, LogInv, pc = "note", Noted, UNCHANGED files
  PROVE  LogInv'
<1>1. steps # <<>>
  BY DEF PlanInv, InTry
<1>2. PICK r, k : r = Record /\ k = Step.label
  OBVIOUS
<1>3. k \in DOMAIN log /\ \A i : RowTrue(r, i, k)
  BY <1>1, <1>2, RecordTrue, StepFacts DEF InTry
<1>4. DOMAIN log' = DOMAIN log /\ log'[k] = Append(log[k], r)
      /\ \A l \in DOMAIN log : l # k => log'[l] = log[l]
  BY <1>2, <1>3 DEF Noted
<1>5. ASSUME NEW l, NEW e, NEW i, RowTrue(e, i, l) PROVE RowTrue(e, i, l)'
  BY <1>5 DEF RowTrue, Kept, TrueOf, Claimed
<1>6. /\ log'[k] \in Seq(Items(log'[k])) /\ Len(log[k]) \in Nat
      /\ Len(log'[k]) = Len(log[k]) + 1
      /\ \A i \in 1 .. Len(log[k]) : log'[k][i] = log[k][i]
      /\ log'[k][Len(log[k]) + 1] = r
  BY <1>3, <1>4, AppendItems DEF LogInv
<1>7. ASSUME NEW l \in DOMAIN log
      PROVE  /\ log'[l] \in Seq(Items(log'[l]))
             /\ \A i \in 1 .. Len(log'[l]) : RowTrue(log[l][i], i, l)'
  <2>1. CASE l = k
    <3>1. ASSUME NEW i \in 1 .. Len(log'[k]) PROVE RowTrue(log[k][i], i, k)'
      <4>1. i \in 1 .. Len(log[k]) \/ i = Len(log[k]) + 1
        BY <1>6
      <4>2. PICK e : e = log'[k][i]
        OBVIOUS
      <4>3. RowTrue(e, i, k)
        BY <1>3, <1>6, <4>1, <4>2 DEF LogInv
      <4>4. RowTrue(e, i, k)'
        BY <1>5, <4>3
      <4> QED BY <4>2, <4>4
    <3> QED BY <1>6, <2>1, <3>1
  <2>2. CASE l # k
    <3>1. log'[l] = log[l] /\ log[l] \in Seq(Items(log[l]))
          /\ \A i \in 1 .. Len(log[l]) : RowTrue(log[l][i], i, l)
      BY <1>4, <2>2 DEF LogInv
    <3>2. \A i \in 1 .. Len(log[l]) : RowTrue(log[l][i], i, l)'
      BY <1>5, <3>1
    <3> QED BY <3>1, <3>2
  <2> QED BY <2>1, <2>2
<1> QED BY <1>4, <1>7 DEF LogInv

(* A file of the row under way carries its label. *)
LEMMA LogRowFile ==
  ASSUME LogInv, log' = log, NEW w, NEW c, files' = Written(File(w), c)
  PROVE  LogInv'
<1>1. PICK m, k, j, f : k = Step.label /\ f = File(w) /\ f = <<m, k, j, w>>
  BY DEF File
<1>2. ASSUME NEW l \in DOMAIN log, NEW i \in 1 .. Len(log[l]),
             log[l][i].out = f \/ log[l][i].in = f
      PROVE  l = k
  <2>1. PICK e, n, t : e = log[l][i] /\ e.out = <<n, l, t, "out">> /\ RowTrue(e, i, l)
    BY DEF LogInv, RowTrue
  <2>2. e.in # <<>> => e.in = <<n, l, t, "in">> \/ \E stem : e.in = <<"signal", stem>>
    BY <2>1 DEF RowTrue
  <2>3. CASE e.out = f
    BY <1>1, <2>1, <2>3
  <2>4. CASE e.in = f
    <3>1. <<n, l, t, "in">> = <<m, k, j, w>>
      BY <1>1, <2>2, <2>4, Pairs
    <3> QED BY ONLY <3>1
  <2> QED BY <1>2, <2>1, <2>3, <2>4
<1> QED BY <1>1, <1>2, LogWritten

(* A survey's file of a signal: only its own CSV names one.                *)
LEMMA LogSignalFile ==
  ASSUME LogInv, log' = log, NEW stem, NEW c, files' = Written(<<"signal", stem>>, c),
         Step.label = "conditions"
  PROVE  LogInv'
<1>1. PICK f : f = <<"signal", stem>>
  OBVIOUS
<1>2. ASSUME NEW l \in DOMAIN log, NEW i \in 1 .. Len(log[l]),
             log[l][i].out = f \/ log[l][i].in = f
      PROVE  l = Step.label
  <2>1. PICK e, n, t : e = log[l][i] /\ e.out = <<n, l, t, "out">> /\ RowTrue(e, i, l)
    BY DEF LogInv, RowTrue
  <2>2. e.out # f
    BY <1>1, <2>1, Pairs
  <2>3. e.in \in {<<>>, <<n, l, t, "in">>} \/ l = "conditions"
    BY <2>1 DEF RowTrue
  <2> QED BY <1>1, <1>2, <2>1, <2>2, <2>3, Pairs
<1> QED BY <1>1, <1>2, LogWritten

LEMMA LogOpened ==
  ASSUME LogInv, Open PROVE LogInv'
<1>1. PICK begun : log' = [l \in begun \cup DOMAIN log |-> IF l \in begun THEN <<>> ELSE log[l]]
  BY DEF Open
<1>2. UNCHANGED files
  BY DEF Open
<1>3. ASSUME NEW l, NEW e, NEW i, RowTrue(e, i, l) PROVE RowTrue(e, i, l)'
  BY <1>2, <1>3 DEF RowTrue, Kept, TrueOf, Claimed
<1>4. ASSUME NEW l \in DOMAIN log'
      PROVE  /\ log'[l] \in Seq(Items(log'[l]))
             /\ \A i \in 1 .. Len(log'[l]) : RowTrue(log[l][i], i, l)'
  <2>1. CASE l \in begun
    <3>1. log'[l] = <<>>
      BY <1>1, <2>1
    <3> QED BY <3>1, EmptyItems
  <2>2. CASE l \notin begun
    <3>1. l \in DOMAIN log /\ log'[l] = log[l] /\ log[l] \in Seq(Items(log[l]))
          /\ \A i \in 1 .. Len(log[l]) : RowTrue(log[l][i], i, l)
      BY <1>1, <1>4, <2>2 DEF LogInv
    <3> QED BY <1>3, <3>1
  <2> QED BY <2>1, <2>2
<1> QED BY <1>4 DEF LogInv

LEMMA LogNext ==
  ASSUME PlanInv, RadioInv, FilesInv, LogInv, [Next]_vars PROVE LogInv'
<1>1. CASE BeginReplay \/ BeginCommand \/ BeginLinearize \/ BeginSurvey \/ BeginSweep \/ FirstLo
  <2>1. UNCHANGED folderVars
    BY <1>1 DEF MayBegin, BeginReplay, BeginCommand, BeginLinearize, BeginSurvey, BeginSweep, Begin, FirstLo
  <2> QED BY <2>1, LogUnchanged
<1>2. CASE Open
  BY <1>2, LogOpened
<1>3. CASE TakeSource
  <2>1. log' = log /\ (files' = Written(File("in"), Step.u) \/ files' = files)
    BY <1>3 DEF TakeSource
  <2> QED BY <2>1, LogRowFile, LogUnchanged DEF folderVars
<1>4. CASE KeepInput
  BY <1>4, LogRowFile DEF KeepInput
<1>5. CASE SaveOutput
  BY <1>5, LogRowFile DEF SaveOutput
<1>6. CASE SaveSignal
  <2>1. /\ pc = "signal" /\ log' = log
        /\ files' = Written(InFile, Step.u) \/ files' = files
    BY <1>6 DEF SaveSignal
  <2>2. kind = "survey" /\ steps # <<>> /\ steps \in Seq(Steps) /\ SurveyRowsOK(steps)
    BY <2>1 DEF PlanInv, PlanOK, InTry
  <2>3. InFile = <<"signal", StemOf[Step.u]>> /\ Step.label = "conditions"
    BY <2>2, TailFacts DEF InFile, SurveyRowsOK, Step
  <2> QED BY <2>1, <2>3, LogSignalFile, LogUnchanged DEF folderVars
<1>7. CASE AppendRow \/ AppendIteration \/ AppendCondition
  <2>1. pc = "note" /\ Noted /\ UNCHANGED files
    BY <1>7 DEF AppendRow, AppendIteration, AppendCondition
  <2> QED BY <2>1, LogNoted
<1>8. CASE DisableTx \/ RetuneLo \/ SetTxAtten \/ SetRxGain \/ TransmitStored \/ CapturePoint
           \/ StartAtten \/ FindLock \/ LevelOrx
  <2>1. UNCHANGED folderVars
    BY <1>8 DEF DisableTx, RetuneLo, SetTxAtten, SetRxGain, TransmitStored, CapturePoint,
                StartAtten, FindLock, LevelOrx
  <2> QED BY <2>1, LogUnchanged
<1>9. CASE ApplyLos \/ ApplyBands \/ TransmitPoint \/ LevelBands \/ MeasureBands \/ EndSweep
           \/ Fail \/ Finish \/ Kill \/ Done \/ UNCHANGED vars
  <2>1. UNCHANGED folderVars
    BY <1>9 DEF ApplyLos, ApplyBands, TransmitPoint, LevelBands, MeasureBands, EndSweep,
                Fail, Finish, Kill, Done, vars
  <2> QED BY <2>1, LogUnchanged
<1> QED
  BY <1>1, <1>2, <1>3, <1>4, <1>5, <1>6, <1>7, <1>8, <1>9 DEF Next

-----------------------------------------------------------------------------
LEMMA RowsInvariant == Spec => [](PlanInv /\ ShapeInv /\ RadioInv /\ FilesInv /\ LogInv)
<1> DEFINE IInv == PlanInv /\ ShapeInv /\ RadioInv /\ FilesInv /\ LogInv
<1>1. Init => IInv
  BY PlanInit, ShapeInit, RadioInit, FilesInit, LogInit
<1>2. IInv /\ [Next]_vars => IInv'
  BY PlanNext, ShapeNext, RadioNext, FilesNext, LogNext
<1> QED BY <1>1, <1>2, PTL DEF Spec

(* Every row of every CSV is true of its capture and of its files: the     *)
(* capture was read from the row's own ORx alone, at the frequency,        *)
(* attenuation and gain the row says, with the waveform it names on its    *)
(* TX; and its input and output files hold what it was measured with,      *)
(* until they are written for a later row, whatever names the plan gives   *)
(* its files, whatever jobs wrote into the folder, and wherever any of     *)
(* them failed or was killed (replay_row, capture_point, linearize, the    *)
(* survey and ConditionLog).  Nothing is assumed of the rows a job is      *)
(* given: where a job's last LO is not the row's, the row's frequency is   *)
(* left open, as the code leaves it.                                       *)
THEOREM RowsAreTrue == Spec => []RowsTellTheTruth
<1>1. LogInv => RowsTellTheTruth
  <2> SUFFICES ASSUME LogInv, NEW l \in DOMAIN log, NEW i \in 1 .. Len(log[l]), NEW e,
                      e = log[l][i]
               PROVE  /\ e.got = IF e.lo = LoOf[e.tx] THEN Claimed(e)
                                 ELSE [Claimed(e) EXCEPT !.freq = e.got.freq]
                      /\ Kept(e.out, i, e.got)
                      /\ e.in # <<>> => Kept(e.in, i, e.u)
    BY DEF RowsTellTheTruth, Kept
  <2> QED BY DEF LogInv, RowTrue, TrueOf
<1> QED BY <1>1, RowsInvariant, PTL

-----------------------------------------------------------------------------
(* Induction over the naturals, for a set of them: of the intervals 0 .. m *)
(* with m outside the set one is the smallest, as subsets of a finite set  *)
(* are well founded.                                                       *)

LEMMA Induct ==
  ASSUME NEW S, 0 \in S, \A n \in Nat : n \in S => n + 1 \in S
  PROVE  Nat \subseteq S
<1> SUFFICES ASSUME NEW z \in Nat, z \notin S PROVE FALSE
  OBVIOUS
<1> DEFINE R == StrictSubsetOrdering(0 .. z)
           T == {0 .. m : m \in (0 .. z) \ S}
<1>1. IsWellFoundedOn(R, FiniteSubsetsOf(0 .. z))
  BY FS_StrictSubsetOrderingWellFounded
<1>2. IsFiniteSet(0 .. z)
  BY FS_Interval
<1>3. FiniteSubsetsOf(0 .. z) = SUBSET (0 .. z)
  BY <1>2, FS_FiniteSubsetsOfFinite
<1>4. T \subseteq SUBSET (0 .. z) /\ T # {}
  OBVIOUS
<1> HIDE DEF T, R
<1>5. PICK U \in T : \A V \in T : ~ (<<V, U>> \in R)
  BY <1>1, <1>3, <1>4, WFMin
<1>6. PICK x \in (0 .. z) \ S : U = 0 .. x
  BY <1>5 DEF T
<1>7. x # 0 /\ x - 1 \in (0 .. z) \ S
  BY <1>6
<1>8. 0 .. x - 1 \in T
  BY <1>7 DEF T
<1>9. 0 .. x - 1 \subseteq 0 .. x /\ 0 .. x - 1 # 0 .. x /\ 0 .. x \in SUBSET (0 .. z)
  BY <1>6
<1> QED BY <1>5, <1>6, <1>8, <1>9 DEF R, StrictSubsetOrdering

(* The same up to n. *)
LEMMA InductTo ==
  ASSUME NEW n \in Nat, NEW S, 0 \in S, \A i \in 0 .. n - 1 : i \in S => i + 1 \in S
  PROVE  0 .. n \subseteq S
<1> DEFINE T == {m \in Nat : m <= n => m \in S}
<1>1. 0 \in T /\ \A m \in Nat : m \in T => m + 1 \in T
  OBVIOUS
<1>2. Nat \subseteq T
  <2> HIDE DEF T
  <2> QED BY <1>1, Induct
<1> QED BY <1>2

(* A value that starts in S and stays in it is built up step by step: the  *)
(* recursive functions of the model exist.                                 *)
Moves(G, n, S) == n \in Nat /\ G \in [1 .. n -> [S -> S]]
Path(f, b, G, n, S) ==
  f \in [0 .. n -> S] /\ f[0] = b /\ \A i \in 1 .. n : f[i] = G[i][f[i - 1]]

LEMMA StepByStep ==
  \A S, b, n, G : b \in S /\ Moves(G, n, S) => \E f : Path(f, b, G, n, S)
<1> SUFFICES ASSUME NEW S, NEW b \in S, NEW n \in Nat, NEW G \in [1 .. n -> [S -> S]]
             PROVE  \E f \in [0 .. n -> S] :
                      f[0] = b /\ \A i \in 1 .. n : f[i] = G[i][f[i - 1]]
  BY DEF Moves, Path
<1> DEFINE Built(m) == \E f \in [0 .. m -> S] :
                        f[0] = b /\ \A i \in 1 .. m : f[i] = G[i][f[i - 1]]
           T == {m \in 0 .. n : Built(m)}
<1>1. 0 \in T
  <2>1. PICK f : f = [i \in 0 .. 0 |-> b]
    OBVIOUS
  <2>2. f \in [0 .. 0 -> S] /\ f[0] = b /\ 1 .. 0 = {}
    BY <2>1
  <2>3. Built(0)
    BY <2>2
  <2> QED BY <2>3
<1>2. ASSUME NEW m \in 0 .. n - 1, m \in T PROVE m + 1 \in T
  <2> SUFFICES Built(m + 1)
    OBVIOUS
  <2>1. PICK f \in [0 .. m -> S] : f[0] = b /\ \A i \in 1 .. m : f[i] = G[i][f[i - 1]]
    BY <1>2
  <2>2. G[m + 1] \in [S -> S] /\ f[m] \in S
    OBVIOUS
  <2> DEFINE h == [i \in 0 .. m + 1 |-> IF i <= m THEN f[i] ELSE G[m + 1][f[m]]]
  <2>3. h \in [0 .. m + 1 -> S]
    BY <2>2
  <2>4. h[0] = b /\ h[m + 1] = G[m + 1][h[m]]
    BY <2>1
  <2>5. \A i \in 1 .. m : h[i] = f[i] /\ h[i - 1] = f[i - 1]
    OBVIOUS
  <2> HIDE DEF h
  <2>6. \A i \in 1 .. m + 1 : h[i] = G[i][h[i - 1]]
    <3> TAKE i \in 1 .. m + 1
    <3>1. CASE i = m + 1
      BY <2>4, <3>1
    <3>2. CASE i \in 1 .. m
      BY <2>1, <2>5, <3>2
    <3> QED BY <3>1, <3>2
  <2> QED BY <2>3, <2>4, <2>6
<1>3. n \in T
  <2>1. 0 .. n \subseteq T
    <3> HIDE DEF T
    <3> QED BY <1>1, <1>2, InductTo
  <2> QED BY <2>1
<1> QED BY <1>3

-----------------------------------------------------------------------------
(* Products and choices: sweep_plan's np_product and itertools.product.    *)

(* The recursive functions behind ProductOf and Combos.                    *)
Products(sizes) ==
  CHOOSE f : f = [n \in 0 .. Len(sizes) |-> IF n = 0 THEN 1 ELSE f[n - 1] * sizes[n]]

ComboSteps(sizes) ==
  CHOOSE f : f = [n \in 0 .. Len(sizes) |->
                    IF n = 0 THEN <<Nothing>> ELSE Extended(f[n - 1], sizes[n])]

(* np_product is defined for every list of sizes.                          *)
LEMMA ProductsFacts ==
  ASSUME NEW sizes \in Seq(Nat)
  PROVE  /\ Products(sizes) \in [0 .. Len(sizes) -> Nat]
         /\ Products(sizes)[0] = 1
         /\ \A i \in 1 .. Len(sizes) : Products(sizes)[i] = Products(sizes)[i - 1] * sizes[i]
         /\ ProductOf(sizes) = Products(sizes)[Len(sizes)]
<1> DEFINE Right(f) == f = [i \in 0 .. Len(sizes) |-> IF i = 0 THEN 1 ELSE f[i - 1] * sizes[i]]
<1>1. PICK n \in Nat : n = Len(sizes) /\ \A i \in 1 .. n : sizes[i] \in Nat
  OBVIOUS
<1>2. PICK f \in [0 .. n -> Nat] : f[0] = 1 /\ \A i \in 1 .. n : f[i] = f[i - 1] * sizes[i]
  <2> DEFINE G == [i \in 1 .. n |-> [x \in Nat |-> x * sizes[i]]]
  <2>1. PICK N, b : N = Nat /\ b = 1
    OBVIOUS
  <2>2. G \in [1 .. n -> [N -> N]] /\ b \in N
    BY <1>1, <2>1
  <2>3. PICK f \in [0 .. n -> N] : f[0] = b /\ \A i \in 1 .. n : f[i] = G[i][f[i - 1]]
    <3> HIDE DEF G
    <3>1. b \in N /\ Moves(G, n, N)
      BY <1>1, <2>2 DEF Moves
    <3>2. PICK f : Path(f, b, G, n, N)
      BY <3>1, StepByStep, Zenon
    <3> QED BY <3>2 DEF Path
  <2>4. ASSUME NEW i \in 1 .. n PROVE f[i] = f[i - 1] * sizes[i]
    <3>1. f[i - 1] \in Nat /\ G[i] = [x \in Nat |-> x * sizes[i]]
      BY <2>1
    <3>2. f[i] = G[i][f[i - 1]]
      BY <2>3
    <3> HIDE DEF G
    <3> QED BY <3>1, <3>2
  <2> QED BY <2>1, <2>3, <2>4
<1>5. Right(f)
  BY <1>1, <1>2
<1>6. PICK p : p = Products(sizes) /\ Right(p)
  BY <1>5 DEF Products
<1>7. /\ p[0] = 1 /\ p = [i \in 0 .. n |-> p[i]]
      /\ \A i \in 1 .. n : p[i] = p[i - 1] * sizes[i]
  <2>1. p = [i \in 0 .. n |-> IF i = 0 THEN 1 ELSE p[i - 1] * sizes[i]]
    BY <1>1, <1>6
  <2>2. ASSUME NEW i \in 0 .. n PROVE p[i] = IF i = 0 THEN 1 ELSE p[i - 1] * sizes[i]
    BY <2>1, Zenon
  <2>3. 0 \in 0 .. n /\ \A i \in 1 .. n : i \in 0 .. n /\ i # 0
    BY <1>1
  <2> QED BY <2>1, <2>2, <2>3, Zenon
<1>8. 0 .. n \subseteq {i \in 0 .. n : p[i] \in Nat}
  <2> DEFINE S == {i \in 0 .. n : p[i] \in Nat}
  <2>1. ASSUME NEW i \in 0 .. n - 1, i \in S PROVE i + 1 \in S
    <3>1. i + 1 \in 1 .. n /\ p[i] \in Nat /\ sizes[i + 1] \in Nat
      BY <1>1, <2>1
    <3>2. p[i + 1] = p[(i + 1) - 1] * sizes[i + 1]
      BY <1>7, <3>1, Zenon
    <3>3. (i + 1) - 1 = i
      OBVIOUS
    <3> QED BY <3>1, <3>2, <3>3
  <2>2. 0 \in S
    BY <1>7
  <2> HIDE DEF S
  <2> QED BY <2>1, <2>2, InductTo DEF S
<1>9. p \in [0 .. n -> Nat]
  BY <1>7, <1>8
<1> QED BY <1>1, <1>6, <1>7, <1>9 DEF ProductOf, Products

(* The choices of one value of each of k lists, by the lists' sizes.       *)
Picks(sizes, k) == {g \in [1 .. k -> Nat] : \A i \in 1 .. k : g[i] \in 1 .. sizes[i]}

(* A function from 1 .. n is a sequence.                                    *)
LEMMA ListOf ==
  ASSUME NEW S, NEW n, n \in Nat, NEW s, s \in [1 .. n -> S]
  PROVE  s \in Seq(S) /\ Len(s) = n
  OBVIOUS

(* f is g and then j.                                                      *)
Longer(f, g, j, k) == f \in [1 .. k + 1 -> Nat] /\ f[k + 1] = j /\ \A a \in 1 .. k : f[a] = g[a]
Choice(g, k) == k \in Nat /\ g \in [1 .. k -> Nat]

LEMMA AppendChoice ==
  \A g, j, k : Choice(g, k) /\ j \in Nat =>
    Longer(Append(g, j), g, j, k) /\ g \in Seq(Nat) /\ Append(g, j) \in Seq(Nat)
<1> SUFFICES ASSUME NEW k \in Nat, NEW g \in [1 .. k -> Nat], NEW j \in Nat
             PROVE  Longer(Append(g, j), g, j, k) /\ g \in Seq(Nat) /\ Append(g, j) \in Seq(Nat)
  BY DEF Choice
<1>1. g \in Seq(Nat) /\ Len(g) = k
  OBVIOUS
<1>2. ASSUME NEW s \in Seq(Nat)
      PROVE  /\ Append(s, j) \in Seq(Nat) /\ Len(Append(s, j)) = Len(s) + 1
             /\ \A a \in 1 .. Len(s) : Append(s, j)[a] = s[a]
             /\ Append(s, j)[Len(s) + 1] = j
             /\ s \in [1 .. Len(s) -> Nat]
  OBVIOUS
<1>3. /\ Append(g, j) \in Seq(Nat) /\ Len(Append(g, j)) = k + 1
      /\ \A a \in 1 .. k : Append(g, j)[a] = g[a]
      /\ Append(g, j)[k + 1] = j
  BY <1>1, <1>2
<1>4. Append(g, j) \in [1 .. k + 1 -> Nat]
  <2>1. Append(g, j) \in [1 .. Len(Append(g, j)) -> Nat]
    BY <1>2, <1>3
  <2> QED BY <1>3, <2>1
<1> QED BY <1>1, <1>3, <1>4 DEF Longer

(* Row i and column j of n rows of m, numbered row by row.                 *)
Row(k, m) == ((k - 1) \div m) + 1
Col(k, m) == ((k - 1) % m) + 1

LEMMA RowAndColumn ==
  ASSUME NEW n \in Nat, NEW m \in Nat, NEW p \in Nat, p = n * m
  PROVE  /\ \A k \in 1 .. p : /\ Row(k, m) \in 1 .. n
                              /\ Col(k, m) \in 1 .. m
         /\ \A i \in 1 .. n, j \in 1 .. m :
              \E k \in 1 .. p : Row(k, m) = i /\ Col(k, m) = j
<1>2. ASSUME NEW k \in 1 .. p
      PROVE  Row(k, m) \in 1 .. n /\ Col(k, m) \in 1 .. m
  <2>1. m \in Nat \ {0} /\ k - 1 \in Nat /\ k - 1 < n * m
    <3>1. m = 0 => n * m = 0
      OBVIOUS
    <3> QED BY <3>1
  <2>2. (k - 1) \div m < n
    BY <2>1, DivLess
  <2>3. PICK q \in Nat, r \in 0 .. m - 1 : q = (k - 1) \div m /\ r = (k - 1) % m
    BY <2>1, DivMod
  <2> QED BY <2>2, <2>3 DEF Row, Col
<1>3. ASSUME NEW i \in 1 .. n, NEW j \in 1 .. m
      PROVE  \E k \in 1 .. p : Row(k, m) = i /\ Col(k, m) = j
  <2>1. PICK a \in Nat, b \in Nat : i = a + 1 /\ j = b + 1 /\ a < n /\ b < m
    OBVIOUS
  <2>2. PICK k \in Nat \ {0} : k = m * a + b + 1
    OBVIOUS
  <2>3. PICK q \in Nat, r \in 0 .. m - 1 :
          q = (k - 1) \div m /\ r = (k - 1) % m /\ k - 1 = m * q + r
    <3>1. k - 1 \in Nat /\ m \in Nat \ {0}
      OBVIOUS
    <3> QED BY <3>1, DivMod
  <2>4. m * q + r = m * a + b
    BY <2>2, <2>3
  <2>5. q = a
    <3>1. ASSUME NEW d \in Nat, a = q + 1 + d PROVE FALSE
      <4>1. m * a = m * q + m + m * d /\ m * d >= 0
        BY <3>1
      <4> QED BY <2>1, <2>4, <4>1
    <3>2. ASSUME NEW d \in Nat, q = a + 1 + d PROVE FALSE
      <4>1. m * q = m * a + m + m * d /\ m * d >= 0
        BY <3>2
      <4> QED BY <2>1, <2>4, <4>1
    <3>3. a = q \/ a - q - 1 \in Nat \/ q - a - 1 \in Nat
      OBVIOUS
    <3> QED BY <3>1, <3>2, <3>3
  <2>6. r = b
    BY <2>4, <2>5
  <2>7. k <= p
    <3>1. PICK d \in Nat : n = a + 1 + d
      <4>1. n - a - 1 \in Nat /\ n = a + 1 + (n - a - 1)
        BY <2>1
      <4> QED BY <4>1
    <3>2. n * m = m * a + m + m * d /\ m * d >= 0
      BY <3>1
    <3> QED BY <2>1, <2>2, <3>2
  <2>8. Row(k, m) = i /\ Col(k, m) = j /\ k \in 1 .. p
    BY <2>1, <2>3, <2>5, <2>6, <2>7 DEF Row, Col
  <2> QED BY <2>8
<1> QED BY <1>2, <1>3

(* One more list: every choice so far, followed by every index of it.      *)
LEMMA ExtendedFacts ==
  ASSUME NEW c \in Seq(Seq(Nat)), NEW m \in Nat
  PROVE  /\ Extended(c, m) \in Seq(Seq(Nat))
         /\ Len(Extended(c, m)) = Len(c) * m
         /\ \A k \in 1 .. Len(Extended(c, m)) : \E i \in 1 .. Len(c), j \in 1 .. m :
              Extended(c, m)[k] = Append(c[i], j)
         /\ \A i \in 1 .. Len(c), j \in 1 .. m : \E k \in 1 .. Len(Extended(c, m)) :
              Extended(c, m)[k] = Append(c[i], j)
<1> DEFINE n == Len(c)
           p == Len(c) * m
           e == Extended(c, m)
<1>1. n \in Nat /\ \A i \in 1 .. n : c[i] \in Seq(Nat)
  OBVIOUS
<1>2. p \in Nat /\ p = n * m
  BY <1>1
<1>3. e = [k \in 1 .. p |-> Append(c[Row(k, m)], Col(k, m))]
  BY DEF Extended, Row, Col
<1> HIDE DEF n, p, e
<1>4. \A k \in 1 .. p : Row(k, m) \in 1 .. n /\ Col(k, m) \in 1 .. m
  BY <1>1, <1>2, RowAndColumn, Zenon
<1>5. \A i \in 1 .. n, j \in 1 .. m : \E k \in 1 .. p : Row(k, m) = i /\ Col(k, m) = j
  BY <1>1, <1>2, RowAndColumn, Zenon
<1>6. \A k \in 1 .. p : Append(c[Row(k, m)], Col(k, m)) \in Seq(Nat)
  BY <1>1, <1>4
<1>7. e \in [1 .. p -> Seq(Nat)] /\ \A k \in 1 .. p : e[k] = Append(c[Row(k, m)], Col(k, m))
  BY <1>3, <1>6
<1>8. e \in Seq(Seq(Nat)) /\ Len(e) = p
  BY <1>2, <1>7, ListOf, Zenon
<1>9. ASSUME NEW k \in 1 .. Len(e) PROVE \E i \in 1 .. n, j \in 1 .. m : e[k] = Append(c[i], j)
  BY <1>4, <1>7, <1>8
<1>10. ASSUME NEW i \in 1 .. n, NEW j \in 1 .. m
       PROVE  \E k \in 1 .. Len(e) : e[k] = Append(c[i], j)
  <2>1. PICK k \in 1 .. p : Row(k, m) = i /\ Col(k, m) = j
    BY <1>5, Zenon
  <2> QED BY <1>7, <1>8, <2>1
<1> QED BY <1>8, <1>9, <1>10, Zenon DEF e, n, p

(* Every choice of k + 1 lists is one of k lists, extended.                *)
LEMMA PicksExtended ==
  ASSUME NEW sizes \in Seq(Nat), NEW k \in Nat, NEW m \in Nat, m = sizes[k + 1],
         NEW c \in Seq(Seq(Nat)), Items(c) = Picks(sizes, k)
  PROVE  Items(Extended(c, m)) = Picks(sizes, k + 1)
<1> DEFINE e == Extended(c, m)
<1>1. /\ \A x \in 1 .. Len(e) : \E i \in 1 .. Len(c), j \in 1 .. m : e[x] = Append(c[i], j)
      /\ \A i \in 1 .. Len(c), j \in 1 .. m : \E x \in 1 .. Len(e) : e[x] = Append(c[i], j)
  BY ExtendedFacts, Zenon
<1>2. Items(e) = Items(Extended(c, m))
  OBVIOUS
<1> HIDE DEF e
<1>3. ASSUME NEW i \in 1 .. Len(c), NEW j \in 1 .. m
      PROVE  Append(c[i], j) \in Picks(sizes, k + 1)
  <2>1. c[i] \in Picks(sizes, k)
    BY DEF Items
  <2>2. PICK g \in [1 .. k -> Nat] : g = c[i] /\ \A a \in 1 .. k : g[a] \in 1 .. sizes[a]
    BY <2>1 DEF Picks
  <2>3. j \in Nat
    OBVIOUS
  <2>4. /\ Append(g, j) \in [1 .. k + 1 -> Nat] /\ Append(g, j)[k + 1] = j
        /\ \A a \in 1 .. k : Append(g, j)[a] = g[a]
    <3>1. Choice(g, k)
      BY DEF Choice
    <3>2. Longer(Append(g, j), g, j, k)
      BY <2>3, <3>1, AppendChoice, Zenon
    <3> QED BY <3>2 DEF Longer
  <2>5. \A a \in 1 .. k + 1 : a = k + 1 \/ a \in 1 .. k
    OBVIOUS
  <2>6. \A a \in 1 .. k + 1 : Append(g, j)[a] \in 1 .. sizes[a]
    BY <2>2, <2>4, <2>5, Zenon
  <2> QED BY <2>2, <2>4, <2>6, Zenon DEF Picks
<1>4. ASSUME NEW h \in Picks(sizes, k + 1)
      PROVE  \E i \in 1 .. Len(c), j \in 1 .. m : h = Append(c[i], j)
  <2>1. h \in [1 .. k + 1 -> Nat] /\ \A a \in 1 .. k + 1 : h[a] \in 1 .. sizes[a]
    BY DEF Picks
  <2>2. PICK g \in [1 .. k -> Nat] : \A a \in 1 .. k : g[a] = h[a]
    <3>1. [a \in 1 .. k |-> h[a]] \in [1 .. k -> Nat]
      BY <2>1
    <3> QED BY <3>1
  <2>3. PICK j \in 1 .. m : j = h[k + 1]
    BY <2>1
  <2>4. g \in Items(c)
    BY <2>1, <2>2 DEF Picks
  <2>5. PICK i \in 1 .. Len(c) : c[i] = g
    BY <2>4 DEF Items
  <2>6. /\ Append(g, j) \in [1 .. k + 1 -> Nat] /\ Append(g, j)[k + 1] = j
        /\ \A a \in 1 .. k : Append(g, j)[a] = g[a]
    <3>1. j \in Nat
      OBVIOUS
    <3>2. Choice(g, k)
      BY DEF Choice
    <3>3. Longer(Append(g, j), g, j, k)
      BY <3>1, <3>2, AppendChoice, Zenon
    <3> QED BY <3>3 DEF Longer
  <2>7. Append(g, j) = h
    <3>1. \A a \in 1 .. k + 1 : a = k + 1 \/ a \in 1 .. k
      OBVIOUS
    <3>2. \A a \in 1 .. k + 1 : Append(g, j)[a] = h[a]
      BY <2>2, <2>3, <2>6, <3>1, Zenon
    <3> QED BY <2>1, <2>6, <3>2
  <2> QED BY <2>5, <2>7, Zenon
<1>5. \A x \in 1 .. Len(e) : e[x] \in Picks(sizes, k + 1)
  BY <1>1, <1>3
<1>6. ASSUME NEW h \in Picks(sizes, k + 1) PROVE \E x \in 1 .. Len(e) : h = e[x]
  <2>1. PICK i \in 1 .. Len(c), j \in 1 .. m : h = Append(c[i], j)
    BY <1>4
  <2>2. PICK x \in 1 .. Len(e) : e[x] = Append(c[i], j)
    BY <1>1, Zenon
  <2> QED BY <2>1, <2>2
<1>7. Items(e) = Picks(sizes, k + 1)
  BY <1>5, <1>6 DEF Items
<1> QED BY <1>2, <1>7

(* itertools.product is defined for every list of sizes.                   *)
LEMMA CombosBuilt ==
  ASSUME NEW sizes \in Seq(Nat)
  PROVE  LET C == ComboSteps(sizes)
         IN  /\ C[0] = <<Nothing>>
             /\ \A i \in 1 .. Len(sizes) : C[i] = Extended(C[i - 1], sizes[i])
             /\ Combos(sizes) = C[Len(sizes)]
<1> DEFINE Right(f) == f = [i \in 0 .. Len(sizes) |->
                              IF i = 0 THEN <<Nothing>> ELSE Extended(f[i - 1], sizes[i])]
<1>1. PICK n \in Nat : n = Len(sizes) /\ \A i \in 1 .. n : sizes[i] \in Nat
  OBVIOUS
<1>2. PICK f : /\ f \in [0 .. n -> Seq(Seq(Nat))] /\ f[0] = <<Nothing>>
               /\ \A i \in 1 .. n : f[i] = Extended(f[i - 1], sizes[i])
  <2> DEFINE N == Seq(Seq(Nat))
             G == [i \in 1 .. n |-> [x \in N |-> Extended(x, sizes[i])]]
  <2>1. \A i \in 1 .. n : \A x \in N : Extended(x, sizes[i]) \in N
    BY <1>1, ExtendedFacts
  <2>2. <<Nothing>> \in N
    BY DEF Nothing
  <2> HIDE DEF N
  <2>3. G \in [1 .. n -> [N -> N]]
    BY <2>1
  <2> HIDE DEF G
  <2>4. Moves(G, n, N)
    BY <2>3 DEF Moves
  <2>5. PICK f : Path(f, <<Nothing>>, G, n, N)
    BY <2>2, <2>4, StepByStep, Zenon
  <2>6. /\ f \in [0 .. n -> N] /\ f[0] = <<Nothing>>
        /\ \A i \in 1 .. n : f[i] = G[i][f[i - 1]]
    BY <2>5 DEF Path
  <2>7. ASSUME NEW i \in 1 .. n PROVE f[i] = Extended(f[i - 1], sizes[i])
    <3>1. f[i - 1] \in N /\ G[i] = [x \in N |-> Extended(x, sizes[i])]
      BY <2>6 DEF G
    <3>2. f[i] = G[i][f[i - 1]]
      BY <2>6
    <3> QED BY <3>1, <3>2
  <2> QED BY <2>6, <2>7 DEF N
<1>3. Right(f)
  <2>1. \A i \in 0 .. n : i = 0 \/ i \in 1 .. n
    OBVIOUS
  <2>2. \A i \in 0 .. n : f[i] = IF i = 0 THEN <<Nothing>> ELSE Extended(f[i - 1], sizes[i])
    BY <1>2, <2>1, Zenon
  <2>3. f = [i \in 0 .. n |-> f[i]]
    BY <1>2
  <2>4. f = [i \in 0 .. n |-> IF i = 0 THEN <<Nothing>> ELSE Extended(f[i - 1], sizes[i])]
    BY <2>2, <2>3, Zenon
  <2> QED BY <1>1, <2>4, Zenon
<1>4. PICK p : p = ComboSteps(sizes) /\ Right(p)
  BY <1>3 DEF ComboSteps
<1>5. p[0] = <<Nothing>> /\ \A i \in 1 .. n : p[i] = Extended(p[i - 1], sizes[i])
  <2>1. p = [i \in 0 .. n |-> IF i = 0 THEN <<Nothing>> ELSE Extended(p[i - 1], sizes[i])]
    BY <1>1, <1>4
  <2>2. ASSUME NEW i \in 0 .. n
        PROVE  p[i] = IF i = 0 THEN <<Nothing>> ELSE Extended(p[i - 1], sizes[i])
    BY <2>1, Zenon
  <2>3. 0 \in 0 .. n /\ \A i \in 1 .. n : i \in 0 .. n /\ i # 0
    BY <1>1
  <2> QED BY <2>1, <2>2, <2>3, Zenon
<1> QED BY <1>1, <1>4, <1>5 DEF Combos, ComboSteps

(* itertools.product gives every choice, and as many as the sizes multiply *)
(* to.                                                                     *)
LEMMA CombosFacts ==
  ASSUME NEW sizes \in Seq(Nat)
  PROVE  /\ Combos(sizes) \in Seq(Seq(Nat))
         /\ Len(Combos(sizes)) = ProductOf(sizes)
         /\ Items(Combos(sizes)) = Picks(sizes, Len(sizes))
<1>1. PICK n \in Nat : n = Len(sizes) /\ \A i \in 1 .. n : sizes[i] \in Nat
  OBVIOUS
<1>2. PICK C : /\ C[0] = <<Nothing>> /\ Combos(sizes) = C[n]
               /\ \A i \in 1 .. n : C[i] = Extended(C[i - 1], sizes[i])
  BY <1>1, CombosBuilt
<1>3. PICK p : /\ p \in [0 .. n -> Nat] /\ p[0] = 1 /\ ProductOf(sizes) = p[n]
               /\ \A i \in 1 .. n : p[i] = p[i - 1] * sizes[i]
  BY <1>1, ProductsFacts
<1> DEFINE Full(i) == C[i] \in Seq(Seq(Nat)) /\ Len(C[i]) = p[i] /\ Items(C[i]) = Picks(sizes, i)
           S == {i \in 0 .. n : Full(i)}
<1>4. Full(0)
  <2>1. <<Nothing>> \in Seq(Seq(Nat)) /\ Len(<<Nothing>>) = 1 /\ <<Nothing>>[1] = Nothing
    BY DEF Nothing
  <2>2. Items(<<Nothing>>) = {Nothing}
    BY <2>1 DEF Items
  <2>3. [1 .. 0 -> Nat] = {Nothing}
    <3>1. \A g : g \in [1 .. 0 -> Nat] => g \in Seq(Nat) /\ Len(g) = 0
      BY ListOf, Zenon
    <3>2. \A g \in Seq(Nat) : Len(g) = 0 => g = <<>>
      OBVIOUS
    <3>3. <<>> \in [1 .. 0 -> Nat]
      OBVIOUS
    <3> QED BY <3>1, <3>2, <3>3 DEF Nothing
  <2>4. Picks(sizes, 0) = {Nothing}
    BY <2>3 DEF Picks
  <2> QED BY <1>2, <1>3, <2>1, <2>2, <2>4
<1>5. ASSUME NEW i \in 0 .. n - 1, Full(i) PROVE Full(i + 1)
  <2>1. PICK m \in Nat : m = sizes[i + 1]
    BY <1>1
  <2>2. i \in Nat /\ i + 1 \in 1 .. n /\ (i + 1) - 1 = i
    OBVIOUS
  <2>3. C[i + 1] = Extended(C[i], m)
    BY <1>2, <2>1, <2>2
  <2>4. p[i + 1] = p[i] * m
    BY <1>3, <2>1, <2>2
  <2>5. Extended(C[i], m) \in Seq(Seq(Nat)) /\ Len(Extended(C[i], m)) = Len(C[i]) * m
    BY <1>5, ExtendedFacts
  <2>6. Items(Extended(C[i], m)) = Picks(sizes, i + 1)
    BY <1>5, <2>1, <2>2, PicksExtended
  <2> QED BY <1>5, <2>3, <2>4, <2>5, <2>6
<1>6. 0 .. n \subseteq S
  <2>1. 0 \in S /\ \A i \in 0 .. n - 1 : i \in S => i + 1 \in S
    <3> HIDE DEF Full
    <3> QED BY <1>4, <1>5
  <2> HIDE DEF S
  <2> QED BY <2>1, InductTo
<1>7. Full(n)
  <2> HIDE DEF Full
  <2> QED BY <1>6
<1> QED BY <1>1, <1>2, <1>3, <1>7

-----------------------------------------------------------------------------
(* The points of a plan: _partial_points, _merge_partials and              *)
(* iter_sweep_points.                                                      *)

(* A block as _partial_points takes it: lists of values, no key twice, and *)
(* of one length when zipped.                                              *)
Block(block) ==
  /\ IsList(block.axes) /\ \A a \in 1 .. Len(block.axes) : IsList(block.axes[a].values)
  /\ \A a, c \in 1 .. Len(block.axes) : block.axes[a].key = block.axes[c].key => a = c
  /\ WellFormed(block)

(* The choices a block offers: one index for all its axes when zipped.     *)
BlockPicks(block) ==
  {h \in Picks(Sizes(block), Len(block.axes)) :
     block.mode = "zip" => \A a \in 1 .. Len(block.axes) : h[a] = h[1]}

LEMMA SizesFacts ==
  ASSUME NEW block, Block(block)
  PROVE  /\ Len(block.axes) \in Nat
         /\ Sizes(block) \in Seq(Nat) /\ Len(Sizes(block)) = Len(block.axes)
         /\ \A a \in 1 .. Len(block.axes) : Sizes(block)[a] = Len(block.axes[a].values)
<1>1. PICK axes, n : axes = block.axes /\ n = Len(axes) /\ n \in Nat
  <2>1. PICK axes, S : axes = block.axes /\ axes \in Seq(S)
    BY DEF Block, IsList
  <2> QED BY <2>1
<1>2. ASSUME NEW a \in 1 .. n PROVE Len(axes[a].values) \in Nat
  <2>1. PICK v, V : v = axes[a].values /\ v \in Seq(V)
    BY <1>1 DEF Block, IsList
  <2> QED BY <2>1
<1>3. Sizes(block) = [a \in 1 .. n |-> Len(axes[a].values)]
  BY <1>1 DEF Sizes
<1>4. Sizes(block) \in [1 .. n -> Nat]
  BY <1>2, <1>3
<1>5. Sizes(block) \in Seq(Nat) /\ Len(Sizes(block)) = n
  BY <1>1, <1>4, ListOf, Zenon
<1> QED BY <1>1, <1>3, <1>5

(* A block's partial points are its choices, as many as its size says.     *)
LEMMA BlockFacts ==
  ASSUME NEW block, Block(block)
  PROVE  /\ BlockChoices(block) \in Seq(Seq(Nat)) /\ BlockSize(block) \in Nat
         /\ Len(BlockChoices(block)) = BlockSize(block)
         /\ Items(BlockChoices(block)) = BlockPicks(block)
<1>1. PICK n, sizes : /\ n = Len(block.axes) /\ n \in Nat
                      /\ sizes = Sizes(block) /\ sizes \in Seq(Nat) /\ Len(sizes) = n
  BY SizesFacts
<1>2. CASE Zipped(block)
  <2>1. block.mode = "zip" /\ n # 0
    <3>1. PICK axes, S : axes = block.axes /\ axes \in Seq(S)
      BY DEF Block, IsList
    <3> QED BY <1>1, <1>2, <3>1 DEF Zipped
  <2>2. 1 \in 1 .. n
    BY <1>1, <2>1
  <2>3. PICK m \in Nat : m = sizes[1]
    BY <1>1, <2>2
  <2>4. \A a \in 1 .. n : sizes[a] = m
    BY <1>1, <2>1, <2>2, <2>3, Zenon DEF Block, WellFormed
  <2>5. PICK b : b = BlockChoices(block)
    OBVIOUS
  <2>6. BlockSize(block) = m /\ b = [i \in 1 .. m |-> [a \in 1 .. n |-> i]]
    BY <1>1, <1>2, <2>3, <2>5, Zenon DEF BlockSize, BlockChoices
  <2>7. \A i \in 1 .. m : [a \in 1 .. n |-> i] \in [1 .. n -> Nat]
    OBVIOUS
  <2>8. \A i \in 1 .. m : [a \in 1 .. n |-> i] \in Seq(Nat)
    BY <1>1, <2>7, ListOf, Zenon
  <2>9. b \in [1 .. m -> Seq(Nat)] /\ \A i \in 1 .. m : b[i] = [a \in 1 .. n |-> i]
    BY <2>6, <2>8
  <2>10. b \in Seq(Seq(Nat)) /\ Len(b) = m
    BY <2>9, ListOf, Zenon
  <2>11. ASSUME NEW i \in 1 .. m PROVE b[i] \in BlockPicks(block)
    <3>1. b[i] \in [1 .. n -> Nat] /\ \A a \in 1 .. n : b[i][a] = i
      BY <2>7, <2>9
    <3> QED BY <1>1, <2>2, <2>4, <3>1 DEF BlockPicks, Picks
  <2>12. ASSUME NEW h \in BlockPicks(block) PROVE \E i \in 1 .. m : h = b[i]
    <3>1. /\ h \in [1 .. n -> Nat] /\ h[1] \in 1 .. m
          /\ \A a \in 1 .. n : h[a] = h[1]
      BY <1>1, <2>1, <2>2, <2>4 DEF BlockPicks, Picks
    <3>2. h = [a \in 1 .. n |-> h[1]]
      BY <3>1
    <3> QED BY <2>9, <3>1, <3>2
  <2>13. Items(b) = BlockPicks(block)
    BY <2>10, <2>11, <2>12 DEF Items
  <2> QED BY <2>5, <2>6, <2>10, <2>13
<1>3. CASE ~Zipped(block)
  <2>1. /\ Combos(sizes) \in Seq(Seq(Nat)) /\ Len(Combos(sizes)) = ProductOf(sizes)
        /\ Items(Combos(sizes)) = Picks(sizes, n)
    BY <1>1, CombosFacts
  <2>2. ProductOf(sizes) \in Nat
    <3>1. Products(sizes) \in [0 .. n -> Nat] /\ ProductOf(sizes) = Products(sizes)[n]
      BY <1>1, ProductsFacts
    <3>2. n \in 0 .. n
      BY <1>1
    <3> QED BY <3>1, <3>2
  <2>3. BlockSize(block) = ProductOf(sizes) /\ BlockChoices(block) = Combos(sizes)
    BY <1>1, <1>3 DEF BlockSize, BlockChoices
  <2>4. BlockPicks(block) = Picks(sizes, n)
    <3>1. block.mode = "zip" => n = 0
      BY <1>1, <1>3 DEF Zipped
    <3>2. block.mode = "zip" => 1 .. n = {}
      BY <1>1, <3>1
    <3> QED BY <1>1, <3>2 DEF BlockPicks
  <2> QED BY <2>1, <2>2, <2>3, <2>4
<1> QED BY <1>2, <1>3

(* A partial point has the block's keys, at the values it chose.           *)
LEMMA PartialFacts ==
  ASSUME NEW block, Block(block), NEW i \in 1 .. BlockSize(block)
  PROVE  /\ Len(PartialPoints(block)) = BlockSize(block)
         /\ DOMAIN PartialPoints(block)[i] = Keys(block)
         /\ \A a \in 1 .. Len(block.axes) :
              PartialPoints(block)[i][block.axes[a].key]
                = block.axes[a].values[BlockChoices(block)[i][a]]
<1>1. PICK n \in Nat : n = Len(BlockChoices(block)) /\ n = BlockSize(block)
  BY BlockFacts
<1> DEFINE axis(key) == CHOOSE a \in 1 .. Len(block.axes) : block.axes[a].key = key
           h == BlockChoices(block)[i]
<1>2. PartialPoints(block) =
        [j \in 1 .. n |-> [key \in Keys(block) |->
           block.axes[axis(key)].values[BlockChoices(block)[j][axis(key)]]]]
  BY <1>1, Zenon DEF PartialPoints
<1>3. Len(PartialPoints(block)) = n
  BY <1>1, <1>2
<1>4. PartialPoints(block)[i] = [key \in Keys(block) |-> block.axes[axis(key)].values[h[axis(key)]]]
  BY <1>1, <1>2, Zenon
<1>5. ASSUME NEW a \in 1 .. Len(block.axes)
      PROVE  block.axes[a].key \in Keys(block) /\ axis(block.axes[a].key) = a
  BY DEF Block, Keys
<1>6. DOMAIN PartialPoints(block)[i] = Keys(block)
  BY <1>4
<1> HIDE DEF axis, h
<1>7. ASSUME NEW a \in 1 .. Len(block.axes)
      PROVE  PartialPoints(block)[i][block.axes[a].key] = block.axes[a].values[h[a]]
  BY <1>4, <1>5, Zenon
<1> QED BY <1>1, <1>3, <1>6, <1>7, Zenon DEF h

(* Blocks that name no setting twice.                                      *)
Plan(blocks) ==
  /\ IsList(blocks) /\ \A b \in 1 .. Len(blocks) : Block(blocks[b])
  /\ \A x, y \in Cells(blocks) : Axis(blocks, x).key = Axis(blocks, y).key => x = y

BlockSizes(blocks) == [b \in 1 .. Len(blocks) |-> BlockSize(blocks[b])]

(* The choice of a plan's axes that a choice of partial points is.         *)
IndexOf(blocks, c) == [x \in Cells(blocks) |-> BlockChoices(blocks[x[1]])[c[x[1]]][x[2]]]

LEMMA CellsAre ==
  ASSUME NEW blocks
  PROVE  \A b \in 1 .. Len(blocks) : \A a \in 1 .. Len(blocks[b].axes) :
           <<b, a>> \in Cells(blocks) /\ Axis(blocks, <<b, a>>) = blocks[b].axes[a]
<1>1. ASSUME NEW b \in 1 .. Len(blocks), NEW a \in 1 .. Len(blocks[b].axes)
      PROVE  <<b, a>> \in Cells(blocks)
  BY DEF Cells
<1> QED BY <1>1 DEF Axis

LEMMA CellAt ==
  ASSUME NEW blocks, NEW x \in Cells(blocks)
  PROVE  \E b \in 1 .. Len(blocks) : \E a \in 1 .. Len(blocks[b].axes) :
           x = <<b, a>> /\ Axis(blocks, x) = blocks[b].axes[a]
<1>1. PICK b \in 1 .. Len(blocks) : x \in {b} \X (1 .. Len(blocks[b].axes))
  BY DEF Cells
<1>2. PICK a \in 1 .. Len(blocks[b].axes) : x = <<b, a>>
  BY <1>1
<1>3. Axis(blocks, x) = blocks[b].axes[a]
  BY <1>2 DEF Axis
<1> QED BY <1>2, <1>3

LEMMA BlockSizesFacts ==
  ASSUME NEW blocks, Plan(blocks)
  PROVE  /\ Len(blocks) \in Nat
         /\ BlockSizes(blocks) \in Seq(Nat) /\ Len(BlockSizes(blocks)) = Len(blocks)
         /\ \A b \in 1 .. Len(blocks) : BlockSizes(blocks)[b] = BlockSize(blocks[b])
<1>1. Len(blocks) \in Nat
  <2>1. PICK S, bs : bs = blocks /\ bs \in Seq(S)
    BY DEF Plan, IsList
  <2> QED BY <2>1
<1>2. \A b \in 1 .. Len(blocks) : BlockSize(blocks[b]) \in Nat
  BY BlockFacts DEF Plan
<1>3. BlockSizes(blocks) \in [1 .. Len(blocks) -> Nat]
  BY <1>2 DEF BlockSizes
<1>4. BlockSizes(blocks) \in Seq(Nat) /\ Len(BlockSizes(blocks)) = Len(blocks)
  BY <1>1, <1>3, ListOf, Zenon
<1> QED BY <1>1, <1>4 DEF BlockSizes

LEMMA ChoiceOfBlock ==
  ASSUME NEW blocks, Plan(blocks), NEW c \in Picks(BlockSizes(blocks), Len(blocks)),
         NEW b \in 1 .. Len(blocks)
  PROVE  /\ c[b] \in 1 .. BlockSize(blocks[b])
         /\ BlockChoices(blocks[b])[c[b]] \in BlockPicks(blocks[b])
<1>1. c[b] \in 1 .. BlockSize(blocks[b])
  BY BlockSizesFacts DEF Picks
<1>2. /\ Len(BlockChoices(blocks[b])) = BlockSize(blocks[b])
      /\ Items(BlockChoices(blocks[b])) = BlockPicks(blocks[b])
  BY BlockFacts DEF Plan
<1>3. BlockChoices(blocks[b])[c[b]] \in Items(BlockChoices(blocks[b]))
  BY <1>1, <1>2 DEF Items
<1> QED BY <1>1, <1>2, <1>3

LEMMA IndexRange ==
  ASSUME NEW blocks, Plan(blocks), NEW c \in Picks(BlockSizes(blocks), Len(blocks)),
         NEW x \in Cells(blocks)
  PROVE  IndexOf(blocks, c)[x] \in 1 .. Len(Values(blocks, x))
<1>0. PICK b \in 1 .. Len(blocks) : \E a \in 1 .. Len(blocks[b].axes) :
         x = <<b, a>> /\ Axis(blocks, x) = blocks[b].axes[a]
  BY CellAt, Zenon
<1>1. PICK a \in 1 .. Len(blocks[b].axes) : x = <<b, a>> /\ Axis(blocks, x) = blocks[b].axes[a]
  BY <1>0
<1>2. PICK h : h = BlockChoices(blocks[b])[c[b]] /\ h \in BlockPicks(blocks[b])
  BY <1>1, ChoiceOfBlock
<1>3. IndexOf(blocks, c)[x] = h[a]
  BY <1>1, <1>2 DEF IndexOf
<1>4. Sizes(blocks[b])[a] = Len(Values(blocks, x))
  BY <1>1, SizesFacts DEF Plan, Values
<1>5. h[a] \in 1 .. Sizes(blocks[b])[a]
  BY <1>1, <1>2 DEF BlockPicks, Picks
<1> QED BY <1>3, <1>4, <1>5

(* A choice of partial points is a choice of the plan, and each choice of  *)
(* the plan is one (IndexCovers).                                          *)
LEMMA IndexInPlan ==
  ASSUME NEW blocks, Plan(blocks), NEW c \in Picks(BlockSizes(blocks), Len(blocks))
  PROVE  IndexOf(blocks, c) \in PlanChoices(blocks)
<1> DEFINE g == IndexOf(blocks, c)
<1>1. ASSUME NEW x \in Cells(blocks)
      PROVE  /\ g[x] \in 1 .. Len(Values(blocks, x))
             /\ blocks[x[1]].mode = "zip" => <<x[1], 1>> \in Cells(blocks) /\ g[x] = g[<<x[1], 1>>]
  <2>0. PICK b \in 1 .. Len(blocks) : \E a \in 1 .. Len(blocks[b].axes) :
           x = <<b, a>> /\ Axis(blocks, x) = blocks[b].axes[a]
    BY CellAt, Zenon
  <2>1. PICK a \in 1 .. Len(blocks[b].axes) : x = <<b, a>> /\ Axis(blocks, x) = blocks[b].axes[a]
    BY <2>0
  <2>2. PICK h : h = BlockChoices(blocks[b])[c[b]] /\ h \in BlockPicks(blocks[b])
    BY <2>1, ChoiceOfBlock
  <2>3. g[x] = h[a]
    BY <2>1, <2>2 DEF IndexOf
  <2>4. g[x] \in 1 .. Len(Values(blocks, x))
    BY IndexRange
  <2>5. Len(blocks[b].axes) \in Nat
    BY SizesFacts DEF Plan
  <2>7. ASSUME blocks[b].mode = "zip" PROVE <<b, 1>> \in Cells(blocks) /\ g[x] = g[<<b, 1>>]
    <3>1. 1 \in 1 .. Len(blocks[b].axes)
      BY <2>1, <2>5
    <3>2. <<b, 1>> \in Cells(blocks)
      BY <2>1, <3>1, CellsAre
    <3>3. g[<<b, 1>>] = h[1]
      BY <2>2, <3>2 DEF IndexOf
    <3>4. h[a] = h[1]
      BY <2>1, <2>2, <2>7 DEF BlockPicks
    <3> QED BY <2>3, <3>2, <3>3, <3>4
  <2> QED BY <2>1, <2>4, <2>7
<1>2. ASSUME NEW x \in Cells(blocks)
      PROVE  Len(Values(blocks, x)) \in Nat
  <2>0. PICK b \in 1 .. Len(blocks) : \E a \in 1 .. Len(blocks[b].axes) :
           x = <<b, a>> /\ Axis(blocks, x) = blocks[b].axes[a]
    BY CellAt, Zenon
  <2>1. PICK a \in 1 .. Len(blocks[b].axes) : x = <<b, a>> /\ Axis(blocks, x) = blocks[b].axes[a]
    BY <2>0
  <2>2. IsList(Values(blocks, x))
    BY <2>1 DEF Plan, Block, Values
  <2>3. PICK S, v : v = Values(blocks, x) /\ v \in Seq(S)
    BY <2>2 DEF IsList
  <2> QED BY <2>3
<1>3. g = [x \in Cells(blocks) |-> g[x]]
  BY DEF IndexOf
<1> HIDE DEF g
<1>4. g \in [Cells(blocks) -> UNION {1 .. Len(Values(blocks, x)) : x \in Cells(blocks)}]
  <2>1. \A x \in Cells(blocks) : g[x] \in UNION {1 .. Len(Values(blocks, y)) : y \in Cells(blocks)}
    BY <1>1
  <2> QED BY <1>3, <2>1
<1>5. ASSUME NEW x \in Cells(blocks)
      PROVE  /\ g[x] <= Len(Values(blocks, x))
             /\ blocks[x[1]].mode = "zip" => g[x] = g[<<x[1], 1>>]
  <2>1. Len(Values(blocks, x)) \in Nat /\ g[x] \in 1 .. Len(Values(blocks, x))
    BY <1>1, <1>2
  <2>2. g[x] <= Len(Values(blocks, x))
    BY <2>1
  <2> QED BY <1>1, <2>2
<1>6. g \in PlanChoices(blocks)
  BY <1>4, <1>5 DEF PlanChoices
<1> QED BY <1>6 DEF g

LEMMA IndexCovers ==
  ASSUME NEW blocks, Plan(blocks), NEW g \in PlanChoices(blocks)
  PROVE  \E c \in Picks(BlockSizes(blocks), Len(blocks)) : g = IndexOf(blocks, c)
<1> DEFINE part(b) == [a \in 1 .. Len(blocks[b].axes) |-> g[<<b, a>>]]
           at(b) == CHOOSE i \in 1 .. BlockSize(blocks[b]) : BlockChoices(blocks[b])[i] = part(b)
           c == [b \in 1 .. Len(blocks) |-> at(b)]
<1>1. /\ g = [x \in Cells(blocks) |-> g[x]]
      /\ \A x \in Cells(blocks) :
           /\ \E y \in Cells(blocks) : g[x] \in 1 .. Len(Values(blocks, y))
           /\ g[x] <= Len(Values(blocks, x))
           /\ blocks[x[1]].mode = "zip" => g[x] = g[<<x[1], 1>>]
  BY DEF PlanChoices
<1>2. ASSUME NEW b \in 1 .. Len(blocks)
      PROVE  at(b) \in 1 .. BlockSize(blocks[b]) /\ BlockChoices(blocks[b])[at(b)] = part(b)
  <2>1. Block(blocks[b])
    BY DEF Plan
  <2>2. PICK n : /\ n = Len(blocks[b].axes) /\ n \in Nat
                 /\ \A a \in 1 .. n : Sizes(blocks[b])[a] = Len(blocks[b].axes[a].values)
    BY <2>1, SizesFacts
  <2>3. ASSUME NEW a \in 1 .. n PROVE g[<<b, a>>] \in 1 .. Sizes(blocks[b])[a]
    <3>1. <<b, a>> \in Cells(blocks) /\ Axis(blocks, <<b, a>>) = blocks[b].axes[a]
      BY <2>2, CellsAre
    <3>2. PICK y \in Cells(blocks) : g[<<b, a>>] \in 1 .. Len(Values(blocks, y))
      BY <1>1, <3>1
    <3>3. g[<<b, a>>] \in Int /\ g[<<b, a>>] >= 1
      BY <3>2
    <3>4. g[<<b, a>>] <= Sizes(blocks[b])[a]
      BY <1>1, <2>2, <3>1 DEF Values
    <3>5. Sizes(blocks[b])[a] \in Nat
      BY <2>1, <2>2, SizesFacts
    <3> QED BY <3>3, <3>4, <3>5
  <2>4. part(b) = [a \in 1 .. n |-> g[<<b, a>>]]
    BY <2>2
  <2>5. \A a \in 1 .. n : g[<<b, a>>] \in Nat
    BY <2>1, <2>2, <2>3, SizesFacts
  <2>6. part(b) \in [1 .. n -> Nat] /\ \A a \in 1 .. n : part(b)[a] = g[<<b, a>>]
    BY <2>4, <2>5
  <2>7. ASSUME blocks[b].mode = "zip", NEW a \in 1 .. n PROVE g[<<b, a>>] = g[<<b, 1>>]
    <3>1. <<b, a>> \in Cells(blocks) /\ <<b, a>>[1] = b
      BY <2>2, CellsAre
    <3> QED BY <1>1, <2>7, <3>1
  <2>8. 1 .. n # {} => 1 \in 1 .. n
    BY <2>2
  <2>9. part(b) \in BlockPicks(blocks[b])
    BY <2>2, <2>3, <2>6, <2>7, <2>8 DEF BlockPicks, Picks
  <2> HIDE DEF part
  <2>10. PICK i \in 1 .. BlockSize(blocks[b]) : BlockChoices(blocks[b])[i] = part(b)
    <3>1. /\ Len(BlockChoices(blocks[b])) = BlockSize(blocks[b])
          /\ Items(BlockChoices(blocks[b])) = BlockPicks(blocks[b])
      BY <2>1, BlockFacts
    <3> QED BY <2>9, <3>1 DEF Items
  <2> QED BY <2>10
<1>3. c \in [1 .. Len(blocks) -> Nat]
  <2>1. \A b \in 1 .. Len(blocks) : BlockSize(blocks[b]) \in Nat
    BY BlockFacts DEF Plan
  <2>2. ASSUME NEW b \in 1 .. Len(blocks) PROVE at(b) \in Nat
    <3>1. PICK i : i = at(b)
      OBVIOUS
    <3>2. i \in 1 .. BlockSize(blocks[b]) /\ BlockSize(blocks[b]) \in Nat
      BY <1>2, <2>1, <3>1
    <3>3. i \in Nat
      BY <3>2
    <3> QED BY <3>1, <3>3
  <2> QED BY <2>2
<1>4. \A b \in 1 .. Len(blocks) : c[b] = at(b)
  OBVIOUS
<1> HIDE DEF c, at
<1>5. c \in Picks(BlockSizes(blocks), Len(blocks))
  BY <1>2, <1>3, <1>4, BlockSizesFacts DEF Picks
<1>6. ASSUME NEW x \in Cells(blocks) PROVE IndexOf(blocks, c)[x] = g[x]
  <2>0. PICK b \in 1 .. Len(blocks) : \E a \in 1 .. Len(blocks[b].axes) :
           x = <<b, a>> /\ Axis(blocks, x) = blocks[b].axes[a]
    BY CellAt, Zenon
  <2>1. PICK a \in 1 .. Len(blocks[b].axes) : x = <<b, a>> /\ Axis(blocks, x) = blocks[b].axes[a]
    BY <2>0
  <2>2. IndexOf(blocks, c)[x] = BlockChoices(blocks[b])[c[b]][a]
    BY <2>1 DEF IndexOf
  <2>3. BlockChoices(blocks[b])[c[b]] = part(b)
    BY <1>2, <1>4, <2>1
  <2> QED BY <2>1, <2>2, <2>3
<1>7. IndexOf(blocks, c) = [x \in Cells(blocks) |-> IndexOf(blocks, c)[x]]
  BY DEF IndexOf
<1>8. g = IndexOf(blocks, c)
  BY <1>1, <1>6, <1>7, Zenon
<1> QED BY <1>5, <1>8

(* The partial points of a choice, merged.                                 *)
MergedAt(blocks, c) == Merged([b \in 1 .. Len(blocks) |-> PartialPoints(blocks[b])[c[b]]])

(* Merging loses no setting and mixes no two: each key is in one block.    *)
LEMMA MergedFacts ==
  ASSUME NEW blocks, Plan(blocks), NEW c \in Picks(BlockSizes(blocks), Len(blocks))
  PROVE  /\ \A key \in DOMAIN MergedAt(blocks, c) :
              \E x \in Cells(blocks) : Axis(blocks, x).key = key
         /\ \A x \in Cells(blocks) :
              /\ Axis(blocks, x).key \in DOMAIN MergedAt(blocks, c)
              /\ MergedAt(blocks, c)[Axis(blocks, x).key]
                   = Values(blocks, x)[IndexOf(blocks, c)[x]]
<1> DEFINE parts == [b \in 1 .. Len(blocks) |-> PartialPoints(blocks[b])[c[b]]]
           last(key, b) == /\ key \in DOMAIN parts[b]
                           /\ \A d \in DOMAIN parts : key \in DOMAIN parts[d] => d <= b
           keys == UNION {DOMAIN parts[b] : b \in DOMAIN parts}
<1>1. ASSUME NEW b \in 1 .. Len(blocks)
      PROVE  /\ DOMAIN parts[b] = Keys(blocks[b])
             /\ \A a \in 1 .. Len(blocks[b].axes) :
                  parts[b][blocks[b].axes[a].key]
                    = blocks[b].axes[a].values[BlockChoices(blocks[b])[c[b]][a]]
  <2>1. Block(blocks[b]) /\ c[b] \in 1 .. BlockSize(blocks[b])
    BY ChoiceOfBlock DEF Plan
  <2>2. parts[b] = PartialPoints(blocks[b])[c[b]]
    OBVIOUS
  <2> HIDE DEF parts
  <2> QED BY <2>1, <2>2, PartialFacts
<1>2. DOMAIN parts = 1 .. Len(blocks)
  OBVIOUS
<1>3. MergedAt(blocks, c) = [key \in keys |-> parts[CHOOSE b \in DOMAIN parts : last(key, b)][key]]
  BY DEF MergedAt, Merged
<1> HIDE DEF parts
<1>4. ASSUME NEW key \in keys PROVE \E x \in Cells(blocks) : Axis(blocks, x).key = key
  <2>1. PICK b \in 1 .. Len(blocks) : key \in Keys(blocks[b])
    BY <1>1, <1>2
  <2>2. PICK a \in 1 .. Len(blocks[b].axes) : blocks[b].axes[a].key = key
    BY <2>1 DEF Keys
  <2>3. <<b, a>> \in Cells(blocks) /\ Axis(blocks, <<b, a>>) = blocks[b].axes[a]
    BY CellsAre
  <2> QED BY <2>2, <2>3
<1>5. ASSUME NEW x \in Cells(blocks)
      PROVE  /\ Axis(blocks, x).key \in keys
             /\ MergedAt(blocks, c)[Axis(blocks, x).key] = Values(blocks, x)[IndexOf(blocks, c)[x]]
  <2>0. PICK b \in 1 .. Len(blocks) : \E a \in 1 .. Len(blocks[b].axes) :
           x = <<b, a>> /\ Axis(blocks, x) = blocks[b].axes[a]
    BY CellAt, Zenon
  <2>1. PICK a \in 1 .. Len(blocks[b].axes) : x = <<b, a>> /\ Axis(blocks, x) = blocks[b].axes[a]
    BY <2>0
  <2>2. PICK key : key = Axis(blocks, x).key
    OBVIOUS
  <2>3. key \in DOMAIN parts[b]
    BY <1>1, <2>1, <2>2 DEF Keys
  <2>4. key \in keys
    BY <1>2, <2>3
  <2>5. ASSUME NEW d \in 1 .. Len(blocks), key \in DOMAIN parts[d] PROVE d = b
    <3>1. PICK e \in 1 .. Len(blocks[d].axes) : blocks[d].axes[e].key = key
      <4>1. key \in Keys(blocks[d])
        BY <1>1, <2>5
      <4> QED BY <4>1 DEF Keys
    <3>2. <<d, e>> \in Cells(blocks) /\ Axis(blocks, <<d, e>>) = blocks[d].axes[e]
      BY CellsAre
    <3>3. <<d, e>> = x
      BY <2>2, <3>1, <3>2, Zenon DEF Plan
    <3> QED BY <2>1, <3>3
  <2>6. b \in Nat /\ Len(blocks) \in Nat
    BY BlockSizesFacts
  <2>7. last(key, b)
    BY <1>2, <2>3, <2>5, <2>6
  <2>8. \A d \in DOMAIN parts : last(key, d) => d = b
    BY <1>2, <2>5
  <2>9. (CHOOSE d \in DOMAIN parts : last(key, d)) = b
    <3> HIDE DEF last
    <3> QED BY <1>2, <2>7, <2>8
  <2>10. MergedAt(blocks, c)[key] = parts[b][key]
    <3> HIDE DEF last, keys
    <3> QED BY <1>3, <2>4, <2>9
  <2>11. parts[b][key] = blocks[b].axes[a].values[BlockChoices(blocks[b])[c[b]][a]]
    BY <1>1, <2>1, <2>2
  <2>12. IndexOf(blocks, c)[x] = BlockChoices(blocks[b])[c[b]][a]
    BY <2>1 DEF IndexOf
  <2> QED BY <2>1, <2>2, <2>4, <2>10, <2>11, <2>12 DEF Values
<1>6. DOMAIN MergedAt(blocks, c) = keys
  BY <1>3
<1> HIDE DEF keys
<1> QED BY <1>4, <1>5, <1>6

LEMMA MergedChosen ==
  ASSUME NEW blocks, Plan(blocks), NEW c \in Picks(BlockSizes(blocks), Len(blocks)),
         NEW key, NEW default
  PROVE  Get(MergedAt(blocks, c), key, default)
           = Chosen(blocks, IndexOf(blocks, c), key, default)
<1>1. CASE \E x \in Cells(blocks) : Axis(blocks, x).key = key
  <2>1. PICK x \in Cells(blocks) : x = CHOOSE y \in Cells(blocks) : Axis(blocks, y).key = key
    BY <1>1
  <2>2. Axis(blocks, x).key = key
    BY <1>1, <2>1
  <2>3. Chosen(blocks, IndexOf(blocks, c), key, default) = Values(blocks, x)[IndexOf(blocks, c)[x]]
    BY <1>1, <2>1 DEF Chosen
  <2>4. key \in DOMAIN MergedAt(blocks, c)
        /\ MergedAt(blocks, c)[key] = Values(blocks, x)[IndexOf(blocks, c)[x]]
    BY <2>2, MergedFacts
  <2> QED BY <2>3, <2>4 DEF Get
<1>2. CASE ~\E x \in Cells(blocks) : Axis(blocks, x).key = key
  <2>1. key \notin DOMAIN MergedAt(blocks, c)
    BY <1>2, MergedFacts
  <2> QED BY <1>2, <2>1 DEF Get, Chosen
<1> QED BY <1>1, <1>2

-----------------------------------------------------------------------------
(* A plan as run_planned_sweep is given it, and its points.                *)
Given(s) ==
  /\ Plan(s.blocks) /\ HasPower(s.given, s.own, Tx)
  /\ \A l \in DOMAIN s.given.lo : s.given.lo[l] \in Freqs
  /\ \A x \in Cells(s.blocks) : \A l \in Los :
       Axis(s.blocks, x).key = <<"lo", l>> => Items(Values(s.blocks, x)) \subseteq Freqs

PointsOf(s) == SweepPoints(s.blocks, ResolveDefaults(s.given, s.own, Los, Tx), Tx)

PointAt(s, c) == FinalizePoint(MergedAt(s.blocks, c), ResolveDefaults(s.given, s.own, Los, Tx), Tx)

(* What a measurement at a point holds: an LO it leaves alone stays where  *)
(* it is.                                                                  *)
RowOf(p) ==
  [t \in Tx |-> [of |-> {OrxOf[t]},
                 freq |-> IF p.lo[LoOf[t]] = 0 THEN lo[LoOf[t]] ELSE p.lo[LoOf[t]],
                 level |-> p.power[t], wave |-> p.signal[t]]]

(* iter_sweep_points yields the point of every choice and no other, as     *)
(* many as summarize_sweep_plan announces.                                 *)
LEMMA PointsFacts ==
  ASSUME NEW s, Given(s)
  PROVE  LET P == PointsOf(s) IN
         /\ P \in Seq(Items(P)) /\ Len(P) = PlanSize(s.blocks)
         /\ \A i \in 1 .. Len(P) :
              \E c \in Picks(BlockSizes(s.blocks), Len(s.blocks)) : P[i] = PointAt(s, c)
         /\ \A c \in Picks(BlockSizes(s.blocks), Len(s.blocks)) :
              \E i \in 1 .. Len(P) : P[i] = PointAt(s, c)
<1> DEFINE blocks == s.blocks
           sizes == BlockSizes(blocks)
           partials == [b \in 1 .. Len(blocks) |-> PartialPoints(blocks[b])]
           C == Combos(sizes)
           D == ResolveDefaults(s.given, s.own, Los, Tx)
           P == PointsOf(s)
<1>1. Plan(blocks)
  BY DEF Given
<1>2. /\ Len(blocks) \in Nat /\ sizes \in Seq(Nat) /\ Len(sizes) = Len(blocks)
      /\ \A b \in 1 .. Len(blocks) : sizes[b] = BlockSize(blocks[b])
  BY <1>1, BlockSizesFacts
<1>3. sizes = [b \in 1 .. Len(blocks) |-> Len(partials[b])]
  <2>1. ASSUME NEW b \in 1 .. Len(blocks) PROVE BlockSize(blocks[b]) = Len(PartialPoints(blocks[b]))
    <3>1. Block(blocks[b])
      BY <1>1 DEF Plan
    <3>2. PICK n \in Nat : n = Len(BlockChoices(blocks[b])) /\ n = BlockSize(blocks[b])
      BY <3>1, BlockFacts
    <3>3. Len(PartialPoints(blocks[b])) = n
      BY <3>2 DEF PartialPoints
    <3> QED BY <3>2, <3>3
  <2> QED BY <2>1 DEF BlockSizes
<1>4. /\ C \in Seq(Seq(Nat)) /\ Len(C) = ProductOf(sizes)
      /\ Items(C) = Picks(sizes, Len(blocks))
  BY <1>2, CombosFacts
<1>5. P = [i \in 1 .. Len(C) |->
             FinalizePoint(Merged([b \in 1 .. Len(blocks) |-> partials[b][C[i][b]]]), D, Tx)]
  BY <1>3, Zenon DEF PointsOf, SweepPoints
<1>6. \A i \in 1 .. Len(C) : [b \in 1 .. Len(blocks) |-> partials[b][C[i][b]]]
                            = [b \in 1 .. Len(blocks) |-> PartialPoints(blocks[b])[C[i][b]]]
  OBVIOUS
<1>7. \A i \in 1 .. Len(C) : PointAt(s, C[i])
         = FinalizePoint(Merged([b \in 1 .. Len(blocks) |-> partials[b][C[i][b]]]), D, Tx)
  BY <1>6, Zenon DEF PointAt, MergedAt
<1>8. P = [i \in 1 .. Len(C) |-> PointAt(s, C[i])]
  BY <1>5, <1>7, Zenon
<1> HIDE DEF P, C, sizes
<1>9. Len(C) \in Nat
  BY <1>4
<1>10. P \in [1 .. Len(C) -> Items(P)] /\ Len(P) = Len(C)
  <2>1. Len(P) = Len(C)
    BY <1>8, <1>9
  <2> QED BY <1>8, <2>1 DEF Items
<1>11. P \in Seq(Items(P))
  BY <1>9, <1>10, ListOf, Zenon
<1>12. ASSUME NEW i \in 1 .. Len(P) PROVE \E c \in Picks(sizes, Len(blocks)) : P[i] = PointAt(s, c)
  <2>1. C[i] \in Picks(sizes, Len(blocks))
    BY <1>4, <1>10 DEF Items
  <2> QED BY <1>8, <1>10, <2>1
<1>13. ASSUME NEW c \in Picks(sizes, Len(blocks)) PROVE \E i \in 1 .. Len(P) : P[i] = PointAt(s, c)
  <2>1. PICK i \in 1 .. Len(C) : C[i] = c
    BY <1>4 DEF Items
  <2> QED BY <1>8, <1>10, <2>1
<1>14. PlanSize(blocks) = ProductOf(sizes)
  BY DEF PlanSize, sizes, BlockSizes
<1> QED BY <1>4, <1>10, <1>11, <1>12, <1>13, <1>14 DEF P, C, sizes

(* What _finalize_point makes of a choice: its settings, else the defaults.*)
LEMMA PointFields ==
  ASSUME NEW s, Given(s), NEW c \in Picks(BlockSizes(s.blocks), Len(s.blocks))
  PROVE  LET p == PointAt(s, c)
             For(key, default) == Chosen(s.blocks, IndexOf(s.blocks, c), key, default)
         IN  /\ \A l \in Los : p.lo[l] = For(<<"lo", l>>, Get(s.given.lo, l, 0))
             /\ p.power = [t \in Tx |-> p.power[t]] /\ p.signal = [t \in Tx |-> p.signal[t]]
             /\ \A t \in Tx :
                  /\ p.power[t] = For(<<"power", t>>, For(<<"power", "shared">>,
                                        Get(s.given.power, t, s.own.power[t])))
                  /\ p.signal[t] = For(<<"signal", t>>,
                                       Get(s.given.signal, t, Get(s.own.signal, t, NoSignal)))
<1> DEFINE D == ResolveDefaults(s.given, s.own, Los, Tx)
           M == MergedAt(s.blocks, c)
           p == PointAt(s, c)
           For(key, default) == Chosen(s.blocks, IndexOf(s.blocks, c), key, default)
<1>1. \A key, default : Get(M, key, default) = For(key, default)
  BY MergedChosen DEF Given
<1>2. /\ p.lo = [l \in DOMAIN D.lo |-> Get(M, <<"lo", l>>, D.lo[l])]
      /\ p.power = [t \in Tx |-> Get(M, <<"power", t>>,
                                     Get(M, <<"power", "shared">>, D.power[t]))]
      /\ p.signal = [t \in Tx |-> Get(M, <<"signal", t>>, D.signal[t])]
  BY DEF PointAt, FinalizePoint
<1>3. /\ D.lo = Over(s.given.lo, [l \in Los |-> 0])
      /\ D.power = Over(s.given.power, s.own.power)
      /\ D.signal = Over(Over(s.given.signal, s.own.signal), [t \in Tx |-> NoSignal])
  BY DEF ResolveDefaults
<1>4. \A l \in Los : l \in DOMAIN D.lo /\ D.lo[l] = Get(s.given.lo, l, 0)
  BY <1>3 DEF Over, Get
<1>5. \A t \in Tx : D.power[t] = Get(s.given.power, t, s.own.power[t])
  BY <1>3 DEF Given, HasPower, Over, Get
<1>6. \A t \in Tx : D.signal[t] = Get(s.given.signal, t, Get(s.own.signal, t, NoSignal))
  <2>1. PICK o : o = Over(s.given.signal, s.own.signal)
    OBVIOUS
  <2>2. /\ DOMAIN o = DOMAIN s.given.signal \cup DOMAIN s.own.signal
        /\ \A t \in DOMAIN o : o[t] = Get(s.given.signal, t, s.own.signal[t])
    BY <2>1 DEF Over
  <2>3. \A t \in Tx : D.signal[t] = Get(o, t, NoSignal)
    BY <1>3, <2>1 DEF Over, Get
  <2> QED BY <2>2, <2>3 DEF Get
<1> HIDE DEF M, For, p, D
<1>7. \A l \in Los : p.lo[l] = For(<<"lo", l>>, Get(s.given.lo, l, 0))
  BY <1>1, <1>2, <1>4
<1>8. \A t \in Tx : /\ p.power[t] = For(<<"power", t>>, For(<<"power", "shared">>, D.power[t]))
                    /\ p.signal[t] = For(<<"signal", t>>, D.signal[t])
  <2>1. \A t \in Tx :
          /\ p.power[t] = Get(M, <<"power", t>>, Get(M, <<"power", "shared">>, D.power[t]))
          /\ p.signal[t] = Get(M, <<"signal", t>>, D.signal[t])
    BY <1>2
  <2> QED BY <1>1, <2>1
<1>9. p.power = [t \in Tx |-> p.power[t]] /\ p.signal = [t \in Tx |-> p.signal[t]]
  BY <1>2
<1> QED BY <1>5, <1>6, <1>7, <1>8, <1>9 DEF p, For

(* An LO the plan or its defaults name is set at every point, another is   *)
(* set at none.                                                            *)
LEMMA LoOfPoint ==
  ASSUME NEW s, Given(s), NEW c \in Picks(BlockSizes(s.blocks), Len(s.blocks)), NEW l \in Los
  PROVE  LET named == \/ l \in DOMAIN s.given.lo
                      \/ \E x \in Cells(s.blocks) : Axis(s.blocks, x).key = <<"lo", l>>
         IN  /\ named => PointAt(s, c).lo[l] \in Freqs
             /\ ~named => PointAt(s, c).lo[l] = 0
<1> DEFINE key == <<"lo", l>>
           g == IndexOf(s.blocks, c)
           v == PointAt(s, c).lo[l]
<1>1. v = Chosen(s.blocks, g, key, Get(s.given.lo, l, 0))
  BY PointFields
<1> HIDE DEF v
<1>2. CASE \E x \in Cells(s.blocks) : Axis(s.blocks, x).key = key
  <2>1. PICK x \in Cells(s.blocks) : x = CHOOSE y \in Cells(s.blocks) : Axis(s.blocks, y).key = key
    BY <1>2
  <2>2. Axis(s.blocks, x).key = key
    BY <1>2, <2>1
  <2>3. v = Values(s.blocks, x)[g[x]]
    BY <1>1, <1>2, <2>1 DEF Chosen
  <2>4. g[x] \in 1 .. Len(Values(s.blocks, x))
    BY IndexRange DEF Given
  <2>5. v \in Items(Values(s.blocks, x))
    BY <2>3, <2>4 DEF Items
  <2>6. Items(Values(s.blocks, x)) \subseteq Freqs
    BY <2>2 DEF Given
  <2> QED BY <1>2, <2>5, <2>6 DEF v
<1>3. CASE ~\E x \in Cells(s.blocks) : Axis(s.blocks, x).key = key
  <2>1. v = Get(s.given.lo, l, 0)
    BY <1>1, <1>3 DEF Chosen
  <2> QED BY <1>3, <2>1 DEF Given, Get, v
<1> QED BY <1>2, <1>3

(* A measurement at a point is what the plan says of it.                   *)
LEMMA RowPlanned ==
  ASSUME NEW s, Given(s), NEW c \in Picks(BlockSizes(s.blocks), Len(s.blocks))
  PROVE  RowOf(PointAt(s, c)) = Planned(s, IndexOf(s.blocks, c))
<1> DEFINE p == PointAt(s, c)
           g == IndexOf(s.blocks, c)
           For(key, default) == Chosen(s.blocks, g, key, default)
<1>1. ASSUME NEW t \in Tx
      PROVE  (IF p.lo[LoOf[t]] = 0 THEN lo[LoOf[t]] ELSE p.lo[LoOf[t]])
               = For(<<"lo", LoOf[t]>>, Get(s.given.lo, LoOf[t], lo[LoOf[t]]))
  <2>1. PICK l \in Los : l = LoOf[t]
    BY BenchAssumption
  <2>2. p.lo[l] = For(<<"lo", l>>, Get(s.given.lo, l, 0))
    BY PointFields
  <2>3. CASE \E x \in Cells(s.blocks) : Axis(s.blocks, x).key = <<"lo", l>>
    <3>1. p.lo[l] \in Freqs
      BY <2>3, LoOfPoint
    <3>2. p.lo[l] # 0
      BY <3>1, BenchAssumption
    <3>3. For(<<"lo", l>>, Get(s.given.lo, l, 0)) = For(<<"lo", l>>, Get(s.given.lo, l, lo[l]))
      BY <2>3 DEF Chosen
    <3> QED BY <2>1, <2>2, <3>2, <3>3
  <2>4. CASE ~\E x \in Cells(s.blocks) : Axis(s.blocks, x).key = <<"lo", l>>
    <3>1. \A default : For(<<"lo", l>>, default) = default
      BY <2>4 DEF Chosen
    <3>2. p.lo[l] = Get(s.given.lo, l, 0)
      BY <2>2, <3>1
    <3>3. CASE l \in DOMAIN s.given.lo
      <4>1. s.given.lo[l] # 0
        BY <3>3, BenchAssumption DEF Given
      <4> QED BY <2>1, <3>1, <3>2, <3>3, <4>1 DEF Get
    <3>4. CASE l \notin DOMAIN s.given.lo
      BY <2>1, <3>1, <3>2, <3>4 DEF Get
    <3> QED BY <3>3, <3>4
  <2> QED BY <2>3, <2>4
<1>2. \A t \in Tx :
        /\ p.power[t] = For(<<"power", t>>, For(<<"power", "shared">>,
                              Get(s.given.power, t, s.own.power[t])))
        /\ p.signal[t] = For(<<"signal", t>>,
                             Get(s.given.signal, t, Get(s.own.signal, t, NoSignal)))
  BY PointFields
<1> HIDE DEF p, For, g
<1>3. RowOf(p) =
        [t \in Tx |->
          [of |-> {OrxOf[t]},
           freq |-> For(<<"lo", LoOf[t]>>, Get(s.given.lo, LoOf[t], lo[LoOf[t]])),
           level |-> For(<<"power", t>>, For(<<"power", "shared">>,
                           Get(s.given.power, t, s.own.power[t]))),
           wave |-> For(<<"signal", t>>,
                        Get(s.given.signal, t, Get(s.own.signal, t, NoSignal)))]]
  BY <1>1, <1>2, Zenon DEF RowOf
<1> QED BY <1>3, Zenon DEF p, For, g, Planned

-----------------------------------------------------------------------------
(* The sweep as it goes.                                                   *)

Running == {"point", "bands", "transmit", "action", "measure", "swept"}

(* What is measured and what is left are the plan's points P in order.     *)
Aligned(P) ==
  /\ points \in Seq(Items(P)) /\ results \in Seq(Items(results))
  /\ Len(results) + Len(points) = Len(P)
  /\ \A i \in 1 .. Len(points) : points[i] = P[Len(results) + i]
  /\ \A i \in 1 .. Len(results) : results[i] = RowOf(P[i])

(* The points behind are measured as the plan asks, those ahead are still  *)
(* to come, and the one in hand is on the radio as far as its steps went.  *)
SweepInv ==
  pc \in Running =>
    /\ sweep \in 1 .. Len(Sweeps) /\ Given(Sweeps[sweep]) /\ Aligned(PointsOf(Sweeps[sweep]))
    /\ pc = "swept" => points = <<>>
    /\ pc \in {"bands", "transmit", "action", "measure"} =>
         points # <<>> /\ \A l \in Los : Point.lo[l] # 0 => lo[l] = Point.lo[l]
    /\ pc \in {"transmit", "action", "measure"} => \A t \in Tx : atten[t] = Point.power[t]
    /\ pc \in {"action", "measure"} => on = Point.signal
    /\ pc = "measure" => Readable

(* A sweep that is not refused is a plan: what the assumption says of its  *)
(* lists and what run_planned_sweep checks of it.                          *)
LEMMA BegunGiven ==
  ASSUME NEW n \in 1 .. Len(Sweeps),
         \A i \in 1 .. Len(Sweeps[n].blocks) : WellFormed(Sweeps[n].blocks[i]),
         HasPower(Sweeps[n].given, Sweeps[n].own, Tx)
  PROVE  Given(Sweeps[n])
<1> DEFINE s == Sweeps[n]
           blocks == s.blocks
<1>1. /\ IsList(blocks) /\ \A b \in 1 .. Len(blocks) : IsList(blocks[b].axes)
      /\ \A x \in Cells(blocks) :
           /\ IsList(Axis(blocks, x).values)
           /\ \A l \in Los :
                Axis(blocks, x).key = <<"lo", l>> => Items(Axis(blocks, x).values) \subseteq Freqs
           /\ \A y \in Cells(blocks) : Axis(blocks, x).key = Axis(blocks, y).key => x = y
      /\ \A l \in DOMAIN s.given.lo : s.given.lo[l] \in Freqs
  BY SweepAssumption, Zenon
<1>2. /\ \A i \in 1 .. Len(blocks) : WellFormed(blocks[i])
      /\ HasPower(s.given, s.own, Tx)
  OBVIOUS
<1> HIDE DEF s
<1>3. ASSUME NEW b \in 1 .. Len(blocks) PROVE Block(blocks[b])
  <2>1. \A a \in 1 .. Len(blocks[b].axes) :
          <<b, a>> \in Cells(blocks) /\ Axis(blocks, <<b, a>>) = blocks[b].axes[a]
    BY CellsAre, Zenon
  <2>2. \A a \in 1 .. Len(blocks[b].axes) : IsList(blocks[b].axes[a].values)
    BY <1>1, <2>1
  <2>3. ASSUME NEW a \in 1 .. Len(blocks[b].axes), NEW c \in 1 .. Len(blocks[b].axes),
               blocks[b].axes[a].key = blocks[b].axes[c].key
        PROVE  a = c
    <3>1. <<b, a>> = <<b, c>>
      BY <1>1, <2>1, <2>3
    <3> QED BY <3>1
  <2> QED BY <1>1, <1>2, <2>2, <2>3 DEF Block
<1>4. Plan(blocks)
  BY <1>1, <1>3 DEF Plan
<1>5. Given(s)
  BY <1>1, <1>2, <1>4 DEF Given, Values
<1> QED BY <1>5 DEF s

LEMMA SweepInit == Init => SweepInv
  BY DEF Init, SweepInv, Running

LEMMA SweepBegins == BeginSweep => SweepInv'
<1> SUFFICES ASSUME BeginSweep PROVE SweepInv'
  OBVIOUS
<1>1. PICK n \in 1 .. Len(Sweeps) :
        /\ \A i \in 1 .. Len(Sweeps[n].blocks) : WellFormed(Sweeps[n].blocks[i])
        /\ HasPower(Sweeps[n].given, Sweeps[n].own, Tx)
        /\ pc' = "point" /\ results' = <<>> /\ sweep' = n /\ points' = PointsOf(Sweeps[n])
  BY DEF BeginSweep, Begin, PointsOf
<1>2. Given(Sweeps[n])
  BY <1>1, BegunGiven
<1>3. PICK P : P = PointsOf(Sweeps[n]) /\ P \in Seq(Items(P))
  BY <1>2, PointsFacts
<1>4. Len(P) \in Nat
  BY <1>3
<1>5. Aligned(P)'
  BY <1>1, <1>3, <1>4, EmptyItems DEF Aligned
<1> QED BY <1>1, <1>2, <1>3, <1>5 DEF SweepInv, Running

(* What a row says does not change when an LO is set for a point: a point  *)
(* that leaves the LO alone is in a plan that never sets it.               *)
LEMMA LosOfPlan ==
  ASSUME NEW s, Given(s), NEW i \in 1 .. Len(PointsOf(s)), NEW j \in 1 .. Len(PointsOf(s)),
         NEW l \in Los, PointsOf(s)[i].lo[l] # 0
  PROVE  PointsOf(s)[j].lo[l] # 0
<1>1. PICK c \in Picks(BlockSizes(s.blocks), Len(s.blocks)) : PointsOf(s)[i] = PointAt(s, c)
  BY PointsFacts
<1>2. PICK d \in Picks(BlockSizes(s.blocks), Len(s.blocks)) : PointsOf(s)[j] = PointAt(s, d)
  BY PointsFacts
<1>3. \/ l \in DOMAIN s.given.lo
      \/ \E x \in Cells(s.blocks) : Axis(s.blocks, x).key = <<"lo", l>>
  BY <1>1, LoOfPoint
<1>4. PointAt(s, d).lo[l] \in Freqs
  BY <1>3, LoOfPoint
<1> QED BY <1>2, <1>4, BenchAssumption

LEMMA AlignedStays ==
  ASSUME NEW P, Aligned(P), UNCHANGED <<points, results, lo>>
  PROVE  Aligned(P)'
  BY DEF Aligned, RowOf

LEMMA EveryLo ==
  ASSUME NEW n \in Nat, n > Len(LoOrder), NEW l \in Los
  PROVE  l \in Upto(LoOrder, n)
<1>1. PICK i \in 1 .. Len(LoOrder) : l = LoOrder[i]
  BY DEF Los, Items
<1>2. i \in (1 .. n) \cap DOMAIN LoOrder
  BY <1>1, BenchAssumption
<1> QED BY <1>1, <1>2 DEF Upto

LEMMA EveryBand ==
  ASSUME NEW n \in Nat, n > Len(TxOrder), NEW t \in Tx
  PROVE  t \in Upto(TxOrder, n)
<1>1. PICK i \in 1 .. Len(TxOrder) : t = TxOrder[i]
  BY BenchAssumption DEF Items
<1>2. i \in (1 .. n) \cap DOMAIN TxOrder
  BY <1>1, BenchAssumption
<1> QED BY <1>1, <1>2 DEF Upto

LEMMA PointInPlan ==
  ASSUME NEW P, Aligned(P), points # <<>>
  PROVE  /\ Len(points) \in Nat \ {0} /\ Len(results) \in Nat
         /\ Len(results) + 1 \in 1 .. Len(P) /\ Point = P[Len(results) + 1]
<1>1. points \in Seq(Items(P)) /\ results \in Seq(Items(results))
  BY DEF Aligned
<1>2. Len(points) \in Nat \ {0} /\ Len(results) \in Nat
  BY <1>1
<1>3. Len(results) + 1 \in 1 .. Len(P)
  BY <1>2 DEF Aligned
<1> QED BY <1>2, <1>3 DEF Aligned, Point

LEMMA SweepLos == SweepInv /\ ApplyLos => SweepInv'
<1> SUFFICES ASSUME SweepInv, ApplyLos PROVE SweepInv'
  OBVIOUS
<1>1. /\ pc = "point" /\ UNCHANGED <<points, results, sweep>>
      /\ sweep \in 1 .. Len(Sweeps) /\ Given(Sweeps[sweep]) /\ Aligned(PointsOf(Sweeps[sweep]))
  BY DEF ApplyLos, planVars, SweepInv, Running
<1>2. PICK s, P : s = Sweeps[sweep] /\ P = PointsOf(s) /\ Given(s) /\ Aligned(P)
  BY <1>1
<1>3. CASE points = <<>>
  <2>1. pc' = "swept" /\ UNCHANGED lo
    BY <1>3 DEF ApplyLos
  <2>2. Aligned(P)'
    BY <1>1, <1>2, <2>1, AlignedStays
  <2> QED BY <1>1, <1>2, <1>3, <2>1, <2>2 DEF SweepInv, Running
<1>4. CASE points # <<>> /\ pc' # "stopped"
  <2>1. PICK n \in 1 .. Len(LoOrder) + 1 :
          /\ lo' = [l \in Los |-> IF Point.lo[l] # 0 /\ l \in Upto(LoOrder, n)
                                  THEN Point.lo[l] ELSE lo[l]]
          /\ pc' = IF n > Len(LoOrder) THEN "bands" ELSE "stopped"
    BY <1>4 DEF ApplyLos
  <2>2. n > Len(LoOrder) /\ pc' = "bands"
    BY <1>4, <2>1
  <2>3. \A l \in Los : l \in Upto(LoOrder, n)
    BY <2>2, EveryLo
  <2>4. \A l \in Los : lo'[l] = IF Point.lo[l] # 0 THEN Point.lo[l] ELSE lo[l]
    BY <2>1, <2>3
  <2>5. /\ 1 \in 1 .. Len(points) /\ Len(results) \in Nat /\ Len(results) + 1 \in 1 .. Len(P)
        /\ Point = P[Len(results) + 1]
    BY <1>2, <1>4, PointInPlan
  <2>6. ASSUME NEW i \in 1 .. Len(results) PROVE RowOf(P[i])' = RowOf(P[i])
    <3>1. i \in 1 .. Len(P)
      BY <2>5
    <3>2. ASSUME NEW t \in Tx
          PROVE  (IF P[i].lo[LoOf[t]] = 0 THEN lo[LoOf[t]] ELSE P[i].lo[LoOf[t]])'
                   = (IF P[i].lo[LoOf[t]] = 0 THEN lo[LoOf[t]] ELSE P[i].lo[LoOf[t]])
      <4>1. PICK l \in Los : l = LoOf[t]
        BY BenchAssumption
      <4>2. Point.lo[l] # 0 => P[i].lo[l] # 0
        BY <1>2, <2>5, <3>1, LosOfPlan
      <4> QED BY <2>4, <4>1, <4>2
    <3> QED BY <3>2 DEF RowOf
  <2>7. Aligned(P)'
    BY <1>1, <1>2, <2>6 DEF Aligned
  <2>8. \A l \in Los : (Point.lo[l] # 0 => lo[l] = Point.lo[l])'
    BY <1>1, <2>4 DEF Point
  <2> QED BY <1>1, <1>2, <1>4, <2>2, <2>7, <2>8 DEF SweepInv, Running, Point
<1>5. CASE pc' = "stopped"
  BY <1>5 DEF SweepInv, Running
<1> QED BY <1>3, <1>4, <1>5

LEMMA SweepBands == SweepInv /\ ApplyBands => SweepInv'
<1> SUFFICES ASSUME SweepInv, ApplyBands PROVE SweepInv'
  OBVIOUS
<1>1. CASE pc' = "stopped"
  BY <1>1 DEF SweepInv, Running
<1>2. CASE pc' # "stopped"
  <2>1. /\ pc = "bands" /\ UNCHANGED <<points, results, sweep, lo, on>>
        /\ sweep \in 1 .. Len(Sweeps) /\ Given(Sweeps[sweep]) /\ Aligned(PointsOf(Sweeps[sweep]))
        /\ points # <<>> /\ \A l \in Los : Point.lo[l] # 0 => lo[l] = Point.lo[l]
    BY DEF ApplyBands, planVars, SweepInv, Running
  <2>2. PICK n \in 1 .. Len(TxOrder) + 1 :
          /\ atten' = [t \in Tx |-> IF t \in Upto(TxOrder, n) THEN Point.power[t] ELSE atten[t]]
          /\ pc' = IF n > Len(TxOrder) /\ OneLength THEN "transmit" ELSE "stopped"
    BY DEF ApplyBands
  <2>3. n > Len(TxOrder) /\ pc' = "transmit"
    BY <1>2, <2>2
  <2>4. \A t \in Tx : t \in Upto(TxOrder, n)
    BY <2>3, EveryBand
  <2>5. \A t \in Tx : atten'[t] = Point.power[t]
    BY <2>2, <2>4
  <2>6. PICK P : P = PointsOf(Sweeps[sweep]) /\ Aligned(P)
    BY <2>1
  <2>7. Aligned(P)'
    BY <2>1, <2>6, AlignedStays
  <2> QED BY <2>1, <2>3, <2>5, <2>6, <2>7 DEF SweepInv, Running, Point
<1> QED BY <1>1, <1>2

LEMMA SweepTransmits == SweepInv /\ TransmitPoint => SweepInv'
<1> SUFFICES ASSUME SweepInv, TransmitPoint PROVE SweepInv'
  OBVIOUS
<1>1. CASE pc' = "stopped"
  BY <1>1 DEF SweepInv, Running
<1>2. CASE pc' # "stopped"
  <2>1. /\ pc = "transmit" /\ UNCHANGED <<points, results, sweep, lo, atten>>
        /\ pc' = "action" /\ on' = Point.signal
        /\ sweep \in 1 .. Len(Sweeps) /\ Given(Sweeps[sweep]) /\ Aligned(PointsOf(Sweeps[sweep]))
        /\ points # <<>> /\ \A l \in Los : Point.lo[l] # 0 => lo[l] = Point.lo[l]
        /\ \A t \in Tx : atten[t] = Point.power[t]
    BY <1>2 DEF TransmitPoint, planVars, SweepInv, Running
  <2>2. PICK P : P = PointsOf(Sweeps[sweep]) /\ Aligned(P)
    BY <2>1
  <2>3. Aligned(P)'
    BY <2>1, <2>2, AlignedStays
  <2> QED BY <2>1, <2>2, <2>3 DEF SweepInv, Running, Point
<1> QED BY <1>1, <1>2

LEMMA SweepLevels == SweepInv /\ LevelBands => SweepInv'
<1> SUFFICES ASSUME SweepInv, LevelBands PROVE SweepInv'
  OBVIOUS
<1>1. CASE pc' = "stopped"
  BY <1>1 DEF SweepInv, Running
<1>2. CASE pc' # "stopped"
  <2>1. /\ pc = "action" /\ UNCHANGED <<points, results, sweep, lo, atten, on>>
        /\ pc' = "measure" /\ Readable
        /\ sweep \in 1 .. Len(Sweeps) /\ Given(Sweeps[sweep]) /\ Aligned(PointsOf(Sweeps[sweep]))
        /\ points # <<>> /\ \A l \in Los : Point.lo[l] # 0 => lo[l] = Point.lo[l]
        /\ \A t \in Tx : atten[t] = Point.power[t]
        /\ on = Point.signal
    BY <1>2 DEF LevelBands, planVars, SweepInv, Running
  <2>2. PICK P : P = PointsOf(Sweeps[sweep]) /\ Aligned(P)
    BY <2>1
  <2>3. Aligned(P)'
    BY <2>1, <2>2, AlignedStays
  <2> QED BY <2>1, <2>2, <2>3 DEF SweepInv, Running, Point, Readable
<1> QED BY <1>1, <1>2

(* A snapshot of the point in hand reads what the plan says of it.         *)
LEMMA PointMeasured ==
  ASSUME Readable, NEW t \in Tx,
         \A l \in Los : Point.lo[l] # 0 => lo[l] = Point.lo[l],
         \A b \in Tx : atten[b] = Point.power[b], on = Point.signal
  PROVE  Settings(Measured(t, {OrxOf[t]})) = RowOf(Point)[t]
<1>1. PICK o \in Orx : o = OrxOf[t]
  BY BenchAssumption
<1>2. Measured(t, {o}).of = {o}
  BY <1>1, OwnInput DEF Readable, Measured
<1>3. PICK l \in Los : l = LoOf[t]
  BY BenchAssumption
<1>4. lo[l] = IF Point.lo[l] = 0 THEN lo[l] ELSE Point.lo[l]
  OBVIOUS
<1>5. /\ Measured(t, {o}).freq = lo[l] /\ Measured(t, {o}).level = Point.power[t]
      /\ Measured(t, {o}).wave = Point.signal[t]
  BY <1>3 DEF Measured
<1> QED BY <1>1, <1>2, <1>3, <1>4, <1>5 DEF Settings, RowOf

LEMMA SweepMeasures == SweepInv /\ MeasureBands => SweepInv'
<1> SUFFICES ASSUME SweepInv, MeasureBands PROVE SweepInv'
  OBVIOUS
<1>1. /\ pc = "measure" /\ UNCHANGED <<sweep, lo>> /\ points' = Tail(points)
      /\ results' = Append(results, [t \in Tx |-> Settings(Measured(t, {OrxOf[t]}))])
      /\ pc' \in {"point", "stopped"}
      /\ sweep \in 1 .. Len(Sweeps) /\ Given(Sweeps[sweep]) /\ Aligned(PointsOf(Sweeps[sweep]))
      /\ points # <<>> /\ \A l \in Los : Point.lo[l] # 0 => lo[l] = Point.lo[l]
      /\ \A t \in Tx : atten[t] = Point.power[t]
      /\ on = Point.signal /\ Readable
  BY DEF MeasureBands, SweepInv, Running
<1>2. PICK P : P = PointsOf(Sweeps[sweep]) /\ Aligned(P)
  BY <1>1
<1>3. PICK row : row = [t \in Tx |-> Settings(Measured(t, {OrxOf[t]}))]
  OBVIOUS
<1>4. row = RowOf(Point)
  <2>1. \A t \in Tx : Settings(Measured(t, {OrxOf[t]})) = RowOf(Point)[t]
    BY <1>1, PointMeasured
  <2>2. RowOf(Point) = [t \in Tx |-> RowOf(Point)[t]]
    BY DEF RowOf
  <2> QED BY <1>3, <2>1, <2>2
<1>5. PICK n \in Nat : /\ n = Len(results) /\ n + 1 \in 1 .. Len(P) /\ Point = P[n + 1]
                       /\ Len(points) \in Nat \ {0}
  BY <1>1, <1>2, PointInPlan
<1>6. /\ points' \in Seq(Items(P)) /\ Len(points') = Len(points) - 1
      /\ \A i \in 1 .. Len(points) - 1 : points'[i] = points[i + 1]
  BY <1>1, <1>2, TailFacts DEF Aligned
<1>7. /\ results' \in Seq(Items(results')) /\ Len(results') = n + 1
      /\ \A i \in 1 .. n : results'[i] = results[i]
      /\ results'[n + 1] = row
  <2>1. results \in Seq(Items(results)) /\ results' = Append(results, row)
    BY <1>1, <1>2, <1>3 DEF Aligned
  <2>2. results' \in Seq(Items(results'))
    BY <2>1, AppendItems
  <2> QED BY <1>5, <2>1, <2>2
<1>8. \A i \in 1 .. Len(points') : points'[i] = P[(n + 1) + i]
  <2>1. ASSUME NEW i \in 1 .. Len(points') PROVE points'[i] = P[(n + 1) + i]
    <3>1. i + 1 \in 1 .. Len(points) /\ i \in 1 .. Len(points) - 1
      BY <1>5, <1>6
    <3>2. points[i + 1] = P[n + (i + 1)]
      BY <1>2, <1>5, <3>1 DEF Aligned
    <3>3. n + (i + 1) = (n + 1) + i
      BY <3>1
    <3> QED BY <1>6, <3>1, <3>2, <3>3
  <2> QED BY <2>1
<1>9. \A i \in 1 .. n + 1 : results'[i] = RowOf(P[i])'
  <2>1. \A i \in 1 .. n + 1 : RowOf(P[i])' = RowOf(P[i])
    BY <1>1 DEF RowOf
  <2>2. \A i \in 1 .. n : results'[i] = RowOf(P[i])
    BY <1>2, <1>5, <1>7 DEF Aligned
  <2>3. results'[n + 1] = RowOf(P[n + 1])
    BY <1>4, <1>5, <1>7
  <2> QED BY <2>1, <2>2, <2>3
<1>10. Len(results') + Len(points') = Len(P)
  BY <1>2, <1>5, <1>6, <1>7 DEF Aligned
<1>11. Aligned(P)'
  BY <1>6, <1>7, <1>8, <1>9, <1>10 DEF Aligned
<1> QED BY <1>1, <1>2, <1>11 DEF SweepInv, Running

(* Every other step leaves the sweep, or is of another job.                *)
LEMMA SweepLeaves ==
  ASSUME [Next]_vars, ~BeginSweep, ~ApplyLos, ~ApplyBands, ~TransmitPoint, ~LevelBands,
         ~MeasureBands
  PROVE  pc' \notin Running \/ UNCHANGED vars
<1> USE DEF Running
<1>1. CASE BeginReplay \/ BeginCommand \/ BeginLinearize \/ BeginSurvey
  BY <1>1 DEF MayBegin, BeginReplay, BeginCommand, BeginLinearize, BeginSurvey, Begin
<1>2. CASE FirstLo \/ Open \/ TakeSource \/ DisableTx \/ RetuneLo \/ SetTxAtten \/ SetRxGain
  BY <1>2 DEF FirstLo, Open, TakeSource, DisableTx, AfterQuiet, RetuneLo, SetTxAtten, SetRxGain
<1>3. CASE TransmitStored \/ CapturePoint \/ KeepInput \/ SaveOutput \/ AppendRow
  BY <1>3 DEF TransmitStored, CapturePoint, KeepInput, SaveOutput, AppendRow
<1>4. CASE AppendIteration \/ SaveSignal \/ StartAtten \/ FindLock \/ LevelOrx \/ AppendCondition
  BY <1>4 DEF AppendIteration, SaveSignal, StartAtten, FindLock, LevelOrx, AppendCondition
<1>5. CASE EndSweep \/ Fail \/ Finish \/ Kill \/ Done \/ UNCHANGED vars
  BY <1>5 DEF EndSweep, Fail, Finish, Kill, Done
<1> QED BY <1>1, <1>2, <1>3, <1>4, <1>5 DEF Next

LEMMA SweepNext == SweepInv /\ [Next]_vars => SweepInv'
<1> SUFFICES ASSUME SweepInv, [Next]_vars PROVE SweepInv'
  OBVIOUS
<1>1. CASE BeginSweep
  BY <1>1, SweepBegins
<1>2. CASE ApplyLos \/ ApplyBands
  BY <1>2, SweepLos, SweepBands
<1>3. CASE TransmitPoint \/ LevelBands \/ MeasureBands
  BY <1>3, SweepTransmits, SweepLevels, SweepMeasures
<1>4. CASE pc' \notin Running
  BY <1>4 DEF SweepInv
<1>5. CASE UNCHANGED vars
  <2>1. UNCHANGED <<pc, sweep, points, results, lo, atten, on>>
    BY <1>5 DEF vars, planVars, radioVars
  <2>2. \A P : Aligned(P) => Aligned(P)'
    BY <2>1, AlignedStays
  <2> QED BY <2>1, <2>2 DEF SweepInv, Point, Readable
<1> QED BY <1>1, <1>2, <1>3, <1>4, <1>5, SweepLeaves

LEMMA SweptIsPlan == SweepInv => SweepMeasuresThePlan
<1> SUFFICES ASSUME SweepInv, pc = "swept"
             PROVE  LET s == Sweeps[sweep]
                    IN  /\ Items(results) = {Planned(s, g) : g \in PlanChoices(s.blocks)}
                        /\ Len(results) = PlanSize(s.blocks)
  BY DEF SweepMeasuresThePlan
<1>1. PICK s, P : /\ s = Sweeps[sweep] /\ P = PointsOf(s) /\ Given(s) /\ Aligned(P)
                  /\ points = <<>>
  BY DEF SweepInv, Running
<1>2. PICK n \in Nat : n = Len(results) /\ n = Len(P)
  BY <1>1 DEF Aligned
<1>3. /\ n = PlanSize(s.blocks)
      /\ \A i \in 1 .. n :
           \E c \in Picks(BlockSizes(s.blocks), Len(s.blocks)) : P[i] = PointAt(s, c)
      /\ \A c \in Picks(BlockSizes(s.blocks), Len(s.blocks)) :
           \E i \in 1 .. n : P[i] = PointAt(s, c)
  BY <1>1, <1>2, PointsFacts
<1>4. \A i \in 1 .. n : results[i] = RowOf(P[i])
  BY <1>1, <1>2 DEF Aligned
<1>5. ASSUME NEW i \in 1 .. n PROVE \E g \in PlanChoices(s.blocks) : results[i] = Planned(s, g)
  <2>1. PICK c \in Picks(BlockSizes(s.blocks), Len(s.blocks)) : P[i] = PointAt(s, c)
    BY <1>3
  <2>2. RowOf(PointAt(s, c)) = Planned(s, IndexOf(s.blocks, c))
    BY <1>1, RowPlanned
  <2>3. IndexOf(s.blocks, c) \in PlanChoices(s.blocks)
    BY <1>1, IndexInPlan DEF Given
  <2> QED BY <1>4, <2>1, <2>2, <2>3
<1>6. ASSUME NEW g \in PlanChoices(s.blocks) PROVE \E i \in 1 .. n : results[i] = Planned(s, g)
  <2>1. PICK c \in Picks(BlockSizes(s.blocks), Len(s.blocks)) : g = IndexOf(s.blocks, c)
    BY <1>1, IndexCovers DEF Given
  <2>2. PICK i \in 1 .. n : P[i] = PointAt(s, c)
    BY <1>3
  <2>3. RowOf(PointAt(s, c)) = Planned(s, IndexOf(s.blocks, c))
    BY <1>1, RowPlanned
  <2> QED BY <1>4, <2>1, <2>2, <2>3
<1>7. Items(results) = {Planned(s, g) : g \in PlanChoices(s.blocks)}
  BY <1>2, <1>5, <1>6 DEF Items
<1> QED BY <1>1, <1>2, <1>3, <1>7

(* A sweep that comes to its end has measured, for every plan, every point *)
(* the plan asks for and no other, each band at that point's LO, power and *)
(* signal, and as many points as the summary announced, whatever earlier   *)
(* jobs left on the radio (iter_sweep_points, apply_sweep_point,           *)
(* run_planned_sweep, summarize_sweep_plan).                               *)
THEOREM SweepsMeasurePlans == Spec => []SweepMeasuresThePlan
  BY SweepInit, SweepNext, SweptIsPlan, PTL DEF Spec
=============================================================================
