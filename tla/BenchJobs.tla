----------------------------- MODULE BenchJobs -----------------------------
(***************************************************************************)
(* The measurement jobs that play stored settings: replay_conditions of    *)
(* src/adrvtrx/replay.py, the command `adrvtrx replay` of cli.py,          *)
(* linearize of linearize.py, run_planned_sweep of sweep_plan.py and the   *)
(* survey of operating points of notebooks/pa_operating_sweep.ipynb, with  *)
(* the conditions log and the aligned capture they record with.            *)
(*                                                                         *)
(* The jobs run one after the other (they hold the board's lease) on one   *)
(* radio and into one folder, whatever an earlier job left in either.  Any *)
(* call on the radio and any file may fail, and the process may be killed  *)
(* at any point.  What the converters see is modelled by the settings it   *)
(* was measured at: an ORx reads whatever TX its converter is given, at    *)
(* the frequency, attenuation and waveform that TX plays.                  *)
(***************************************************************************)
EXTENDS SweepPlan, Readback

CONSTANTS
  Tx,          \* the channels in use
  TxOrder,     \* bands in the order of the caller
  LoOrder,     \* <<"LO1", "LO2">>
  LoOf,        \* lo_for_tx per channel
  OrxOf,       \* orx_for_tx per channel
  RxInit,      \* the channels of rx_init_mask
  Freqs, Levels, Gains, Waves,
  MHz,         \* 1_000_000, in the unit of Freqs
  LengthOf,    \* samples of a waveform
  StemOf,      \* Path(signal_path).stem of a waveform's file
  Silent,      \* not a waveform: the TX is off
  Rows, Saved, \* the rows of the saved conditions: Saved[n] for each n of Rows
  Replays,     \* the rows replay_conditions is given, of one channel
  Commands,    \* the rows `adrvtrx replay` is given
  Labels,      \* and its labels, in order
  Sweeps,      \* a sequence of [blocks, given, own]: what run_planned_sweep is given
  Surveys,     \* [tx, signals, freqs, backoffs] of the survey, a signal a
               \* [bw, wave]
  StartLevel, MaxLevel,
  MaxIter,     \* n_iter
  MaxJobs      \* bound: jobs begun

Los == Items(LoOrder)
Upto(s, n) == {s[i] : i \in (1 .. n) \cap DOMAIN s}

(* A saved condition.  ref is its input x, u the waveform that is played   *)
(* there, array when the caller gives it as an array and not as a file.    *)
Conditions ==
  [tx : Tx, freq : Freqs, bw : Nat, backoff : Nat, level : Levels, gain : Gains,
   ref : Waves, u : Waves, array : BOOLEAN]

(* What a condition and its files are called.  It says neither the signal  *)
(* nor the frequency below a MHz: two conditions may have one name.        *)
ConditionName(tx, backoff, freq, bw) == <<tx, backoff, freq \div MHz, bw>>
NameOf(c) == ConditionName(c.tx, c.backoff, c.freq, c.bw)

(* A condition to be played, as the jobs queue it: turn counts the LO      *)
(* settings of a survey, first marks a survey's first use of a signal.     *)
Played(c, label, u, array) ==
  [name |-> NameOf(c), label |-> label, tx |-> c.tx, freq |-> c.freq, backoff |-> c.backoff,
   level |-> c.level, gain |-> c.gain, ref |-> c.ref, u |-> u, array |-> array,
   turn |-> 0, first |-> FALSE]

ASSUME BenchAssumption ==
  /\ TxOrder \in Seq(Tx) /\ Items(TxOrder) = Tx /\ LoOrder \in Seq(Los)
  /\ \A i, j \in 1 .. Len(TxOrder) : TxOrder[i] = TxOrder[j] => i = j
  /\ LoOf \in [Tx -> Los] /\ OrxOf \in [Tx -> Orx] /\ RxInit \subseteq Nat
  /\ Freqs \subseteq Nat \ {0} /\ MHz \in Nat \ {0} /\ Levels \subseteq Nat /\ Gains \subseteq Nat
  /\ StartLevel \in Nat /\ MaxLevel \in Nat
  /\ Silent \notin Waves /\ LengthOf \in [Waves -> Nat] /\ StemOf \in [Waves -> STRING]
  /\ \A n \in Rows : Saved[n] \in Conditions
  /\ \A r \in Replays : r \in Seq(Rows) /\ \A n, m \in Items(r) : Saved[n].tx = Saved[m].tx
  /\ \A c \in Commands : c \in Seq(Rows)
  /\ Labels \in Seq(STRING)
  /\ \A s \in Surveys :
       /\ s.tx \in Tx
       /\ s.signals \in Seq([bw : Nat, wave : Waves])
       /\ s.freqs \in Seq(Freqs) /\ s.backoffs \in Seq(Nat)
  /\ MaxIter \in Nat \ {0} /\ MaxJobs \in Nat

(* The axes of a plan's blocks, each by its block and its place in it.     *)
Cells(blocks) == UNION {{b} \X (1 .. Len(blocks[b].axes)) : b \in 1 .. Len(blocks)}
Axis(blocks, c) == blocks[c[1]].axes[c[2]]

IsList(s) == s \in Seq(Items(s))

(* A plan is one dictionary per kind of setting: no setting is named       *)
(* twice.  The settings of an LO are frequencies.                          *)
ASSUME SweepAssumption ==
  \A n \in 1 .. Len(Sweeps) :
    LET s == Sweeps[n] IN
      /\ IsList(s.blocks) /\ \A b \in 1 .. Len(s.blocks) : IsList(s.blocks[b].axes)
      /\ \A c \in Cells(s.blocks) :
           /\ IsList(Axis(s.blocks, c).values)
           /\ \A l \in Los :
                Axis(s.blocks, c).key = <<"lo", l>>
                  => Items(Axis(s.blocks, c).values) \subseteq Freqs
           /\ \A d \in Cells(s.blocks) : Axis(s.blocks, c).key = Axis(s.blocks, d).key => c = d
      /\ \A l \in DOMAIN s.given.lo : s.given.lo[l] \in Freqs

VARIABLES
  (* the radio *)
  lo,        \* the frequency of each LO
  atten, gain,
  on,        \* what each TX plays, or Silent
  orx,       \* the enabled Rx and ORx inputs
  (* the folder *)
  files,     \* what each file holds, a capture or a waveform, and (history)
             \* which row of its CSV it was last written for
  log,       \* the rows of each label's CSV
  (* the job *)
  pc,
  kind,      \* "replay", "command", "linearize", "survey" or "sweep"
  steps,     \* what is left to play
  current,   \* current_freq, 0 before the first row
  tuned,     \* history: the LO the job set last
  it,        \* the iteration of linearize
  shot,      \* the capture in hand
  points,    \* the sweep points left
  sweep,     \* which of Sweeps is run, 0 for none
  results,   \* what the sweep's action measured, per point
  offFailed, \* disable_tx raised at the end (swallowed)
  jobs       \* jobs begun

radioVars == <<lo, atten, gain, on, orx>>
folderVars == <<files, log>>
planVars == <<kind, steps, current, tuned, it, points, sweep, results, jobs>>
vars == <<radioVars, folderVars, planVars, pc, shot, offFailed>>

NoShot == [of |-> {}, freq |-> 0, level |-> 0, gain |-> 0, wave |-> Silent]
Quiet == [t \in Tx |-> Silent]

Init ==
  /\ lo \in [Los -> Freqs]
  /\ atten = [t \in Tx |-> CHOOSE a \in Levels : TRUE]
  /\ gain = [t \in Tx |-> CHOOSE g \in Gains : TRUE]
  /\ on = Quiet /\ orx = {}
  /\ files = Nothing /\ log = Nothing
  /\ pc = "idle" /\ kind = "none" /\ steps = <<>> /\ current = 0 /\ tuned = "none" /\ it = 0
  /\ shot = NoShot /\ points = <<>> /\ sweep = 0 /\ results = <<>>
  /\ offFailed = FALSE /\ jobs = 0

-----------------------------------------------------------------------------
(* What the code derives from its arguments.                               *)

(* replay_conditions: the rows in the order of (freq, bw, backoff).        *)
Before(n, m) ==
  \/ Saved[n].freq < Saved[m].freq
  \/ Saved[n].freq = Saved[m].freq /\ Saved[n].bw < Saved[m].bw
  \/ Saved[n].freq = Saved[m].freq /\ Saved[n].bw = Saved[m].bw
     /\ Saved[n].backoff < Saved[m].backoff

(* sorted() is stable: rows of one key stay in the order they came in.     *)
Sorted(names) ==
  LET at == 1 .. Len(names)
      inOrder(i, j) == \/ Before(names[i], names[j])
                       \/ ~Before(names[j], names[i]) /\ i < j
  IN  {[i \in at |-> names[p[i]]] :
         p \in {q \in Bijection(at, at) : \A i, j \in at : i < j => inOrder(q[i], q[j])}}

RowsOf == [r \in Replays |-> Sorted(r)]

(* sources[row.name]: the rows of one name play what the last of them was  *)
(* given (the command's waveform files are named by the row's name).       *)
SourceRows(rows) ==
  LET at == 1 .. Len(rows)
      alike(i, j) == NameOf(Saved[rows[i]]) = NameOf(Saved[rows[j]])
  IN  {from \in [at -> at] :
         \A i \in at : alike(i, from[i]) /\ \A j \in at : alike(i, j) => j <= from[i]}

ReplayPlan(rows, from) ==
  [i \in 1 .. Len(rows) |->
     LET source == Saved[rows[from[i]]]
     IN  Played(Saved[rows[i]], "dpd", source.u, source.array)]

(* adrvtrx replay: every label at every row, the rows as they come; the    *)
(* label "input" plays the row's own input.                                *)
CommandPlan(rows, from) ==
  LET n == Len(Labels)
      at(i) == ((i - 1) \div n) + 1
      row(i) == Saved[rows[at(i)]]
      label(i) == Labels[((i - 1) % n) + 1]
  IN  [i \in 1 .. Len(rows) * n |->
         Played(row(i), label(i),
                IF label(i) = "input" THEN row(i).ref ELSE Saved[rows[from[at(i)]]].u, FALSE)]

(* The survey: every signal at every frequency, locked there, then backed  *)
(* off step by step.  The level of a step is known once it is locked, the  *)
(* gain once it is leveled.                                                *)
SurveyPlan(s) ==
  LET nf == Len(s.freqs)
      nb == Len(s.backoffs)
      turn(i) == (i - 1) \div nb
      signal(i) == s.signals[(turn(i) \div nf) + 1]
      freq(i) == s.freqs[(turn(i) % nf) + 1]
      backoff(i) == s.backoffs[((i - 1) % nb) + 1]
  IN  [i \in 1 .. Len(s.signals) * nf * nb |->
         [name |-> ConditionName(s.tx, backoff(i), freq(i), signal(i).bw),
          label |-> "conditions", tx |-> s.tx, freq |-> freq(i), backoff |-> backoff(i),
          level |-> StartLevel, gain |-> 0, ref |-> signal(i).wave, u |-> signal(i).wave,
          array |-> TRUE, turn |-> turn(i) + 1, first |-> (i - 1) % (nf * nb) = 0]]

Step == steps[1]
File(what) == <<Step.name, Step.label, it, what>>
NextRow == Len(log[Step.label]) + 1
Written(f, content) ==
  [g \in {f} \cup DOMAIN files |->
     IF g = f THEN [holds |-> content, row |-> NextRow] ELSE files[g]]

RxOrder == ReturnedOrder(RxInit)

(* One snapshot of a channel's ORx: the inputs whose samples are at the    *)
(* position read for it, and the settings that TX plays with.              *)
Measured(t, enabled) ==
  LET slot == ChannelSlot(OrxOf[t], RxOrder)
  IN  [of |-> CaptureArrays(Snapshot(RxOrder, enabled), {slot})[slot],
       freq |-> lo[LoOf[t]], level |-> atten[t], gain |-> gain[t], wave |-> on[t]]

-----------------------------------------------------------------------------
(* The jobs begin.  A missing reference or waveform refuses a replay       *)
(* before its CSV is opened, an invalid argument before anything is done.  *)

MayBegin == pc = "idle" /\ jobs < MaxJobs

Begin(k, plan, first) ==
  /\ jobs' = jobs + 1 /\ kind' = k /\ steps' = plan /\ pc' = first
  /\ current' = 0 /\ tuned' = "none" /\ it' = 0 /\ results' = <<>> /\ offFailed' = FALSE
  /\ shot' = NoShot
  /\ UNCHANGED folderVars

BeginReplay ==
  /\ MayBegin
  /\ \E r \in Replays :
       \/ \E rows \in RowsOf[r] : \E from \in SourceRows(rows) :
            Begin("replay", ReplayPlan(rows, from), "open")
       \/ Begin("replay", <<>>, "idle")             \* _preflight refuses
  /\ UNCHANGED <<radioVars, points, sweep>>

BeginCommand ==
  /\ MayBegin
  /\ \E c \in Commands :
       \/ \E from \in SourceRows(c) : Begin("command", CommandPlan(c, from), "open")
       \/ Begin("command", <<>>, "idle")            \* problems, or no board
  /\ UNCHANGED <<radioVars, points, sweep>>

BeginLinearize ==
  /\ MayBegin
  /\ \E n \in Rows :
       Begin("linearize", <<Played(Saved[n], "ila", Saved[n].u, TRUE)>>, "open")
  /\ UNCHANGED <<radioVars, points, sweep>>

(* The survey's notebook connects and programs first: TX off, the          *)
(* attenuation at its start, the LO at the first frequency.                *)
BeginSurvey ==
  /\ MayBegin
  /\ \E s \in Surveys :
       /\ Begin("survey", SurveyPlan(s), "session")
       /\ atten' = [atten EXCEPT ![s.tx] = StartLevel]
  /\ on' = Quiet /\ orx' = {}
  /\ UNCHANGED <<lo, gain, points, sweep>>

TunesLo ==
  /\ lo' = [lo EXCEPT ![LoOf[Step.tx]] = Step.freq]
  /\ tuned' = LoOf[Step.tx]
  /\ UNCHANGED <<kind, steps, current, it, points, sweep, results, jobs>>

FirstLo ==
  /\ pc = "session" /\ pc' = "open"
  /\ TunesLo
  /\ UNCHANGED <<atten, gain, on, orx, folderVars, shot, offFailed>>

BeginSweep ==
  /\ MayBegin
  /\ \E n \in 1 .. Len(Sweeps) :
       LET s == Sweeps[n] IN
       /\ \A i \in 1 .. Len(s.blocks) : WellFormed(s.blocks[i])
       /\ HasPower(s.given, s.own, Tx)
       /\ Begin("sweep", <<>>, "point")
       /\ sweep' = n
       /\ points' = SweepPoints(s.blocks, ResolveDefaults(s.given, s.own, Los, Tx), Tx)
  /\ UNCHANGED radioVars

(* ConditionLog without append: the label's CSV is begun anew.             *)
Open ==
  /\ pc = "open"
  /\ LET begun == {steps[i].label : i \in 1 .. Len(steps)}
     IN  log' = [l \in begun \cup DOMAIN log |-> IF l \in begun THEN <<>> ELSE log[l]]
  /\ pc' = IF steps = <<>> THEN "finish"
           ELSE CASE kind = "linearize" -> "quiet"
                  [] kind = "survey" -> "signal"
                  [] OTHER -> "source"
  /\ UNCHANGED <<radioVars, files, planVars, shot, offFailed>>

-----------------------------------------------------------------------------
(* One row.  replay_row: the source, the LO with TX off when the frequency *)
(* changes, attenuation, gain, playback, capture, file.  linearize sets    *)
(* the condition first and then plays one waveform after the other.        *)

RetunesFirst == kind = "linearize" \/ current = 0
Retunes == kind = "linearize" \/ Step.freq # current

TakeSource ==
  /\ pc = "source"
  /\ LET u == Step.u IN
     /\ files' = IF Step.array /\ kind # "linearize" THEN Written(File("in"), u) ELSE files
     /\ pc' = IF LengthOf[u] # LengthOf[Step.ref] THEN "finish"      \* ValueError
              ELSE IF kind = "linearize" THEN "play"
              ELSE IF Retunes THEN "quiet" ELSE "atten"
  /\ UNCHANGED <<radioVars, log, planVars, shot, offFailed>>

AfterQuiet ==
  IF kind # "survey" THEN "tune" ELSE IF steps = <<>> THEN "finish" ELSE "signal"

DisableTxNot ==
  /\ pc = "quiet" /\ pc' = AfterQuiet
  /\ UNCHANGED <<radioVars, folderVars, planVars, shot, offFailed>>

DisableTx ==
  /\ pc = "quiet" /\ pc' = AfterQuiet /\ on' = Quiet
  /\ UNCHANGED <<lo, atten, gain, orx, folderVars, planVars, shot, offFailed>>

RetuneLo ==
  /\ pc = "tune" /\ pc' = IF kind = "survey" THEN "play" ELSE "atten"
  /\ TunesLo
  /\ UNCHANGED <<atten, gain, on, orx, folderVars, shot, offFailed>>

SetTxAtten ==
  /\ pc = "atten" /\ pc' = "gain"
  /\ atten' = [atten EXCEPT ![Step.tx] = Step.level]
  /\ UNCHANGED <<lo, gain, on, orx, folderVars, planVars, shot, offFailed>>

SetRxGain ==
  /\ pc = "gain" /\ kind # "survey"
  /\ pc' = IF kind = "linearize" THEN "source" ELSE "play"
  /\ gain' = [gain EXCEPT ![Step.tx] = Step.gain]
  /\ UNCHANGED <<lo, atten, on, orx, folderVars, planVars, shot, offFailed>>

(* transmit_stored: the waveform of one TX, the others off; a perform_tx   *)
(* that raises has switched every TX off.                                  *)
TransmitStored ==
  /\ pc = "play"
  /\ \/ /\ on' = [Quiet EXCEPT ![Step.tx] = Step.u]
        /\ pc' = IF kind = "survey" THEN "lock" ELSE "capture"
     \/ on' = Quiet /\ pc' = "finish"
  /\ UNCHANGED <<lo, atten, gain, orx, folderVars, planVars, shot, offFailed>>

(* capture_point: the input's enable mask is absolute; an ORx still empty  *)
(* after its retakes raises (Fail).                                        *)
EnableOrx(channels) == orx' = (RxInit \cap MainRx) \cup channels

CapturePoint ==
  /\ pc = "capture"
  /\ EnableOrx({OrxOf[Step.tx]})
  /\ IF ChannelSlot(OrxOf[Step.tx], RxOrder) = 0
     THEN pc' = "finish" /\ UNCHANGED shot                    \* ValueError
     ELSE /\ shot' = Measured(Step.tx, orx')
          /\ pc' = IF kind = "linearize" THEN "keep" ELSE "save"
  /\ UNCHANGED <<lo, atten, gain, on, folderVars, planVars, offFailed>>

KeepInput ==
  /\ pc = "keep" /\ pc' = "save" /\ files' = Written(File("in"), Step.u)
  /\ UNCHANGED <<radioVars, log, planVars, shot, offFailed>>

SaveOutput ==
  /\ pc = "save" /\ pc' = "note" /\ files' = Written(File("out"), shot)
  /\ UNCHANGED <<radioVars, log, planVars, shot, offFailed>>

InFile ==
  IF kind = "survey" THEN <<"signal", StemOf[Step.u]>> ELSE IF Step.array THEN File("in") ELSE <<>>

Record ==
  [tx |-> Step.tx, freq |-> Step.freq, level |-> Step.level, gain |-> Step.gain,
   u |-> Step.u, lo |-> tuned, got |-> shot, in |-> InFile, out |-> File("out")]

Noted == log' = [log EXCEPT ![Step.label] = Append(@, Record)]

(* replay: the next row, or the end.                                       *)
AppendRow ==
  /\ pc = "note" /\ kind \in {"replay", "command"} /\ Noted
  /\ current' = Step.freq /\ steps' = Tail(steps)
  /\ pc' = IF Len(steps) = 1 THEN "finish" ELSE "source"
  /\ UNCHANGED <<radioVars, files, kind, tuned, it, points, sweep, results, jobs,
                 shot, offFailed>>

(* linearize: it ends on a rail, at n_iter, or when step returns None;     *)
(* else step gives the next waveform.                                      *)
AppendIteration ==
  /\ pc = "note" /\ kind = "linearize" /\ Noted
  /\ \/ pc' = "finish" /\ UNCHANGED <<steps, it>>
     \/ /\ it < MaxIter - 1 /\ it' = it + 1 /\ pc' = "source"
        /\ \E u \in Waves : steps' = [steps EXCEPT ![1].u = u]
  /\ UNCHANGED <<radioVars, files, kind, current, tuned, points, sweep, results, jobs,
                 shot, offFailed>>

(* The survey.  A signal's own file, once; then for each frequency the     *)
(* start attenuation, the LO, playback, and the search for the lock, which *)
(* leaves any attenuation and gain (OperatingPoint).                       *)
SaveSignal ==
  /\ pc = "signal" /\ pc' = "start"
  /\ files' = IF Step.first THEN Written(InFile, Step.u) ELSE files
  /\ UNCHANGED <<radioVars, log, planVars, shot, offFailed>>

StartAtten ==
  /\ pc = "start" /\ pc' = "tune"
  /\ atten' = [atten EXCEPT ![Step.tx] = StartLevel]
  /\ UNCHANGED <<lo, gain, on, orx, folderVars, planVars, shot, offFailed>>

BackedOff(level, k) == IF level + k > MaxLevel THEN MaxLevel ELSE level + k

FindLock ==
  /\ pc = "lock" /\ pc' = "atten"
  /\ EnableOrx({OrxOf[Step.tx]})
  /\ \E a \in Levels, g \in Gains :
       /\ atten' = [atten EXCEPT ![Step.tx] = a]
       /\ gain' = [gain EXCEPT ![Step.tx] = g]
       /\ steps' = [i \in DOMAIN steps |->
                      IF steps[i].turn = Step.turn
                      THEN [steps[i] EXCEPT !.level = BackedOff(a, steps[i].backoff)] ELSE steps[i]]
  /\ UNCHANGED <<lo, on, folderVars, kind, current, tuned, it, points, sweep, results,
                 jobs, shot, offFailed>>

(* autolevel_capture after each back-off: the gain it ends at is the row's.*)
LevelOrx ==
  /\ pc = "gain" /\ kind = "survey" /\ pc' = "capture"
  /\ EnableOrx({OrxOf[Step.tx]})
  /\ \E g \in Gains : /\ gain' = [gain EXCEPT ![Step.tx] = g]
                      /\ steps' = [steps EXCEPT ![1].gain = g]
  /\ UNCHANGED <<lo, atten, on, folderVars, kind, current, tuned, it, points, sweep, results,
                 jobs, shot, offFailed>>

AppendCondition ==
  /\ pc = "note" /\ kind = "survey" /\ Noted
  /\ steps' = Tail(steps)
  /\ pc' = IF Len(steps) > 1 /\ steps[2].turn = Step.turn THEN "atten" ELSE "quiet"
  /\ UNCHANGED <<radioVars, files, kind, current, tuned, it, points, sweep, results, jobs,
                 shot, offFailed>>

-----------------------------------------------------------------------------
(* run_planned_sweep: apply_sweep_point, then the caller's action, which   *)
(* captures every band on its ORx.                                         *)

Point == points[1]

ApplyLos ==
  /\ pc = "point"
  /\ IF points = <<>> THEN pc' = "swept" /\ UNCHANGED lo
     ELSE /\ \E n \in 1 .. Len(LoOrder) + 1 :     \* the first that fails to lock
               /\ lo' = [l \in Los |->
                           IF Point.lo[l] # 0 /\ l \in Upto(LoOrder, n)
                           THEN Point.lo[l] ELSE lo[l]]
               /\ pc' = IF n > Len(LoOrder) THEN "bands" ELSE "stopped"
  /\ UNCHANGED <<atten, gain, on, orx, folderVars, planVars, shot, offFailed>>

(* A signal that is no file cannot be loaded, the lengths must agree.      *)
Loadable == \A b \in Tx : Point.signal[b] \in Waves
OneLength == Loadable /\ \A b, c \in Tx : LengthOf[Point.signal[b]] = LengthOf[Point.signal[c]]

ApplyBands ==
  /\ pc = "bands"
  /\ \E n \in 1 .. Len(TxOrder) + 1 :             \* the first band that fails
       /\ atten' = [t \in Tx |-> IF t \in Upto(TxOrder, n)
                                 THEN Point.power[t] ELSE atten[t]]
       /\ pc' = IF n > Len(TxOrder) /\ OneLength THEN "transmit" ELSE "stopped"
  /\ UNCHANGED <<lo, gain, on, orx, folderVars, planVars, shot, offFailed>>

TransmitPoint ==
  /\ pc = "transmit"
  /\ \/ on' = Point.signal /\ pc' = "action"
     \/ on' = Quiet /\ pc' = "stopped"
  /\ UNCHANGED <<lo, atten, gain, orx, folderVars, planVars, shot, offFailed>>

(* What a sweep's row says of a capture, but for the gain it ended at.     *)
Settings(got) == [of |-> got.of, freq |-> got.freq, level |-> got.level, wave |-> got.wave]

(* The notebook's action: every band's ORx is leveled, wherever that ends, *)
(* then every band is captured on it.  The caller may stop the sweep after *)
(* any point.                                                              *)
Readable == \A t \in Tx : ChannelSlot(OrxOf[t], RxOrder) # 0

LevelBands ==
  /\ pc = "action" /\ pc' \in {"measure", "stopped"}
  /\ pc' = "measure" => Readable                            \* else ValueError
  /\ EnableOrx({OrxOf[TxOrder[Len(TxOrder)]]})
  /\ gain' \in [Tx -> Gains]
  /\ UNCHANGED <<lo, atten, on, folderVars, planVars, shot, offFailed>>

MeasureBands ==
  /\ pc = "measure"
  /\ EnableOrx({OrxOf[TxOrder[Len(TxOrder)]]})
  /\ results' = Append(results, [t \in Tx |-> Settings(Measured(t, {OrxOf[t]}))])
  /\ points' = Tail(points)
  /\ pc' \in {"point", "stopped"}
  /\ UNCHANGED <<lo, atten, gain, on, folderVars, kind, steps, current, tuned, it, sweep,
                 jobs, shot, offFailed>>

(* The notebooks switch TX off after a sweep that returned; one that       *)
(* raised has no finally: what plays goes on playing.                      *)
EndSweep ==
  /\ pc \in {"swept", "stopped"} /\ pc' = "idle"
  /\ \/ on' = Quiet
     \/ pc = "stopped" /\ on' = on
  /\ UNCHANGED <<lo, atten, gain, orx, folderVars, planVars, shot, offFailed>>

-----------------------------------------------------------------------------
InTry == {"signal", "start", "lock", "source", "quiet", "tune", "atten", "gain", "play",
          "capture", "keep", "save", "note"}

FailAtOnce ==
  /\ pc \in InTry /\ pc' = "idle"
  /\ UNCHANGED <<radioVars, folderVars, planVars, shot, offFailed>>

(* A radio call, a file, a callback or step raises: the finally is next.   *)
Fail ==
  /\ pc \in InTry /\ pc' = "finish"
  /\ UNCHANGED <<radioVars, folderVars, planVars, shot, offFailed>>

Finish ==
  /\ pc = "finish" /\ pc' = "idle"
  /\ \/ on' = Quiet /\ UNCHANGED offFailed
     \/ on' = on /\ offFailed' = TRUE
  /\ UNCHANGED <<lo, atten, gain, orx, folderVars, planVars, shot>>

(* The process dies; TX is off when it held the server's lease.            *)
Kill ==
  /\ pc # "idle" /\ pc' = "idle" /\ on' \in {on, Quiet} /\ offFailed' = TRUE
  /\ UNCHANGED <<lo, atten, gain, orx, folderVars, planVars, shot>>

Done == pc = "idle" /\ jobs = MaxJobs /\ UNCHANGED vars

Next ==
  \/ BeginReplay \/ BeginCommand \/ BeginLinearize \/ BeginSurvey \/ FirstLo \/ BeginSweep
  \/ Open \/ TakeSource \/ DisableTx \/ RetuneLo \/ SetTxAtten \/ SetRxGain
  \/ TransmitStored \/ CapturePoint \/ KeepInput \/ SaveOutput
  \/ AppendRow \/ AppendIteration
  \/ SaveSignal \/ StartAtten \/ FindLock \/ LevelOrx \/ AppendCondition
  \/ ApplyLos \/ ApplyBands \/ TransmitPoint \/ LevelBands \/ MeasureBands \/ EndSweep
  \/ Fail \/ Finish \/ Kill \/ Done

Spec == Init /\ [][Next]_vars
-----------------------------------------------------------------------------
TypeOK ==
  /\ lo \in [Los -> Freqs] /\ atten \in [Tx -> Levels] /\ gain \in [Tx -> Gains]
  /\ on \in [Tx -> Waves \cup {Silent}] /\ orx \subseteq MainRx \cup Orx
  /\ pc \in InTry \cup {"idle", "session", "open", "finish", "point", "bands", "transmit",
                        "action", "measure", "swept", "stopped"}
  /\ kind \in {"none", "replay", "command", "linearize", "survey", "sweep"}
  /\ it \in 0 .. MaxIter - 1 /\ offFailed \in BOOLEAN /\ jobs \in 0 .. MaxJobs

(* What a row of a results CSV says: the condition's frequency,            *)
(* attenuation and gain, read from its own ORx alone, with the waveform    *)
(* that the row's metrics are of.                                          *)
Claimed(e) ==
  [of |-> {OrxOf[e.tx]}, freq |-> e.freq, level |-> e.level, gain |-> e.gain, wave |-> e.u]

(* The LO is set once per frequency and the gain never read back, rows of  *)
(* several jobs share the folder, and a job may stop anywhere: every row   *)
(* of every CSV is nevertheless true of its capture, and every file that   *)
(* it names holds what was captured or played for it, until the file is    *)
(* written again for a later row (replay_row with retune and current_freq, *)
(* capture's absolute enable mask, the file written before the row, the    *)
(* log begun anew).  The one thing a row may have wrong is its frequency,  *)
(* where the job last set the other LO: `adrvtrx replay` retunes when the  *)
(* frequency changes, whatever LO the row before was on.                   *)
RowsTellTheTruth ==
  \A label \in DOMAIN log : \A i \in 1 .. Len(log[label]) :
    LET e == log[label][i]
        kept(f, content) ==
          f \in DOMAIN files /\ (files[f].row <= i => files[f].holds = content)
    IN  /\ e.got = IF e.lo = LoOf[e.tx] THEN Claimed(e)
                   ELSE [Claimed(e) EXCEPT !.freq = e.got.freq]
        /\ kept(e.out, e.got)
        /\ e.in # <<>> => kept(e.in, e.u)

(* No replay, command, linearisation or survey moves an LO while a TX      *)
(* plays, whatever the job before left on (replay_row's disable_tx before  *)
(* the retune, linearize's at its start).                                  *)
RetunesQuietly == [][lo' # lo /\ kind # "sweep" => on = Quiet]_vars

(* Wherever one of them stops, TX is off behind it, unless the process     *)
(* died or switching it off failed too (the finally of each).              *)
EndsQuiet ==
  [][pc # "idle" /\ pc' = "idle" /\ kind # "sweep" /\ ~offFailed' => on' = Quiet]_vars

(* The plan of a sweep, said without merging: one value per axis, one      *)
(* index for all the axes of a zip block, a band's power its own, else the *)
(* shared one, else the default.                                           *)
Values(blocks, c) == Axis(blocks, c).values

PlanChoices(blocks) ==
  {g \in [Cells(blocks) -> UNION {1 .. Len(Values(blocks, c)) : c \in Cells(blocks)}] :
     \A c \in Cells(blocks) : /\ g[c] <= Len(Values(blocks, c))
                              /\ blocks[c[1]].mode = "zip" => g[c] = g[<<c[1], 1>>]}

Chosen(blocks, g, key, default) ==
  IF \E c \in Cells(blocks) : Axis(blocks, c).key = key
  THEN LET c == CHOOSE x \in Cells(blocks) : Axis(blocks, x).key = key
       IN  Values(blocks, c)[g[c]]
  ELSE default

Planned(s, g) ==
  LET For(key, default) == Chosen(s.blocks, g, key, default)
  IN  [t \in Tx |->
         [of    |-> {OrxOf[t]},
          freq  |-> For(<<"lo", LoOf[t]>>, Get(s.given.lo, LoOf[t], lo[LoOf[t]])),
          level |-> For(<<"power", t>>,
                        For(<<"power", "shared">>, Get(s.given.power, t, s.own.power[t]))),
          wave  |-> For(<<"signal", t>>,
                        Get(s.given.signal, t, Get(s.own.signal, t, NoSignal)))]]

(* A sweep that came to its end measured every point its plan asks for,    *)
(* each band at that point's LO, power and signal, and as many points as   *)
(* the summary announced (_resolve_defaults, iter_sweep_points,            *)
(* apply_sweep_point, and summarize_sweep_plan's product of sizes).        *)
SweepMeasuresThePlan ==
  pc = "swept" =>
    LET s == Sweeps[sweep]
    IN  /\ Items(results) = {Planned(s, g) : g \in PlanChoices(s.blocks)}
        /\ Len(results) = PlanSize(s.blocks)
=============================================================================
