------------------------------- MODULE OrxAgc -------------------------------
(***************************************************************************)
(* The software gain control of one ORx: autolevel_capture of              *)
(* src/adrvtrx/capture.py over the stages of src/adrvtrx/gain.py.  Stage A *)
(* reads the level at the gain floor and jumps, stage B trims on short     *)
(* captures, stage C verifies on the full signal.  One capture and the     *)
(* decision on it is one step.                                             *)
(*                                                                         *)
(* The analog side is a bench: the signal's level, a gain table that need  *)
(* not be uniform, where the ADC rails and where an overdriven ORx returns *)
(* captures with no data, and by how much a short capture misses the peak. *)
(***************************************************************************)
EXTENDS OrxStep

CONSTANTS
  Benches,           \* the benches considered
  Ceiling,           \* the ORx saturates here, below full scale
  GainMin, GainMax,  \* ORX_GAIN_MIN, ORX_GAIN_MAX
  EmptyRetakes,      \* EMPTY_RETAKES
  StartMarginIdx,    \* ORX_START_MARGIN_IDX
  MaxTrims           \* max_iterations of stage B

BenchType ==
  [step : Nat, from : Int, to : Int, steep : Nat,     \* the gain table, dB per index
   signal : Int, short : Nat,                         \* level, and what a short capture misses
   overdrive : Int, rail : Int,                       \* levels of lost and of railed captures
   knee : Int, rise : Nat, slopeFrom : Int,           \* the PA
   job : {"level", "point"}, start : Int \cup {None}] \* what runs, start_gain

ASSUME BenchAssumption == Benches \subseteq BenchType

(* orx_clip_dbfs: a peak is a clip from ORX_CLIP_MARGIN_DB below the       *)
(* ceiling, so what has saturated is one.                                  *)
ASSUME GainAssumption ==
  /\ GainMin \in Int /\ GainMax \in Int /\ GainMin <= GainMax
  /\ EmptyRetakes \in Nat /\ StartMarginIdx \in Nat /\ MaxTrims \in Nat
  /\ Ceiling \in Int /\ ClipDbfs < Ceiling

(* No capture is taken for None.                                           *)
ASSUME NoneAssumption ==
  None \notin [drive : Nat, gain : Int, full : BOOLEAN, data : BOOLEAN, peak : Int,
               railed : BOOLEAN]

VARIABLES
  bench,    \* constant: what the radio is connected to
  radio,    \* "on": TX playing; "off": TX disabled; "gone": safe_state, disconnected
  atten,    \* the TX attenuation of the next capture
  gain,     \* the ORx gain index of the next capture
  stage,    \* where the level search is
  orx,      \* the OrxStep of the running search
  empties,  \* captures with no data in a row
  iter,     \* iterations of the running loop; in stage C, whether there was one
  last,     \* the last capture
  level     \* the LevelResult so far

agcVars == <<bench, radio, atten, gain, stage, orx, empties, iter, last, level>>

Clamp(g) == Larger(GainMin, Smaller(g, GainMax))

(* --- the bench -------------------------------------------------------- *)

(* The table: bench.step per index, bench.steep between two indices.       *)
Table(g) ==
  LET inside == Larger(0, Smaller(g, bench.to) - Larger(GainMin, bench.from))
  IN  bench.step * (g - GainMin - inside) + bench.steep * inside

Comp(a) == (Larger(0, bench.knee - a) * bench.rise) \div 100

FullLevel(a, g) == bench.signal - a - Comp(a) + Table(g)

Reading(v) == [data |-> TRUE, peak |-> Smaller(v, Ceiling), railed |-> v >= bench.rail]
NoData     == [data |-> FALSE, peak |-> Ceiling, railed |-> FALSE]

Readings(full) ==
  LET v == FullLevel(atten, gain) - (IF full THEN 0 ELSE bench.short)
  IN  {Reading(v)} \cup (IF v >= bench.overdrive THEN {NoData} ELSE {})

Capture(r, full) ==
  [drive |-> atten, gain |-> gain, full |-> full,
   data |-> r.data, peak |-> r.peak, railed |-> r.railed]

(* --- the stages ------------------------------------------------------- *)

Unleveled == [converged |-> FALSE, atMax |-> FALSE]

(* autolevel_orx from here: stage A at the floor, or with a start gain     *)
(* stage B from a few indices below it.                                    *)
StartStage == IF bench.start = None THEN "floor" ELSE "trim"
StartGain  == IF bench.start = None THEN GainMin ELSE Clamp(bench.start - StartMarginIdx)

(* A fatal stage: autolevel_capture leaves the bench safe and raises.      *)
Fatal ==
  /\ stage' = "error" /\ radio' = "gone"
  /\ UNCHANGED <<bench, atten, gain, orx, empties, iter, level>>

NoDataAgain(lower) ==
  /\ empties < EmptyRetakes
  /\ empties' = empties + 1
  /\ gain' = Clamp(gain - lower)
  /\ UNCHANGED <<bench, radio, atten, stage, orx, level>>

FloorEmpty(r) ==
  /\ ~r.data
  /\ \/ NoDataAgain(0) /\ UNCHANGED iter
     \/ empties = EmptyRetakes /\ Fatal

FloorTooStrong(r) == r.data /\ (Clipped(r) \/ r.peak >= BandLo) /\ Fatal

FloorJump(r) ==
  /\ r.data /\ ~Clipped(r) /\ r.peak < BandLo
  /\ gain' = Clamp(GainMin + RoundDiv(Target - r.peak, DbPerIndex))
  /\ stage' = "trim" /\ empties' = 0 /\ iter' = 0 /\ orx' = NewStep
  /\ UNCHANGED <<bench, radio, atten, level>>

Floor ==
  /\ stage = "floor"
  /\ \E r \in Readings(FALSE) :
        /\ last' = Capture(r, FALSE)
        /\ FloorEmpty(r) \/ FloorTooStrong(r) \/ FloorJump(r)

(* Stages A and B are over: stage C starts at their gain.                  *)
Settle(converged, atMax) ==
  /\ stage' = "verify" /\ level' = [converged |-> converged, atMax |-> atMax]
  /\ empties' = 0 /\ iter' = 0
  /\ UNCHANGED <<bench, radio, atten, gain>>

TrimEmpty(r) ==
  /\ ~r.data
  /\ \/ NoDataAgain(EmptyStepIdx) /\ iter' = iter + 1
     \/ empties = EmptyRetakes /\ Fatal

(* With a start gain, stage A's floor check is made here.                  *)
AtFatalFloor(r) == Clipped(r) /\ bench.start # None /\ gain <= GainMin

(* One-index steps jump the window: the capture closest to it is taken.    *)
TakesNearest(o, r) == ~InWindow(r) /\ o.jumped /\ o.near # None

Exhausted(o, r) == ~r.railed /\ ~TakesNearest(o, r) /\ r.peak < BandLo /\ gain >= GainMax

TrimSettles(o, r) ==
  /\ ~AtFatalFloor(r) /\ ~r.railed
  /\ \/ InWindow(r) /\ Settle(TRUE, FALSE)
     \/ TakesNearest(o, r) /\ o.near.gain = gain /\ Settle(FALSE, FALSE)
     \/ Exhausted(o, r) /\ Settle(FALSE, TRUE)

TrimTo(o, r) ==
  IF r.railed THEN gain - 1
  ELSE IF TakesNearest(o, r) THEN o.near.gain ELSE gain + StepFor(o, r)

TrimMoves(o, r) ==
  /\ ~AtFatalFloor(r)
  /\ r.railed \/ (~InWindow(r) /\ ~Exhausted(o, r))
  /\ r.railed \/ ~(TakesNearest(o, r) /\ o.near.gain = gain)
  /\ gain' = Clamp(TrimTo(o, r))
  /\ empties' = 0 /\ iter' = iter + 1
  /\ UNCHANGED <<bench, radio, atten, stage, level>>

TrimLevel(r) ==
  LET o == Observe(orx, Capture(r, FALSE))
  IN  /\ r.data
      /\ \/ AtFatalFloor(r) /\ Fatal
         \/ orx' = o /\ (TrimSettles(o, r) \/ TrimMoves(o, r))

Trim ==
  /\ stage = "trim" /\ iter < MaxTrims
  /\ \E r \in Readings(FALSE) :
        /\ last' = Capture(r, FALSE)
        /\ TrimEmpty(r) \/ TrimLevel(r)

(* max_iterations: the gain set last is taken as it is, unless the last    *)
(* capture had no data.                                                    *)
TrimsOver ==
  /\ stage = "trim" /\ iter = MaxTrims
  /\ IF empties > 0 THEN Fatal ELSE Settle(FALSE, FALSE) /\ UNCHANGED orx
  /\ UNCHANGED last

TooHot(r) == Clipped(r) \/ r.peak > BandHi

(* Mutant of VerifyBacksOff: a hot capture does not lower the gain.        *)
VerifyStaysHot(r) ==
  \/ /\ ~r.data
     /\ \/ NoDataAgain(EmptyStepIdx) /\ iter' = 1
        \/ empties = EmptyRetakes /\ Fatal
  \/ /\ r.data /\ TooHot(r) /\ gain > GainMin
     /\ gain' = gain /\ empties' = 0 /\ iter' = 1
     /\ UNCHANGED <<bench, radio, atten, stage, orx, level>>

VerifyBacksOff(r) ==
  \/ /\ ~r.data
     /\ \/ NoDataAgain(EmptyStepIdx) /\ iter' = 1
        \/ empties = EmptyRetakes /\ Fatal
  \/ /\ r.data /\ TooHot(r) /\ gain > GainMin
     /\ gain' = gain - 1 /\ empties' = 0 /\ iter' = 1
     /\ UNCHANGED <<bench, radio, atten, stage, orx, level>>

VerifyFails(r) == r.data /\ Clipped(r) /\ gain <= GainMin /\ Fatal

VerifyAccepts(r) ==
  /\ r.data /\ ~Clipped(r)
  /\ r.peak <= BandHi \/ gain <= GainMin
  /\ stage' = "accepted"
  /\ level' = [converged |-> level.converged /\ r.peak <= BandHi,
               atMax |-> level.atMax /\ iter = 0]
  /\ UNCHANGED <<bench, radio, atten, gain, orx, empties, iter>>

Verify ==
  /\ stage = "verify"
  /\ \E r \in Readings(TRUE) :
        /\ last' = Capture(r, TRUE)
        /\ VerifyBacksOff(r) \/ VerifyFails(r) \/ VerifyAccepts(r)

Level == Floor \/ Trim \/ TrimsOver \/ Verify
=============================================================================
