--------------------------- MODULE OperatingPoint ---------------------------
(***************************************************************************)
(* One operating point of a PA: find_operating_point of                    *)
(* src/adrvtrx/operating_point.py with find_compression_point of           *)
(* src/adrvtrx/compression.py.  The ORx is leveled at the start            *)
(* attenuation, the search walks the attenuation until the compression is  *)
(* within its tolerance of the target, the attenuation is backed off, the  *)
(* ORx is leveled again and the condition is captured and recorded.        *)
(*                                                                         *)
(* The level control is OrxAgc; a bench also says how the PA compresses,   *)
(* from which attenuation down its top slope falls below min_top_slope,    *)
(* and whether the job is a whole operating point or the leveling alone.   *)
(***************************************************************************)
EXTENDS OrxAgc

CONSTANTS
  StartAtten, AttenMin,     \* start_atten_db, atten_min_db
  AttenMax,                 \* MAX_TX_ATTEN_DB
  CoarseStep, FineStep,     \* coarse_step_db, fine_step_db
  TargetComp, CompTol,      \* target_compression_db, comp_tol_db
  MaxIterations,            \* max_iterations of the search
  SlopeNoise,               \* how far from its threshold the slope may misread
  Backoffs                  \* backoff_db, in whole dB

(* search_tx_compression raises if the floor is above the start or the     *)
(* tolerance is not positive.  A start beyond the attenuator's range is    *)
(* refused by the device, and the steps are multiples of its 0.05 dB.      *)
ASSUME SearchAssumption ==
  /\ StartAtten \in Nat /\ AttenMin \in Nat /\ AttenMax \in Nat
  /\ AttenMin <= StartAtten /\ StartAtten <= AttenMax /\ AttenMax % 5 = 0
  /\ CoarseStep \in Nat \ {0} /\ FineStep \in Nat \ {0}
  /\ CoarseStep % 5 = 0 /\ FineStep % 5 = 0
  /\ TargetComp \in Int /\ CompTol \in Nat \ {0}
  /\ MaxIterations \in Nat /\ SlopeNoise \in Nat /\ Backoffs \subseteq Nat

VARIABLES
  backoff,   \* backoff_db of this call
  locked,    \* the search is over: the leveling that runs is the back-off's
  floor,     \* the lowest attenuation allowed, raised by the clip guard
  guard,     \* guard_floor: the clip guard raised it
  coarse,    \* coarse_pending
  best,      \* the trusted reading closest to the target
  result,    \* CompressionResult
  row        \* the OperatingCondition recorded

searchVars == <<locked, floor, guard, coarse, best, result, row>>
vars == <<agcVars, backoff, searchVars>>

(* quantize_atten: the attenuator's 0.05 dB steps.                         *)
Quantize(db) == 5 * ((db + 2) \div 5)

(* Mutant of StepOf: the coarse step is a lower bound.                     *)
StepOfSwapped(error) ==
  Larger(CoarseStep, FineStep * Larger(1, error \div FineStep))

(* fine_step: the largest multiple of the fine step within the error.      *)
StepOf(error) == Smaller(CoarseStep, FineStep * Larger(1, error \div FineStep))

Init ==
  /\ bench \in Benches /\ backoff \in Backoffs
  /\ radio = "on"
  /\ atten = Quantize(StartAtten)
  /\ stage = StartStage /\ gain = StartGain /\ orx = NewStep
  /\ empties = 0 /\ iter = 0 /\ last = None /\ level = Unleveled
  /\ locked = FALSE /\ floor = Quantize(AttenMin) /\ guard = FALSE
  /\ coarse = TRUE /\ best = None /\ result = None /\ row = None

AutoLevel == Level /\ UNCHANGED <<backoff, searchVars>>

(* --- search_tx_compression -------------------------------------------- *)

StartSearch ==
  /\ stage = "accepted" /\ bench.job = "point" /\ ~locked
  /\ stage' = "search"
  /\ atten' = Quantize(Larger(AttenMin, Smaller(StartAtten, AttenMax)))
  /\ gain' = Clamp(gain)
  /\ orx' = NewStep /\ empties' = 0 /\ iter' = 0
  /\ UNCHANGED <<bench, radio, last, level, backoff, searchVars>>

Outcome(kind) ==
  [kind |-> kind, atten |-> atten', gain |-> gain', comp |-> Comp(atten)]

(* finish(): the search ends with the radio at atten' and gain'.           *)
Finish(kind) ==
  /\ stage' = "locked" /\ result' = Outcome(kind)
  /\ UNCHANGED <<iter, floor, guard, coarse>>

Stay == atten' = atten /\ gain' = gain

Continue ==
  /\ iter' = iter + 1
  /\ UNCHANGED <<stage, result>>

(* Mutant of Walk: the gain does not follow.                               *)
WalkAlone(o, a) == atten' = a /\ gain' = gain

(* The attenuation moves to a, and the ORx gain by the same dB.            *)
Walk(o, a) ==
  /\ atten' = a
  /\ gain' = Clamp(gain + Indices(o, a - atten))

ColdAtMax(r) == ~InWindow(r) /\ ~r.railed /\ r.peak < BandLo /\ gain >= GainMax

(* A reading counts in the window, below it at maximum gain, or as the     *)
(* nearest capture when single indices jump the window.                    *)
Nearest(o, r) == IF o.jumped /\ ~InWindow(r) /\ ~ColdAtMax(r) THEN o.near ELSE None

Trusted(o, r) ==
  \/ InWindow(r) \/ ColdAtMax(r)
  \/ Nearest(o, r) # None /\ Nearest(o, r).gain = gain /\ ~Clipped(r)

(* Mutant of PaClips: the guard never sees a clip.                         *)
NoPaClips == {FALSE}

(* What the top slope may say of PA clipping: near its threshold, either.  *)
PaClips ==
  IF Distance(atten, bench.slopeFrom) < SlopeNoise THEN BOOLEAN
  ELSE {atten < bench.slopeFrom}

Up(step) == Quantize(Smaller(AttenMax, atten + step))

GuardUp ==
  Up(IF Comp(atten) > TargetComp THEN StepOf(Comp(atten) - TargetComp) ELSE FineStep)

ClipGuard(o, r) ==
  /\ Trusted(o, r)
  /\ \/ /\ GuardUp > atten
        /\ Walk(o, GuardUp) /\ Continue
        /\ floor' = Larger(floor, GuardUp) /\ guard' = TRUE
        /\ UNCHANGED <<coarse, best>>
     \/ /\ GuardUp <= atten
        /\ Stay /\ Finish("clips at the ceiling") /\ UNCHANGED best

Error == Distance(Comp(atten), TargetComp)

Better == best = None \/ Error < best.error

Remember ==
  best' = IF Better
          THEN [error |-> Error, atten |-> atten, gain |-> gain, comp |-> Comp(atten)]
          ELSE best

Counts(o, r) == Trusted(o, r) /\ Remember

AtTarget(r) == InWindow(r) /\ Error <= CompTol

Converge(o, r) == Counts(o, r) /\ AtTarget(r) /\ Stay /\ Finish("converged")

Down == Quantize(atten - (IF coarse THEN CoarseStep ELSE StepOf(Error)))

(* Mutant of DriveUp: the last step is not cut at the floor.               *)
DriveUpPastFloor(o, r) ==
  /\ Counts(o, r) /\ ~AtTarget(r) /\ Comp(atten) < TargetComp
  /\ IF atten <= floor
     THEN Stay /\ Finish(IF guard THEN "clip guard floor" ELSE "floor")
     ELSE Walk(o, Down) /\ Continue /\ coarse' = FALSE /\ UNCHANGED <<floor, guard>>

DriveUp(o, r) ==
  /\ Counts(o, r) /\ ~AtTarget(r) /\ Comp(atten) < TargetComp
  /\ IF Down < floor /\ atten <= floor
     THEN Stay /\ Finish(IF guard THEN "clip guard floor" ELSE "floor")
     ELSE /\ Walk(o, Larger(Down, floor)) /\ Continue
          /\ coarse' = FALSE /\ UNCHANGED <<floor, guard>>

DriveDown(o, r) ==
  /\ Counts(o, r) /\ ~AtTarget(r) /\ Comp(atten) >= TargetComp
  /\ IF Up(StepOf(Error)) <= atten
     THEN Stay /\ Finish("ceiling")
     ELSE Walk(o, Up(StepOf(Error))) /\ Continue /\ UNCHANGED <<floor, guard, coarse>>

(* Clipping at the gain floor: one step of attenuation, unmeasured.        *)
StillClips(o, r) ==
  /\ ~Trusted(o, r) /\ (Clipped(r) \/ r.peak > BandHi) /\ gain <= GainMin
  /\ atten' = Up(FineStep) /\ gain' = gain
  /\ Finish("fatal") /\ UNCHANGED best

Releveled(o, r) ==
  /\ ~Trusted(o, r) /\ ~((Clipped(r) \/ r.peak > BandHi) /\ gain <= GainMin)
  /\ gain' = Clamp(IF Nearest(o, r) # None THEN Nearest(o, r).gain ELSE gain + StepFor(o, r))
  /\ Continue /\ UNCHANGED <<atten, floor, guard, coarse, best>>

SearchLevel(r) ==
  LET o == Observe(orx, Capture(r, TRUE))
  IN  /\ r.data /\ orx' = o /\ empties' = 0
      /\ UNCHANGED radio
      /\ \/ TRUE \in PaClips /\ ClipGuard(o, r)
         \/ FALSE \in PaClips /\ (Converge(o, r) \/ DriveUp(o, r) \/ DriveDown(o, r))
         \/ StillClips(o, r) \/ Releveled(o, r)

(* No data: the gain goes down; once too often, AgcError leaves the bench  *)
(* safe.                                                                   *)
SearchEmpty(r) ==
  /\ ~r.data
  /\ \/ NoDataAgain(EmptyStepIdx) /\ iter' = iter + 1
     \/ empties = EmptyRetakes /\ Fatal
  /\ UNCHANGED <<floor, guard, coarse, best, result>>

Search ==
  /\ stage = "search" /\ iter < MaxIterations
  /\ \E r \in Readings(TRUE) :
        /\ last' = Capture(r, TRUE)
        /\ SearchLevel(r) \/ SearchEmpty(r)
  /\ UNCHANGED <<bench, level, backoff, locked, row>>

(* max_iterations: back to the closest reading, if there was one.          *)
SearchOver ==
  /\ stage = "search" /\ iter = MaxIterations
  /\ stage' = "locked"
  /\ IF best = None THEN Stay ELSE atten' = best.atten /\ gain' = best.gain
  /\ result' = [kind |-> "max iterations", atten |-> atten', gain |-> gain',
                comp |-> IF best = None THEN Comp(atten) ELSE best.comp]
  /\ UNCHANGED <<bench, radio, orx, empties, iter, last, level, backoff, locked, floor,
                 guard, coarse, best, row>>

(* --- find_operating_point --------------------------------------------- *)

StartCapture == stage' = "capture" /\ empties' = 0 /\ UNCHANGED <<gain, orx, iter>>

BackOff ==
  /\ stage = "locked" /\ locked' = TRUE
  /\ IF backoff = 0
     THEN StartCapture /\ UNCHANGED <<atten, level>>
     ELSE /\ atten' = Quantize(Smaller(result.atten + 100 * backoff, AttenMax))
          /\ stage' = StartStage /\ gain' = StartGain /\ orx' = NewStep
          /\ empties' = 0 /\ iter' = 0 /\ level' = Unleveled
  /\ UNCHANGED <<bench, radio, last, backoff, floor, guard, coarse, best,
                 result, row>>

BackedOff ==
  /\ stage = "accepted" /\ locked /\ StartCapture
  /\ UNCHANGED <<bench, radio, atten, last, level, backoff, searchVars>>

(* orx_capture: retaken at the same gain while it has no data; the finally *)
(* of find_operating_point disables TX either way.                         *)
CapturePoint ==
  /\ stage = "capture"
  /\ \E r \in Readings(TRUE) :
        /\ last' = Capture(r, TRUE)
        /\ \/ /\ r.data /\ stage' = "done" /\ radio' = "off"
              /\ row' = [locked |-> result.atten, atten |-> atten, gain |-> gain,
                         converged |-> result.kind = "converged",
                         peak |-> r.peak, railed |-> r.railed]
              /\ UNCHANGED empties
           \/ /\ ~r.data /\ empties < EmptyRetakes /\ empties' = empties + 1
              /\ UNCHANGED <<stage, radio, row>>
           \/ /\ ~r.data /\ empties = EmptyRetakes
              /\ stage' = "error" /\ radio' = "off"
              /\ UNCHANGED <<row, empties>>
  /\ UNCHANGED <<bench, atten, gain, orx, iter, level, backoff, locked, floor, guard,
                 coarse, best, result>>

Next == AutoLevel \/ StartSearch \/ Search \/ SearchOver \/ BackOff \/ BackedOff \/ CapturePoint

Spec == Init /\ [][Next]_vars

(* Every capture returns and every decision is made.                       *)
FairSpec == Spec /\ WF_vars(Next)

(* --- properties ------------------------------------------------------- *)

Captures == [drive : 0..AttenMax, gain : GainMin..GainMax, full : BOOLEAN,
             data : BOOLEAN, peak : Int, railed : BOOLEAN] \cup {None}

OrxSteps == [dbPerIndex : Nat \ {0}, single : BOOLEAN, jumped : BOOLEAN,
             last : Captures, near : Captures]

Bests == [error : Nat, atten : 0..AttenMax, gain : GainMin..GainMax, comp : Nat]

Results == [kind : {"converged", "floor", "clip guard floor", "ceiling",
                    "clips at the ceiling", "fatal", "max iterations"},
            atten : 0..AttenMax, gain : GainMin..GainMax, comp : Nat]

Rows == [locked : 0..AttenMax, atten : 0..AttenMax, gain : GainMin..GainMax,
         converged : BOOLEAN, peak : Int, railed : BOOLEAN]

(* The state fits its types: the attenuation stays on the attenuator's     *)
(* 0.05 dB grid and in its range, the gain index inside the table, the     *)
(* learnt step inside its bounds.                                          *)
TypeOK ==
  /\ bench \in Benches /\ backoff \in Backoffs
  /\ radio \in {"on", "off", "gone"}
  /\ stage \in {"floor", "trim", "verify", "accepted", "search", "locked", "capture",
                "done", "error"}
  /\ atten \in 0..AttenMax /\ atten % 5 = 0
  /\ gain \in GainMin..GainMax
  /\ orx \in OrxSteps /\ last \in Captures
  /\ empties \in 0..EmptyRetakes /\ iter \in Nat
  /\ level \in [converged : BOOLEAN, atMax : BOOLEAN]
  /\ locked \in BOOLEAN /\ guard \in BOOLEAN /\ coarse \in BOOLEAN
  /\ floor \in 0..AttenMax
  /\ best \in Bests \cup {None} /\ result \in Results \cup {None}
  /\ row \in Rows \cup {None}

(* An accepted level was measured: on the full signal, at exactly the gain *)
(* and attenuation it leaves, and that capture was not clipped.            *)
AcceptedLevelIsClean ==
  stage = "accepted" =>
    /\ last.full /\ last.data /\ ~Clipped(last)
    /\ last.gain = gain /\ last.drive = atten

NeverEmpty == bench.overdrive > bench.signal + Table(GainMax)
Reachable  == \E g \in GainMin..GainMax : InWindow(Reading(FullLevel(atten, g)))

(* If some gain index puts the full signal into the window, the control    *)
(* ends on such an index, whatever the gain table's steps and however much *)
(* of the peak the short captures miss: learning the step, the single      *)
(* steps after an overshoot, the iteration limit and stage C together lose *)
(* no level that could be had.                                             *)
LevelsIntoWindow ==
  stage = "accepted" /\ NeverEmpty /\ Reachable => InWindow(last)

(* The attenuation never goes below atten_min_db, nor below the floor that *)
(* the clip guard has raised.  A search out of iterations goes back to its *)
(* best reading, which was made before the floor was where it is; the PA   *)
(* did not clip there, as far as the slope tells.                          *)
GuardHolds ==
  stage \in {"search", "locked", "capture", "done"} =>
    /\ atten >= Quantize(AttenMin)
    /\ \/ atten >= floor
       \/ /\ stage # "search" /\ result.kind = "max iterations"
          /\ result.atten >= bench.slopeFrom - SlopeNoise

Uniform == bench.step = DbPerIndex /\ bench.steep = DbPerIndex

(* A step to more drive raises the level at the ORx by half a gain index   *)
(* at most, on a gain table with the assumed step: the gain follows by as  *)
(* many dB as whole indices allow, with the step the search has learnt,    *)
(* unless it ran out.  So a capture that did not clip is not followed by   *)
(* one that clips by more than that.                                       *)
DroveUp == stage = "search" /\ iter > 0 /\ last.drive > atten
DriveUpKeepsLevel ==
  DroveUp /\ Uniform /\ gain > GainMin =>
    ~Clipped(last) /\ 2 * (FullLevel(atten, gain) - last.peak) <= DbPerIndex

(* A condition recorded as converged is one: at the recorded lock the PA   *)
(* compresses by the target and does not clip, the capture was taken at    *)
(* the lock backed off by backoff_db, and the ORx did not clip in it.      *)
RecordedLockHolds ==
  row # None /\ row.converged =>
    /\ Distance(Comp(row.locked), TargetComp) <= CompTol
    /\ row.locked >= bench.slopeFrom - SlopeNoise
    /\ row.atten = Quantize(Smaller(row.locked + 100 * backoff, AttenMax))
    /\ last.drive = row.atten /\ last.gain = row.gain /\ ~Clipped(last)

Grid == {5 * k : k \in (AttenMin \div 5)..(AttenMax \div 5)}

Suits(a) == /\ a >= AttenMin /\ a >= bench.slopeFrom
            /\ 3 * Distance(Comp(a), TargetComp) <= CompTol
Levelable(a) == \E g \in (GainMin + 1)..GainMax : InWindow(Reading(FullLevel(a, g)))

(* A target the PA can be driven to without clipping, on a gain table with *)
(* the assumed step and a signal the ORx can level at every attenuation,   *)
(* is found within max_iterations: no coarse step, fine step, re-level or  *)
(* floor keeps the search from it.  The PA must compress by no more than   *)
(* 1 dB per dB, or the clip guard may raise the floor past the target; it  *)
(* does on all benches checked that can be leveled at every attenuation.   *)
TargetReached ==
  stage = "locked" /\ result.kind # "converged" /\ Uniform =>
    ~ ((\E a \in Grid : Suits(a)) /\ (\A a \in Grid : Levelable(a)))

Ended == stage \in {"done", "error"} \/ (stage = "accepted" /\ bench.job = "level")

(* The control and the search end, whatever the captures return.           *)
Ends == <>Ended
=============================================================================
