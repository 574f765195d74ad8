------------------------ MODULE OperatingPointProofs ------------------------
(***************************************************************************)
(* For every bench, every gain table, PA and noise of the slope reading:   *)
(* an accepted level is clean, the walk stays above its floor, the gain    *)
(* follows the drive, what is recorded as converged is, and so is the lock *)
(* the search goes back to at its last iteration.  The leveling finds a    *)
(* level wherever there is one, unless its trims run out, which on a gain  *)
(* table of even steps loses nothing.  The search finds a target that is   *)
(* there on any gentle PA, unless its iterations run out.  Every step      *)
(* brings the end of a call nearer.                                        *)
(***************************************************************************)
EXTENDS OperatingPoint, TLAPS

USE DEF Smaller, Larger, Distance

-----------------------------------------------------------------------------
(* Operators *)

LEMMA RoundDivInt == ASSUME NEW a \in Int, NEW b \in Nat \ {0} PROVE RoundDiv(a, b) \in Int
BY DEF RoundDiv

LEMMA ClampRange == ASSUME NEW g \in Int PROVE Clamp(g) \in GainMin..GainMax
BY GainAssumption DEF Clamp

LEMMA QuantizeOnGrid ==
  ASSUME NEW x \in Int, x % 5 = 0 PROVE Quantize(x) = x
BY DEF Quantize

LEMMA QuantizeRange ==
  ASSUME NEW x \in 0..AttenMax
  PROVE  Quantize(x) \in 0..AttenMax /\ Quantize(x) % 5 = 0
BY SearchAssumption DEF Quantize

LEMMA StepOfType ==
  ASSUME NEW e \in Nat
  PROVE  StepOf(e) \in Nat \ {0} /\ StepOf(e) % 5 = 0
<1>1. PICK f \in Nat : FineStep = 5 * f
  BY SearchAssumption
<1>2. PICK c \in Nat : CoarseStep = 5 * c
  BY SearchAssumption
<1>3. e \div FineStep \in Nat
  BY SearchAssumption
<1>4. PICK n \in Nat \ {0} : n = Larger(1, e \div FineStep)
  BY <1>3
<1>5. f * n \in Nat /\ FineStep * n = 5 * (f * n)
  BY <1>1, <1>4
<1>6. FineStep * n > 0
  BY <1>4, SearchAssumption
<1>7. StepOf(e) = Smaller(CoarseStep, FineStep * n)
  BY <1>4 DEF StepOf
<1>8. PICK m \in Nat : FineStep * n = 5 * m
  BY <1>5
<1>9. CASE CoarseStep <= FineStep * n
  BY <1>7, <1>9, SearchAssumption
<1>10. CASE ~(CoarseStep <= FineStep * n)
  <2>1. StepOf(e) = 5 * m
    BY <1>7, <1>8, <1>10
  <2>2. (5 * m) % 5 = 0
    OBVIOUS
  <2> QED BY <2>1, <2>2, <1>6, <1>8
<1> QED BY <1>9, <1>10

-----------------------------------------------------------------------------
(* Types *)

LEMMA BenchTyped == bench \in Benches => bench \in BenchType
BY BenchAssumption

LEMMA LevelTyped ==
  ASSUME bench \in BenchType, NEW a \in Int, NEW g \in Int
  PROVE  FullLevel(a, g) \in Int
<1>1. /\ bench.step \in Nat /\ bench.steep \in Nat /\ bench.from \in Int /\ bench.to \in Int
      /\ bench.signal \in Int /\ bench.knee \in Int /\ bench.rise \in Nat
  BY DEF BenchType
<1>2. Table(g) \in Int
  <2> DEFINE inside == Larger(0, Smaller(g, bench.to) - Larger(GainMin, bench.from))
  <2>1. inside \in Int
    BY <1>1, GainAssumption
  <2>2. bench.steep * inside \in Int /\ bench.step * (g - GainMin - inside) \in Int
    BY <2>1, <1>1, GainAssumption
  <2> QED BY <2>2, <1>1 DEF Table
<1>3. Comp(a) \in Int
  <2>1. Larger(0, bench.knee - a) * bench.rise \in Int
    BY <1>1
  <2> QED BY <2>1 DEF Comp
<1> QED BY <1>1, <1>2, <1>3 DEF FullLevel

LEMMA CompNat ==
  ASSUME bench \in BenchType, NEW a \in Int PROVE Comp(a) \in Nat
<1>1. bench.knee \in Int /\ bench.rise \in Nat
  BY DEF BenchType
<1>2. Larger(0, bench.knee - a) * bench.rise \in Nat
  BY <1>1
<1> QED BY <1>2 DEF Comp

ReadingType == [data : BOOLEAN, peak : Int, railed : BOOLEAN]

LEMMA ReadingTyped ==
  ASSUME bench \in BenchType, atten \in Int, gain \in Int, NEW full \in BOOLEAN,
         NEW r \in Readings(full)
  PROVE  r \in ReadingType
<1>1. FullLevel(atten, gain) \in Int
  BY LevelTyped
<1>2. bench.short \in Nat /\ bench.rail \in Int /\ bench.overdrive \in Int
  BY DEF BenchType
<1> DEFINE v == FullLevel(atten, gain) - (IF full THEN 0 ELSE bench.short)
<1>3. v \in Int
  BY <1>1, <1>2
<1> HIDE DEF v
<1>4. Reading(v) \in ReadingType /\ NoData \in ReadingType
  BY <1>2, <1>3, GainAssumption DEF Reading, NoData, ReadingType
<1>5. r \in {Reading(v)} \cup {NoData}
  BY DEF Readings, v
<1> QED BY <1>4, <1>5

CaptureType ==
  [drive : 0..AttenMax, gain : GainMin..GainMax, full : BOOLEAN,
   data : BOOLEAN, peak : Int, railed : BOOLEAN]

LEMMA CaptureTyped ==
  ASSUME NEW r \in ReadingType, NEW full \in BOOLEAN,
         atten \in 0..AttenMax, gain \in GainMin..GainMax
  PROVE  /\ Capture(r, full) \in CaptureType /\ Capture(r, full) \in Captures
         /\ Capture(r, full).gain = gain /\ Capture(r, full).drive = atten
         /\ Clipped(Capture(r, full)) <=> Clipped(r)
         /\ Capture(r, full).data = r.data /\ Capture(r, full).full = full
BY DEF Capture, CaptureType, Captures, ReadingType, Clipped

LEMMA NewStepTyped == NewStep \in OrxSteps
BY WindowAssumption DEF NewStep, OrxSteps, Captures

(* OrxStep keeps its types: the learnt step stays inside ORX_STEP_BOUNDS.  *)
LEMMA ObserveTyped ==
  ASSUME NEW o \in OrxSteps, NEW c \in CaptureType
  PROVE  Observe(o, c) \in OrxSteps
<1> DEFINE same == o.last # None /\ o.last.drive = c.drive
           p == IF same THEN o.last ELSE None
           over == same /\ Crossed(p, c)
<1>1. /\ o.dbPerIndex \in Nat \ {0} /\ o.single \in BOOLEAN /\ o.jumped \in BOOLEAN
      /\ o.last \in CaptureType \cup {None} /\ o.near \in CaptureType \cup {None}
  BY DEF OrxSteps, Captures, CaptureType
<1>2. p \in CaptureType \cup {None}
  BY <1>1
<1>3. ASSUME Teaches(p, c) PROVE Secant(p, c) \in Nat \ {0}
  <2>1. /\ p \in CaptureType /\ p.gain # c.gain
        /\ p.gain \in Int /\ c.gain \in Int /\ p.peak \in Int /\ c.peak \in Int
    BY <1>2, <1>3, GainAssumption DEF Teaches, CaptureType
  <2> DEFINE lo == IF p.gain < c.gain THEN p ELSE c
             hi == IF p.gain < c.gain THEN c ELSE p
  <2>2. hi.peak - lo.peak \in Int /\ hi.gain - lo.gain \in Nat \ {0}
    BY <2>1
  <2>3. RoundDiv(hi.peak - lo.peak, hi.gain - lo.gain) \in Int
    BY <2>2, RoundDivInt
  <2>4. PICK n \in Int : n = RoundDiv(hi.peak - lo.peak, hi.gain - lo.gain)
    BY <2>3
  <2>5. Secant(p, c) = Larger(StepMin, Smaller(StepMax, n))
    BY <2>4 DEF Secant
  <2> QED BY <2>5, WindowAssumption
<1>4. (IF Teaches(p, c) THEN Secant(p, c) ELSE o.dbPerIndex) \in Nat \ {0}
  BY <1>1, <1>3
<1>5. ASSUME NEW n \in CaptureType \cup {None}
      PROVE  Nearer(n, c) \in CaptureType \cup {None}
  BY <1>5 DEF Nearer
<1>6. Nearer(IF same THEN o.near ELSE None, c) \in CaptureType \cup {None}
  <2>1. (IF same THEN o.near ELSE None) \in CaptureType \cup {None}
    BY <1>1
  <2> QED BY <2>1, <1>5
<1>7. ((same /\ o.single) \/ over) \in BOOLEAN
  OBVIOUS
<1>8. (\/ same /\ o.jumped
       \/ over /\ Distance(c.gain, p.gain) <= 1) \in BOOLEAN
  OBVIOUS
<1>9. Observe(o, c) = [dbPerIndex |-> IF Teaches(p, c) THEN Secant(p, c) ELSE o.dbPerIndex,
                       single |-> (same /\ o.single) \/ over,
                       jumped |-> (same /\ o.jumped)
                                    \/ (over /\ Distance(c.gain, p.gain) <= 1),
                       last |-> c, near |-> Nearer(IF same THEN o.near ELSE None, c)]
  BY DEF Observe
<1> HIDE DEF same, p, over
<1>10. c \in Captures
  BY DEF Captures, CaptureType
<1>11. Captures = CaptureType \cup {None}
  BY DEF Captures, CaptureType
<1> QED BY <1>4, <1>6, <1>7, <1>8, <1>9, <1>10, <1>11 DEF OrxSteps

LEMMA NearTyped ==
  ASSUME NEW o \in OrxSteps PROVE o.near # None => o.near \in CaptureType
BY DEF OrxSteps, Captures, CaptureType

LEMMA StepForInt ==
  ASSUME NEW o \in OrxSteps, NEW r \in ReadingType PROVE StepFor(o, r) \in Int
<1>1. o.dbPerIndex \in Nat \ {0} /\ r.peak - Target \in Int /\ Target - r.peak \in Int
  BY WindowAssumption DEF OrxSteps, ReadingType
<1>2. /\ RoundDiv(r.peak - Target, o.dbPerIndex) \in Int
      /\ RoundDiv(Target - r.peak, o.dbPerIndex) \in Int
  BY <1>1, RoundDivInt
<1>3. PICK m \in Int, n \in Int : /\ m = RoundDiv(r.peak - Target, o.dbPerIndex)
                                  /\ n = RoundDiv(Target - r.peak, o.dbPerIndex)
  BY <1>2
<1>4. Relevel(o, r) \in Int
  BY <1>3 DEF Relevel
<1> QED BY <1>4 DEF StepFor

LEMMA IndicesInt ==
  ASSUME NEW o \in OrxSteps, NEW d \in Int PROVE Indices(o, d) \in Int
BY RoundDivInt DEF Indices, OrxSteps

LEMMA UpRange ==
  ASSUME atten \in 0..AttenMax, atten % 5 = 0, NEW step \in Nat
  PROVE  Up(step) \in 0..AttenMax /\ Up(step) % 5 = 0 /\ Up(step) >= atten
<1>1. Smaller(AttenMax, atten + step) \in 0..AttenMax
  BY SearchAssumption
<1>2. Up(step) \in 0..AttenMax /\ Up(step) % 5 = 0
  BY <1>1, QuantizeRange DEF Up
<1>3. PICK x \in atten..AttenMax : x = Smaller(AttenMax, atten + step)
  BY SearchAssumption
<1>4. Quantize(x) >= atten
  BY <1>3, SearchAssumption DEF Quantize
<1> QED BY <1>2, <1>3, <1>4 DEF Up

-----------------------------------------------------------------------------
(* The inductive form of TypeOK: the floor and every attenuation the       *)
(* search may return to are on the attenuator's grid, and a search that is *)
(* over has a result.                                                      *)
AgcType ==
  /\ bench \in Benches
  /\ radio \in {"on", "off", "gone"}
  /\ stage \in {"floor", "trim", "verify", "accepted", "search", "locked", "capture",
                "done", "error"}
  /\ atten \in 0..AttenMax /\ atten % 5 = 0
  /\ gain \in GainMin..GainMax
  /\ orx \in OrxSteps /\ last \in Captures
  /\ empties \in 0..EmptyRetakes /\ iter \in Nat
  /\ level \in [converged : BOOLEAN, atMax : BOOLEAN]

SearchType ==
  /\ backoff \in Backoffs
  /\ locked \in BOOLEAN /\ guard \in BOOLEAN /\ coarse \in BOOLEAN
  /\ floor \in 0..AttenMax /\ floor % 5 = 0
  /\ best \in Bests \cup {None} /\ (best # None => best.atten % 5 = 0)
  /\ result \in Results \cup {None} /\ (result # None => result.atten % 5 = 0)
  /\ row \in Rows \cup {None}

HasResult == stage \in {"locked", "capture"} \/ locked => result \in Results

TypeInv == AgcType /\ SearchType /\ HasResult

LEMMA StartTyped ==
  ASSUME bench \in Benches
  PROVE  /\ StartStage \in {"floor", "trim"} /\ StartGain \in GainMin..GainMax
<1>1. bench.start \in Int \cup {None}
  BY BenchTyped DEF BenchType
<1>2. bench.start # None => bench.start - StartMarginIdx \in Int
  BY <1>1, GainAssumption
<1>3. GainMin \in GainMin..GainMax
  BY GainAssumption
<1> QED BY <1>2, <1>3, ClampRange DEF StartStage, StartGain

LEMMA InitTyped == Init => TypeInv
<1> SUFFICES ASSUME Init PROVE TypeInv
  OBVIOUS
<1>1. /\ Quantize(StartAtten) \in 0..AttenMax /\ Quantize(StartAtten) % 5 = 0
      /\ Quantize(AttenMin) \in 0..AttenMax /\ Quantize(AttenMin) % 5 = 0
  BY SearchAssumption, QuantizeRange
<1>2. AgcType
  BY <1>1, StartTyped, NewStepTyped, GainAssumption DEF Init, AgcType, Captures, Unleveled
<1>3. SearchType /\ HasResult
  BY <1>1, StartTyped DEF Init, SearchType, HasResult
<1> QED BY <1>2, <1>3 DEF TypeInv

-----------------------------------------------------------------------------
(* autolevel_orx and autolevel_capture *)

LEMMA ReadingFacts ==
  ASSUME AgcType, NEW full \in BOOLEAN, NEW r \in Readings(full)
  PROVE  /\ r \in ReadingType
         /\ Capture(r, full) \in CaptureType /\ Capture(r, full) \in Captures
         /\ Observe(orx, Capture(r, full)) \in OrxSteps
<1>1. bench \in BenchType /\ atten \in Int /\ gain \in Int
  BY BenchTyped, SearchAssumption, GainAssumption DEF AgcType
<1>2. r \in ReadingType
  BY <1>1, ReadingTyped
<1> QED BY <1>2, CaptureTyped, ObserveTyped DEF AgcType

LEMMA FatalTyped ==
  ASSUME AgcType, Fatal, last' \in Captures PROVE AgcType'
BY DEF AgcType, Fatal

LEMMA NoDataTyped ==
  ASSUME AgcType, last' \in Captures, NEW lower \in Nat, NoDataAgain(lower), iter' \in Nat
  PROVE  AgcType'
<1>1. gain - lower \in Int
  BY GainAssumption DEF AgcType
<1>2. gain' \in GainMin..GainMax
  BY <1>1, ClampRange DEF NoDataAgain
<1> QED BY <1>2, GainAssumption DEF AgcType, NoDataAgain

LEMMA SettleTyped ==
  ASSUME AgcType, last' \in Captures, orx' \in OrxSteps,
         NEW c \in BOOLEAN, NEW m \in BOOLEAN, Settle(c, m)
  PROVE  AgcType'
BY GainAssumption DEF AgcType, Settle

LEMMA FloorTyped == ASSUME AgcType, Floor PROVE AgcType'
<1>1. PICK r \in Readings(FALSE) : /\ last' = Capture(r, FALSE)
                                   /\ FloorEmpty(r) \/ FloorTooStrong(r) \/ FloorJump(r)
  BY DEF Floor
<1>2. r \in ReadingType /\ last' \in Captures
  BY <1>1, ReadingFacts
<1>3. CASE FloorEmpty(r)
  <2>1. CASE NoDataAgain(0) /\ UNCHANGED iter
    BY <1>2, <2>1, NoDataTyped DEF AgcType
  <2>2. CASE Fatal
    BY <1>2, <2>2, FatalTyped
  <2> QED BY <1>3, <2>1, <2>2 DEF FloorEmpty
<1>4. CASE FloorTooStrong(r)
  BY <1>2, <1>4, FatalTyped DEF FloorTooStrong
<1>5. CASE FloorJump(r)
  <2>1. RoundDiv(Target - r.peak, DbPerIndex) \in Int
    BY <1>2, WindowAssumption, RoundDivInt DEF ReadingType
  <2>2. GainMin + RoundDiv(Target - r.peak, DbPerIndex) \in Int
    BY <2>1, GainAssumption
  <2>3. gain' \in GainMin..GainMax
    BY <2>2, <1>5, ClampRange DEF FloorJump
  <2> QED BY <2>3, <1>2, <1>5, NewStepTyped, GainAssumption DEF FloorJump, AgcType
<1> QED BY <1>1, <1>3, <1>4, <1>5

LEMMA TrimTyped == ASSUME AgcType, Trim PROVE AgcType'
<1>1. PICK r \in Readings(FALSE) : /\ last' = Capture(r, FALSE)
                                   /\ TrimEmpty(r) \/ TrimLevel(r)
  BY DEF Trim
<1> DEFINE o == Observe(orx, Capture(r, FALSE))
<1>2. r \in ReadingType /\ last' \in Captures /\ o \in OrxSteps
  BY <1>1, ReadingFacts
<1> HIDE DEF o
<1>3. CASE TrimEmpty(r)
  <2>1. CASE NoDataAgain(EmptyStepIdx) /\ iter' = iter + 1
    BY <1>2, <2>1, NoDataTyped, WindowAssumption DEF AgcType
  <2>2. CASE Fatal
    BY <1>2, <2>2, FatalTyped
  <2> QED BY <1>3, <2>1, <2>2 DEF TrimEmpty
<1>4. CASE TrimLevel(r)
  <2>1. CASE Fatal
    BY <1>2, <2>1, FatalTyped
  <2>2. CASE orx' = o /\ TrimSettles(o, r)
    BY <1>2, <2>2, SettleTyped DEF TrimSettles
  <2>3. CASE orx' = o /\ TrimMoves(o, r)
    <3>1. gain \in Int /\ gain - 1 \in Int
      BY GainAssumption DEF AgcType
    <3>2. StepFor(o, r) \in Int
      BY <1>2, StepForInt
    <3>3. ASSUME TakesNearest(o, r) PROVE o.near.gain \in Int
      <4>1. o.near \in CaptureType
        BY <1>2, <3>3, NearTyped DEF TakesNearest
      <4> QED BY <4>1, GainAssumption DEF CaptureType
    <3>4. TrimTo(o, r) \in Int
      BY <3>1, <3>2, <3>3 DEF TrimTo
    <3>5. gain' \in GainMin..GainMax
      BY <3>4, <2>3, ClampRange DEF TrimMoves
    <3> QED BY <3>5, <1>2, <2>3, GainAssumption DEF TrimMoves, AgcType
  <2> QED BY <1>4, <2>1, <2>2, <2>3 DEF TrimLevel, o
<1> QED BY <1>1, <1>3, <1>4

LEMMA TrimsOverTyped == ASSUME AgcType, TrimsOver PROVE AgcType'
<1>1. last' \in Captures
  BY DEF TrimsOver, AgcType
<1>2. CASE Fatal
  BY <1>1, <1>2, FatalTyped
<1>3. CASE Settle(FALSE, FALSE) /\ UNCHANGED orx
  BY <1>1, <1>3, SettleTyped DEF AgcType
<1> QED BY <1>2, <1>3 DEF TrimsOver

LEMMA VerifyTyped == ASSUME AgcType, Verify PROVE AgcType'
<1>1. PICK r \in Readings(TRUE) : /\ last' = Capture(r, TRUE)
                                  /\ VerifyBacksOff(r) \/ VerifyFails(r) \/ VerifyAccepts(r)
  BY DEF Verify
<1>2. r \in ReadingType /\ last' \in Captures
  BY <1>1, ReadingFacts
<1>3. CASE VerifyBacksOff(r)
  <2>1. CASE NoDataAgain(EmptyStepIdx) /\ iter' = 1
    BY <1>2, <2>1, NoDataTyped, WindowAssumption DEF AgcType
  <2>2. CASE Fatal
    BY <1>2, <2>2, FatalTyped
  <2>3. CASE gain > GainMin /\ gain' = gain - 1 /\ empties' = 0 /\ iter' = 1
             /\ UNCHANGED <<bench, radio, atten, stage, orx, level>>
    BY <1>2, <2>3, GainAssumption DEF AgcType
  <2> QED BY <1>3, <2>1, <2>2, <2>3 DEF VerifyBacksOff
<1>4. CASE VerifyFails(r)
  BY <1>2, <1>4, FatalTyped DEF VerifyFails
<1>5. CASE VerifyAccepts(r)
  <2>1. level' \in [converged : BOOLEAN, atMax : BOOLEAN]
    BY <1>5 DEF VerifyAccepts, AgcType
  <2> QED BY <2>1, <1>2, <1>5 DEF VerifyAccepts, AgcType
<1> QED BY <1>1, <1>3, <1>4, <1>5

LEMMA AutoLevelTyped == ASSUME TypeInv, AutoLevel PROVE TypeInv'
<1>1. AgcType'
  BY FloorTyped, TrimTyped, TrimsOverTyped, VerifyTyped DEF AutoLevel, Level, TypeInv
<1>2. SearchType'
  BY DEF AutoLevel, searchVars, TypeInv, SearchType
<1>3. stage' \notin {"locked", "capture"}
  BY DEF AutoLevel, Level, Floor, FloorEmpty, FloorTooStrong, FloorJump, Fatal, NoDataAgain,
         Trim, TrimEmpty, TrimLevel, TrimSettles, TrimMoves, Settle, TrimsOver,
         Verify, VerifyBacksOff, VerifyFails, VerifyAccepts
<1>4. HasResult'
  BY <1>3 DEF AutoLevel, searchVars, TypeInv, HasResult
<1> QED BY <1>1, <1>2, <1>4 DEF TypeInv

-----------------------------------------------------------------------------
(* search_tx_compression *)

(* What one iteration leaves: the radio on the attenuator's grid, the      *)
(* search running on or over with a result, the floor and the best reading *)
(* on the grid.                                                            *)
OnGrid == atten' \in 0..AttenMax /\ atten' % 5 = 0 /\ gain' \in GainMin..GainMax

RunsOrEnds ==
  /\ iter' \in Nat
  /\ \/ stage' = "search" /\ result' = result
     \/ stage' = "locked" /\ result' \in Results /\ result'.atten % 5 = 0

FloorOnGrid ==
  /\ floor' \in 0..AttenMax /\ floor' % 5 = 0
  /\ guard' \in BOOLEAN /\ coarse' \in BOOLEAN

BestOnGrid == best' \in Bests \cup {None} /\ (best' # None => best'.atten % 5 = 0)

Iterates == OnGrid /\ RunsOrEnds /\ FloorOnGrid /\ BestOnGrid

LEMMA PaNat == ASSUME AgcType, NEW a \in 0..AttenMax PROVE Comp(a) \in Nat
<1>1. a \in Int
  BY SearchAssumption
<1> QED BY <1>1, BenchTyped, CompNat DEF AgcType

LEMMA RunsOn ==
  ASSUME AgcType, stage = "search", Continue PROVE RunsOrEnds
BY DEF AgcType, Continue, RunsOrEnds

LEMMA SameFloor ==
  ASSUME SearchType, UNCHANGED <<floor, guard>>, coarse' \in BOOLEAN PROVE FloorOnGrid
BY DEF SearchType, FloorOnGrid

LEMMA SameBest == ASSUME SearchType, UNCHANGED best PROVE BestOnGrid
BY DEF SearchType, BestOnGrid

LEMMA StayTyped == ASSUME AgcType, Stay PROVE OnGrid
BY DEF AgcType, Stay, OnGrid

LEMMA WalkTyped ==
  ASSUME AgcType, NEW o \in OrxSteps, NEW a \in 0..AttenMax, a % 5 = 0, Walk(o, a)
  PROVE  OnGrid
<1>1. a - atten \in Int
  BY SearchAssumption DEF AgcType
<1>2. gain + Indices(o, a - atten) \in Int
  BY <1>1, IndicesInt, GainAssumption DEF AgcType
<1> QED BY <1>2, ClampRange DEF Walk, OnGrid

LEMMA FinishTyped ==
  ASSUME AgcType, OnGrid,
         NEW kind \in {"converged", "floor", "clip guard floor", "ceiling",
                       "clips at the ceiling", "fatal"},
         Finish(kind)
  PROVE  RunsOrEnds
<1>1. Comp(atten) \in Nat
  BY PaNat DEF AgcType
<1>2. result' \in Results /\ result'.atten % 5 = 0
  BY <1>1 DEF Finish, Outcome, Results, OnGrid
<1> QED BY <1>2 DEF Finish, RunsOrEnds, AgcType

LEMMA RememberTyped ==
  ASSUME AgcType, SearchType, Remember PROVE BestOnGrid
<1>1. Comp(atten) \in Nat
  BY PaNat DEF AgcType
<1>2. Error \in Nat
  BY <1>1, SearchAssumption DEF Error
<1> DEFINE b == [error |-> Error, atten |-> atten, gain |-> gain, comp |-> Comp(atten)]
<1>3. b \in Bests /\ b.atten % 5 = 0
  BY <1>1, <1>2 DEF AgcType, Bests
<1>4. best' = b \/ best' = best
  BY DEF Remember
<1> QED BY <1>3, <1>4 DEF SearchType, BestOnGrid

LEMMA GuardUpTyped ==
  ASSUME AgcType
  PROVE  GuardUp \in 0..AttenMax /\ GuardUp % 5 = 0
<1>1. Comp(atten) \in Nat
  BY PaNat DEF AgcType
<1>2. ASSUME Comp(atten) > TargetComp PROVE StepOf(Comp(atten) - TargetComp) \in Nat
  <2>1. Comp(atten) - TargetComp \in Nat
    BY <1>1, <1>2, SearchAssumption
  <2> QED BY <2>1, StepOfType
<1>3. PICK step \in Nat : GuardUp = Up(step)
  BY <1>2, SearchAssumption DEF GuardUp
<1> QED BY <1>3, UpRange DEF AgcType

LEMMA DownTyped ==
  ASSUME AgcType, SearchType
  PROVE  /\ Down \in Int /\ Down % 5 = 0 /\ Down <= atten
         /\ floor <= AttenMax /\ Larger(Down, floor) \in 0..AttenMax
         /\ Larger(Down, floor) % 5 = 0
<1>1. Error \in Nat
  BY PaNat, SearchAssumption DEF Error, AgcType
<1>2. PICK n \in Nat : /\ n = (IF coarse THEN CoarseStep ELSE StepOf(Error))
                       /\ n % 5 = 0
  BY <1>1, StepOfType, SearchAssumption
<1>3. atten - n \in Int /\ (atten - n) % 5 = 0
  BY <1>2, SearchAssumption DEF AgcType
<1>4. Down = atten - n
  BY <1>2, <1>3, QuantizeOnGrid DEF Down
<1>5. PICK d \in Int : d = Down
  BY <1>3, <1>4
<1>6. d % 5 = 0 /\ d <= atten
  BY <1>2, <1>3, <1>4, <1>5, SearchAssumption DEF AgcType
<1>7. floor \in 0..AttenMax /\ floor % 5 = 0 /\ atten \in 0..AttenMax
  BY DEF SearchType, AgcType
<1> QED BY <1>5, <1>6, <1>7, SearchAssumption

LEMMA ErrorStepTyped ==
  ASSUME AgcType PROVE Up(StepOf(Error)) \in 0..AttenMax /\ Up(StepOf(Error)) % 5 = 0
<1>1. Error \in Nat
  BY PaNat, SearchAssumption DEF Error, AgcType
<1> QED BY <1>1, StepOfType, UpRange DEF AgcType

LEMMA SearchLevelTyped ==
  ASSUME TypeInv, stage = "search", NEW r \in Readings(TRUE), SearchLevel(r)
  PROVE  Iterates /\ orx' \in OrxSteps /\ empties' = 0
<1> DEFINE o == Observe(orx, Capture(r, TRUE))
<1>1. AgcType /\ SearchType
  BY DEF TypeInv
<1>2. o \in OrxSteps /\ r \in ReadingType
  BY <1>1, ReadingFacts
<1> HIDE DEF o
<1>3. orx' = o /\ empties' = 0
  BY DEF SearchLevel, o
<1>4. coarse \in BOOLEAN
  BY <1>1 DEF SearchType
<1> SUFFICES Iterates
  BY <1>2, <1>3
<1>5. CASE ClipGuard(o, r)
  <2>1. PICK g \in 0..AttenMax : g = GuardUp /\ g % 5 = 0
    BY <1>1, GuardUpTyped
  <2>2. CASE Walk(o, GuardUp) /\ Continue /\ floor' = Larger(floor, GuardUp)
             /\ guard' = TRUE /\ UNCHANGED <<coarse, best>>
    <3>1. OnGrid
      BY <1>1, <1>2, <2>1, <2>2, WalkTyped
    <3>2. FloorOnGrid
      BY <1>1, <2>1, <2>2, SearchAssumption DEF FloorOnGrid, SearchType
    <3> QED BY <1>1, <2>2, <3>1, <3>2, RunsOn, SameBest DEF Iterates
  <2>3. CASE Stay /\ Finish("clips at the ceiling") /\ UNCHANGED best
    <3>1. OnGrid /\ RunsOrEnds
      BY <1>1, <2>3, StayTyped, FinishTyped
    <3> QED BY <1>1, <1>4, <2>3, <3>1, SameFloor, SameBest DEF Finish, Iterates
  <2> QED BY <1>5, <2>2, <2>3 DEF ClipGuard
<1>6. ASSUME Counts(o, r), Stay,
             NEW kind \in {"converged", "floor", "clip guard floor", "ceiling"},
             Finish(kind)
      PROVE  Iterates
  <2>1. OnGrid /\ RunsOrEnds
    BY <1>1, <1>6, StayTyped, FinishTyped
  <2>2. FloorOnGrid
    BY <1>1, <1>4, <1>6, SameFloor DEF Finish
  <2> QED BY <1>1, <1>6, <2>1, <2>2, RememberTyped DEF Counts, Iterates
<1>7. ASSUME Counts(o, r), NEW a \in 0..AttenMax, a % 5 = 0, Walk(o, a), Continue,
             coarse' \in BOOLEAN, UNCHANGED <<floor, guard>>
      PROVE  Iterates
  <2>1. OnGrid
    BY <1>1, <1>2, <1>7, WalkTyped
  <2> QED BY <1>1, <1>7, <2>1, RunsOn, SameFloor, RememberTyped DEF Counts, Iterates
<1>8. CASE Converge(o, r)
  BY <1>6, <1>8 DEF Converge
<1>9. CASE DriveUp(o, r)
  <2>1. CASE Stay /\ Finish(IF guard THEN "clip guard floor" ELSE "floor")
    <3>1. PICK kind \in {"clip guard floor", "floor"} : Finish(kind)
      BY <2>1
    <3> QED BY <1>6, <1>9, <2>1, <3>1 DEF DriveUp
  <2>2. CASE Walk(o, Larger(Down, floor)) /\ Continue /\ coarse' = FALSE
             /\ UNCHANGED <<floor, guard>>
    <3>1. PICK a \in 0..AttenMax : a = Larger(Down, floor) /\ a % 5 = 0
      BY <1>1, DownTyped
    <3> QED BY <1>7, <1>9, <2>2, <3>1 DEF DriveUp
  <2> QED BY <1>9, <2>1, <2>2 DEF DriveUp
<1>10. CASE DriveDown(o, r)
  <2>1. CASE Stay /\ Finish("ceiling")
    BY <1>6, <1>10, <2>1 DEF DriveDown
  <2>2. CASE Walk(o, Up(StepOf(Error))) /\ Continue /\ UNCHANGED <<floor, guard, coarse>>
    <3>1. PICK a \in 0..AttenMax : a = Up(StepOf(Error)) /\ a % 5 = 0
      BY <1>1, ErrorStepTyped
    <3> QED BY <1>4, <1>7, <1>10, <2>2, <3>1 DEF DriveDown
  <2> QED BY <1>10, <2>1, <2>2 DEF DriveDown
<1>11. CASE StillClips(o, r)
  <2>1. Up(FineStep) \in 0..AttenMax /\ Up(FineStep) % 5 = 0
    BY <1>1, UpRange, SearchAssumption DEF AgcType
  <2>2. OnGrid
    BY <1>1, <1>11, <2>1 DEF StillClips, OnGrid, AgcType
  <2>3. RunsOrEnds
    BY <1>1, <1>11, <2>2, FinishTyped DEF StillClips
  <2> QED BY <1>1, <1>4, <1>11, <2>2, <2>3, SameFloor, SameBest DEF StillClips, Finish, Iterates
<1>12. CASE Releveled(o, r)
  <2>1. Nearest(o, r) # None => Nearest(o, r).gain \in Int
    BY <1>2, NearTyped, GainAssumption DEF Nearest, CaptureType
  <2>2. StepFor(o, r) \in Int /\ gain \in Int
    BY <1>1, <1>2, StepForInt, GainAssumption DEF AgcType
  <2>3. gain' \in GainMin..GainMax
    BY <1>12, <2>1, <2>2, ClampRange DEF Releveled
  <2>4. OnGrid
    BY <1>1, <1>12, <2>3 DEF Releveled, OnGrid, AgcType
  <2> QED BY <1>1, <1>4, <1>12, <2>4, RunsOn, SameFloor, SameBest DEF Releveled, Iterates
<1> QED BY <1>5, <1>8, <1>9, <1>10, <1>11, <1>12 DEF SearchLevel, o

LEMMA StartSearchTyped == ASSUME TypeInv, StartSearch PROVE TypeInv'
<1>1. AgcType /\ SearchType
  BY DEF TypeInv
<1>2. PICK x \in 0..AttenMax : x = Larger(AttenMin, Smaller(StartAtten, AttenMax))
  BY SearchAssumption
<1>3. atten' \in 0..AttenMax /\ atten' % 5 = 0
  BY <1>2, QuantizeRange DEF StartSearch
<1>4. gain \in Int /\ gain' \in GainMin..GainMax
  BY <1>1, ClampRange, GainAssumption DEF StartSearch, AgcType
<1>5. AgcType'
  BY <1>1, <1>3, <1>4, NewStepTyped, GainAssumption DEF StartSearch, AgcType
<1>6. SearchType' /\ HasResult'
  BY <1>1 DEF StartSearch, searchVars, SearchType, HasResult
<1> QED BY <1>5, <1>6 DEF TypeInv

LEMMA SearchTyped == ASSUME TypeInv, Search PROVE TypeInv'
<1>1. PICK r \in Readings(TRUE) : last' = Capture(r, TRUE) /\ (SearchLevel(r) \/ SearchEmpty(r))
  BY DEF Search
<1>2. AgcType /\ SearchType /\ HasResult /\ stage = "search"
  BY DEF TypeInv, Search
<1>3. r \in ReadingType /\ last' \in Captures
  BY <1>1, <1>2, ReadingFacts
<1>4. UNCHANGED <<bench, level, backoff, locked, row>>
  BY DEF Search
<1>5. CASE SearchLevel(r)
  <2>1. Iterates /\ orx' \in OrxSteps /\ empties' = 0 /\ radio' = radio
    BY <1>2, <1>5, SearchLevelTyped DEF SearchLevel
  <2>2. AgcType'
    <3>1. /\ atten' \in 0..AttenMax /\ atten' % 5 = 0 /\ gain' \in GainMin..GainMax
          /\ iter' \in Nat /\ stage' \in {"search", "locked"}
      BY <2>1 DEF Iterates, OnGrid, RunsOrEnds
    <3>2. empties' \in 0..EmptyRetakes
      BY <2>1, GainAssumption
    <3>3. bench' = bench /\ level' = level /\ radio' = radio
      BY <1>4, <2>1
    <3> QED BY <1>2, <1>3, <2>1, <3>1, <3>2, <3>3 DEF AgcType
  <2>3. SearchType'
    BY <1>2, <1>4, <2>1 DEF SearchType, Iterates, FloorOnGrid, BestOnGrid, RunsOrEnds
  <2>4. HasResult'
    BY <1>2, <1>4, <2>1 DEF HasResult, Iterates, RunsOrEnds
  <2> QED BY <2>2, <2>3, <2>4 DEF TypeInv
<1>6. CASE SearchEmpty(r)
  <2>1. ASSUME NoDataAgain(EmptyStepIdx), iter' = iter + 1 PROVE AgcType'
    BY <1>2, <1>3, <2>1, NoDataTyped, WindowAssumption DEF AgcType
  <2>2. ASSUME Fatal PROVE AgcType'
    BY <1>2, <1>3, <2>2, FatalTyped
  <2>3. AgcType'
    BY <1>6, <2>1, <2>2 DEF SearchEmpty
  <2>4. SearchType' /\ stage' \in {"search", "error"}
    BY <1>2, <1>4, <1>6 DEF SearchType, SearchEmpty, NoDataAgain, Fatal
  <2>5. HasResult'
    BY <1>2, <1>4, <1>6, <2>4 DEF HasResult, SearchEmpty
  <2> QED BY <2>3, <2>4, <2>5 DEF TypeInv
<1> QED BY <1>1, <1>5, <1>6

LEMMA SearchOverTyped == ASSUME TypeInv, SearchOver PROVE TypeInv'
<1>1. AgcType /\ SearchType
  BY DEF TypeInv
<1>2. best # None => best \in Bests /\ best.atten % 5 = 0
  BY <1>1 DEF SearchType
<1>3. atten' \in 0..AttenMax /\ atten' % 5 = 0 /\ gain' \in GainMin..GainMax
  BY <1>1, <1>2 DEF SearchOver, Stay, AgcType, Bests
<1>4. Comp(atten) \in Nat
  BY <1>1, PaNat DEF AgcType
<1>5. result' \in Results /\ result'.atten % 5 = 0
  BY <1>2, <1>3, <1>4 DEF SearchOver, Results, Bests
<1>6. AgcType'
  BY <1>1, <1>3 DEF SearchOver, AgcType
<1>7. SearchType' /\ HasResult'
  BY <1>1, <1>5 DEF SearchOver, SearchType, HasResult
<1> QED BY <1>6, <1>7 DEF TypeInv

-----------------------------------------------------------------------------
(* find_operating_point *)

LEMMA BackOffTyped == ASSUME TypeInv, BackOff PROVE TypeInv'
<1>1. AgcType /\ SearchType /\ result \in Results /\ backoff \in Nat
  BY SearchAssumption DEF TypeInv, BackOff, HasResult, SearchType
<1>2. PICK x \in 0..AttenMax : x = Smaller(result.atten + 100 * backoff, AttenMax)
  <2>1. result.atten \in 0..AttenMax
    BY <1>1 DEF Results
  <2> QED BY <1>1, <2>1, SearchAssumption
<1>3. Quantize(x) \in 0..AttenMax /\ Quantize(x) % 5 = 0
  BY QuantizeRange
<1>4. CASE backoff = 0
  BY <1>1, <1>4, GainAssumption
     DEF BackOff, StartCapture, AgcType, SearchType, HasResult, TypeInv
<1>5. CASE backoff # 0
  <2>1. /\ atten' = Quantize(x) /\ stage' = StartStage /\ gain' = StartGain
        /\ orx' = NewStep /\ empties' = 0 /\ iter' = 0 /\ level' = Unleveled
        /\ UNCHANGED <<bench, radio, last>>
    BY <1>2, <1>5 DEF BackOff
  <2>2. bench \in Benches /\ 0 \in 0..EmptyRetakes
    BY <1>1, GainAssumption DEF AgcType
  <2>3. AgcType'
    BY <1>1, <1>3, <2>1, <2>2, StartTyped, NewStepTyped DEF AgcType, Unleveled
  <2>4. SearchType' /\ HasResult'
    BY <1>1, <1>5 DEF BackOff, SearchType, HasResult
  <2> QED BY <2>3, <2>4 DEF TypeInv
<1> QED BY <1>4, <1>5

LEMMA BackedOffTyped == ASSUME TypeInv, BackedOff PROVE TypeInv'
<1>1. AgcType /\ SearchType /\ HasResult
  BY DEF TypeInv
<1>2. AgcType'
  BY <1>1, GainAssumption DEF BackedOff, StartCapture, searchVars, AgcType
<1>3. SearchType' /\ HasResult'
  BY <1>1 DEF BackedOff, StartCapture, searchVars, SearchType, HasResult
<1> QED BY <1>2, <1>3 DEF TypeInv

LEMMA CapturePointTyped == ASSUME TypeInv, CapturePoint PROVE TypeInv'
<1>1. AgcType /\ SearchType /\ result \in Results
  BY DEF TypeInv, CapturePoint, HasResult
<1>2. PICK r \in Readings(TRUE) :
        /\ last' = Capture(r, TRUE)
        /\ \/ /\ r.data /\ stage' = "done" /\ radio' = "off"
              /\ row' = [locked |-> result.atten, atten |-> atten, gain |-> gain,
                         converged |-> result.kind = "converged",
                         peak |-> r.peak, railed |-> r.railed]
              /\ UNCHANGED empties
           \/ /\ ~r.data /\ empties < EmptyRetakes /\ empties' = empties + 1
              /\ UNCHANGED <<stage, radio, row>>
           \/ /\ ~r.data /\ empties = EmptyRetakes
              /\ stage' = "error" /\ radio' = "off"
              /\ UNCHANGED <<row, empties>>
  BY DEF CapturePoint
<1>3. r \in ReadingType /\ last' \in Captures
  BY <1>1, <1>2, ReadingFacts
<1>4. AgcType'
  <2>1. /\ stage' \in {"done", "error", "capture"} /\ radio' \in {"on", "off", "gone"}
        /\ UNCHANGED <<bench, atten, gain, orx, iter, level>>
    BY <1>1, <1>2 DEF CapturePoint, AgcType
  <2>2. empties' \in 0..EmptyRetakes
    BY <1>1, <1>2, GainAssumption DEF AgcType
  <2> QED BY <1>1, <1>3, <2>1, <2>2 DEF AgcType
<1>5. row' \in Rows \cup {None}
  <2>1. CASE row' = [locked |-> result.atten, atten |-> atten, gain |-> gain,
                     converged |-> result.kind = "converged",
                     peak |-> r.peak, railed |-> r.railed]
    <3>1. r.peak \in Int /\ r.railed \in BOOLEAN /\ result.atten \in 0..AttenMax
      BY <1>1, <1>3 DEF ReadingType, Results
    <3>2. atten \in 0..AttenMax /\ gain \in GainMin..GainMax
      BY <1>1 DEF AgcType
    <3>3. (result.kind = "converged") \in BOOLEAN
      OBVIOUS
    <3> QED BY <2>1, <3>1, <3>2, <3>3 DEF Rows
  <2>2. CASE row' = row
    BY <1>1, <2>2 DEF SearchType
  <2> QED BY <1>2, <2>1, <2>2
<1>6. SearchType' /\ HasResult'
  BY <1>1, <1>5 DEF CapturePoint, SearchType, HasResult
<1> QED BY <1>4, <1>6 DEF TypeInv

LEMMA TypeStep == TypeInv /\ [Next]_vars => TypeInv'
<1> SUFFICES ASSUME TypeInv, [Next]_vars PROVE TypeInv'
  OBVIOUS
<1>1. CASE Next
  BY <1>1, AutoLevelTyped, StartSearchTyped, SearchTyped, SearchOverTyped, BackOffTyped,
     BackedOffTyped, CapturePointTyped DEF Next
<1>2. CASE UNCHANGED vars
  BY <1>2 DEF vars, agcVars, searchVars, TypeInv, AgcType, SearchType, HasResult
<1> QED BY <1>1, <1>2

(* Types are kept by the whole of an operating point: the attenuation      *)
(* never leaves the attenuator's grid and range, nor the gain its table.   *)
THEOREM TypeCorrect == Spec => []TypeOK
<1>1. TypeInv => TypeOK
  BY DEF TypeInv, AgcType, SearchType, TypeOK
<1> QED BY <1>1, InitTyped, TypeStep, PTL DEF Spec

-----------------------------------------------------------------------------
(* What stage C leaves is what it measured.                                *)
THEOREM LevelsAreClean == Spec => []AcceptedLevelIsClean
<1>1. Init => AcceptedLevelIsClean
  BY DEF Init, StartStage, AcceptedLevelIsClean
<1>2. AcceptedLevelIsClean /\ [Next]_vars => AcceptedLevelIsClean'
  <2> SUFFICES ASSUME AcceptedLevelIsClean, [Next]_vars, stage' = "accepted"
               PROVE  last'.full /\ last'.data /\ ~Clipped(last)'
                      /\ last'.gain = gain' /\ last'.drive = atten'
    BY DEF AcceptedLevelIsClean
  <2>1. CASE Verify
    <3>1. PICK r \in Readings(TRUE) : last' = Capture(r, TRUE) /\ VerifyAccepts(r)
      BY <2>1 DEF Verify, VerifyBacksOff, VerifyFails, NoDataAgain, Fatal
    <3> QED BY <3>1 DEF VerifyAccepts, Capture, Clipped
  <2>2. CASE UNCHANGED vars
    BY <2>2 DEF vars, agcVars, AcceptedLevelIsClean, Clipped
  <2>3. Verify \/ UNCHANGED vars
    BY DEF Next, AutoLevel, Level, Floor, FloorEmpty, FloorTooStrong, FloorJump, NoDataAgain,
           Fatal, Trim, TrimEmpty, TrimLevel, TrimSettles, TrimMoves, Settle, TrimsOver,
           StartSearch, Search, SearchLevel, SearchEmpty, ClipGuard, Continue, Finish,
           Converge, DriveUp, DriveDown, StillClips, Releveled, SearchOver, BackOff,
           BackedOff, StartCapture, StartStage, CapturePoint
  <2> QED BY <2>1, <2>2, <2>3
<1> QED BY <1>1, <1>2, PTL DEF Spec

-----------------------------------------------------------------------------
(* The walk and its floor.  Until the search starts the floor is           *)
(* atten_min_db; while it runs the attenuation is at or above the floor;   *)
(* after it the radio stays at or above the lock.                          *)
Leveling == {"floor", "trim", "verify", "accepted"}

Fresh == ~locked /\ stage \in Leveling => floor = Quantize(AttenMin)

Above == stage = "search" => atten >= floor

Over == locked \/ stage \in {"locked", "capture", "done"}

Locked ==
  /\ stage \in {"capture", "done"} => locked
  /\ stage \in {"search", "locked"} => ~locked
  /\ stage = "locked" => result.atten = atten
  /\ locked => atten = Quantize(Smaller(result.atten + 100 * backoff, AttenMax))

LockAbove == Over /\ result.kind # "max iterations" => result.atten >= floor

WalkInv == Fresh /\ Above /\ Locked /\ LockAbove

LEMMA WalkInit == Init => WalkInv
BY StartTyped DEF Init, WalkInv, Fresh, Above, Locked, LockAbove, Leveling, Over

LEMMA LevelKeepsStages ==
  ASSUME Level
  PROVE  /\ stage \in Leveling /\ stage' \in Leveling \cup {"error"}
         /\ atten' = atten /\ bench' = bench
BY DEF Level, Leveling, Floor, FloorEmpty, FloorTooStrong, FloorJump, NoDataAgain, Fatal,
       Trim, TrimEmpty, TrimLevel, TrimSettles, TrimMoves, Settle, TrimsOver, Verify,
       VerifyBacksOff, VerifyFails, VerifyAccepts

(* One iteration of the search keeps the attenuation at or above the       *)
(* floor, and what it locks is what it leaves.                             *)
LEMMA SearchLevelAbove ==
  ASSUME TypeInv, stage = "search", atten >= floor,
         NEW r \in Readings(TRUE), SearchLevel(r)
  PROVE  atten' >= floor' /\ (stage' = "locked" => result'.atten = atten')
<1> DEFINE o == Observe(orx, Capture(r, TRUE))
<1>1. /\ AgcType /\ SearchType /\ atten \in 0..AttenMax /\ floor \in 0..AttenMax
      /\ AttenMax \in Nat /\ atten % 5 = 0
  BY SearchAssumption DEF TypeInv, AgcType, SearchType
<1>2. ASSUME NEW kind, Finish(kind) PROVE result'.atten = atten'
  BY <1>2 DEF Finish, Outcome
<1>3. Continue => stage' = "search"
  BY DEF Continue
<1> HIDE DEF o
<1>4. CASE ClipGuard(o, r)
  <2>1. PICK g \in 0..AttenMax : g = GuardUp
    BY <1>1, GuardUpTyped
  <2>2. CASE Walk(o, GuardUp) /\ Continue /\ floor' = Larger(floor, GuardUp) /\ GuardUp > atten
    <3>1. atten' = g /\ floor' = Larger(floor, g) /\ g > atten
      BY <2>1, <2>2 DEF Walk
    <3> QED BY <1>1, <1>3, <2>1, <2>2, <3>1
  <2>3. CASE Stay /\ Finish("clips at the ceiling")
    BY <1>1, <1>2, <2>3 DEF Stay, Finish
  <2> QED BY <1>4, <2>2, <2>3 DEF ClipGuard
<1>5. CASE Converge(o, r)
  BY <1>1, <1>2, <1>5 DEF Converge, Stay, Finish
<1>6. CASE DriveUp(o, r)
  <2>1. PICK d \in Int : d = Down
    BY <1>1, DownTyped
  <2>2. CASE Walk(o, Larger(Down, floor)) /\ Continue /\ UNCHANGED <<floor, guard>>
    <3>1. atten' = Larger(d, floor) /\ floor' = floor
      BY <2>1, <2>2 DEF Walk
    <3> QED BY <1>1, <1>3, <2>1, <2>2, <3>1
  <2>3. CASE Stay /\ Finish(IF guard THEN "clip guard floor" ELSE "floor")
    BY <1>1, <1>2, <2>3 DEF Stay, Finish
  <2> QED BY <1>6, <2>2, <2>3 DEF DriveUp
<1>7. CASE DriveDown(o, r)
  <2>1. PICK u \in 0..AttenMax : u = Up(StepOf(Error))
    BY <1>1, ErrorStepTyped
  <2> QED BY <1>1, <1>2, <1>3, <1>7, <2>1 DEF DriveDown, Stay, Walk, Finish
<1>8. CASE StillClips(o, r)
  <2>1. Up(FineStep) \in 0..AttenMax /\ Up(FineStep) >= atten
    BY <1>1, UpRange, SearchAssumption
  <2> QED BY <1>1, <1>2, <1>8, <2>1 DEF StillClips, Finish
<1>9. CASE Releveled(o, r)
  BY <1>1, <1>3, <1>9 DEF Releveled
<1> QED BY <1>4, <1>5, <1>6, <1>7, <1>8, <1>9 DEF SearchLevel, o

LEMMA BackedOffAbove ==
  ASSUME NEW a \in 0..AttenMax, NEW f \in 0..AttenMax, f % 5 = 0, a >= f, NEW b \in Nat
  PROVE  Quantize(Smaller(a + 100 * b, AttenMax)) >= f
<1>1. AttenMax \in Nat
  BY SearchAssumption
<1>2. PICK x \in Int : x = Smaller(a + 100 * b, AttenMax) /\ x >= f
  BY <1>1
<1>3. Quantize(x) >= f
  BY <1>1, <1>2 DEF Quantize
<1> QED BY <1>2, <1>3

LEMMA WalkStep == TypeInv /\ TypeInv' /\ WalkInv /\ [Next]_vars => WalkInv'
<1> SUFFICES ASSUME TypeInv, TypeInv', WalkInv, [Next]_vars PROVE WalkInv'
  OBVIOUS
<1>0. /\ atten \in 0..AttenMax /\ floor \in 0..AttenMax /\ AttenMax \in Nat
      /\ atten % 5 = 0 /\ AgcType /\ SearchType /\ HasResult
      /\ Fresh /\ Above /\ Locked /\ LockAbove
  BY SearchAssumption DEF TypeInv, AgcType, SearchType, WalkInv
<1>1. CASE AutoLevel
  <2>1. /\ stage \in Leveling /\ stage' \in Leveling \cup {"error"} /\ atten' = atten
        /\ UNCHANGED <<backoff, locked, floor, result>>
    BY <1>1, LevelKeepsStages DEF AutoLevel, searchVars
  <2> QED BY <1>0, <2>1 DEF WalkInv, Fresh, Above, Locked, LockAbove, Over, Leveling
<1>2. CASE StartSearch
  <2>1. /\ stage = "accepted" /\ ~locked /\ stage' = "search"
        /\ atten' = Quantize(Larger(AttenMin, Smaller(StartAtten, AttenMax)))
        /\ UNCHANGED <<backoff, locked, floor, result>>
    BY <1>2 DEF StartSearch, searchVars
  <2>2. floor = Quantize(AttenMin)
    BY <1>0, <2>1 DEF Fresh, Leveling
  <2>3. atten' >= floor'
    BY <2>1, <2>2, SearchAssumption DEF Quantize
  <2> QED BY <2>1, <2>3 DEF WalkInv, Fresh, Above, Locked, LockAbove, Over, Leveling
<1>3. CASE Search
  <2>1. PICK r \in Readings(TRUE) : SearchLevel(r) \/ SearchEmpty(r)
    BY <1>3 DEF Search
  <2>2. stage = "search" /\ ~locked /\ ~locked' /\ atten >= floor
    BY <1>0, <1>3 DEF Search, Locked, Above
  <2>3. CASE SearchLevel(r)
    <3>1. atten' >= floor' /\ (stage' = "locked" => result'.atten = atten')
      BY <2>2, <2>3, SearchLevelAbove
    <3>2. stage' \in {"search", "locked"}
      BY <2>2, <2>3, SearchLevelTyped DEF Iterates, RunsOrEnds
    <3> QED BY <2>2, <3>1, <3>2 DEF WalkInv, Fresh, Above, Locked, LockAbove, Over, Leveling
  <2>4. CASE SearchEmpty(r)
    <3>1. stage' \in {"search", "error"} /\ UNCHANGED <<atten, floor>>
      BY <2>2, <2>4 DEF SearchEmpty, NoDataAgain, Fatal
    <3> QED BY <2>2, <3>1 DEF WalkInv, Fresh, Above, Locked, LockAbove, Over, Leveling
  <2> QED BY <2>1, <2>3, <2>4
<1>4. CASE SearchOver
  <2>1. /\ stage = "search" /\ ~locked /\ ~locked' /\ stage' = "locked"
        /\ result'.kind = "max iterations" /\ result'.atten = atten'
    BY <1>0, <1>4 DEF SearchOver, Locked
  <2> QED BY <2>1 DEF WalkInv, Fresh, Above, Locked, LockAbove, Over, Leveling
<1>5. CASE BackOff
  <2>1. /\ stage = "locked" /\ locked' /\ UNCHANGED <<backoff, floor, result>>
        /\ result.atten = atten /\ result \in Results
    BY <1>0, <1>5 DEF BackOff, Locked, HasResult
  <2>2. stage' \in {"floor", "trim", "capture"}
    BY <1>0, <1>5, StartTyped DEF BackOff, StartCapture, AgcType
  <2>3. atten' = Quantize(Smaller(result.atten + 100 * backoff, AttenMax))
    <3>1. CASE backoff = 0
      <4>1. Smaller(atten + 100 * backoff, AttenMax) = atten
        BY <1>0, <3>1
      <4>2. Quantize(atten) = atten
        BY <1>0, QuantizeOnGrid
      <4> QED BY <1>5, <2>1, <3>1, <4>1, <4>2 DEF BackOff
    <3>2. CASE backoff # 0
      BY <1>5, <3>2 DEF BackOff
    <3> QED BY <3>1, <3>2
  <2> QED BY <1>0, <2>1, <2>2, <2>3 DEF WalkInv, Fresh, Above, Locked, LockAbove, Over, Leveling
<1>6. CASE BackedOff
  <2>1. /\ locked /\ stage' = "capture" /\ UNCHANGED <<atten, backoff, locked, floor, result>>
    BY <1>6 DEF BackedOff, StartCapture, searchVars
  <2> QED BY <1>0, <2>1 DEF WalkInv, Fresh, Above, Locked, LockAbove, Over, Leveling
<1>7. CASE CapturePoint
  <2>1. /\ stage = "capture" /\ stage' \in {"capture", "done", "error"}
        /\ UNCHANGED <<atten, backoff, locked, floor, result>>
    BY <1>7 DEF CapturePoint
  <2> QED BY <1>0, <2>1 DEF WalkInv, Fresh, Above, Locked, LockAbove, Over, Leveling
<1>8. CASE UNCHANGED vars
  BY <1>0, <1>8 DEF vars, agcVars, searchVars, WalkInv, Fresh, Above, Locked, LockAbove, Over
<1> QED BY <1>1, <1>2, <1>3, <1>4, <1>5, <1>6, <1>7, <1>8 DEF Next

(* The attenuation is at or above anything the lock is at or above, also   *)
(* once it is backed off.                                                  *)
LEMMA AboveTheLock ==
  ASSUME TypeInv, WalkInv, stage \in {"locked", "capture", "done"},
         NEW f \in 0..AttenMax, f % 5 = 0, result.atten >= f
  PROVE  atten >= f
<1>1. stage = "locked" \/ locked
  BY DEF WalkInv, Locked
<1>2. CASE stage = "locked"
  BY <1>2 DEF WalkInv, Locked
<1>3. CASE locked
  <2>1. result.atten \in 0..AttenMax /\ backoff \in Nat
    BY <1>3, SearchAssumption DEF TypeInv, HasResult, Results, SearchType
  <2> QED BY <1>3, <2>1, BackedOffAbove DEF WalkInv, Locked
<1> QED BY <1>1, <1>2, <1>3

-----------------------------------------------------------------------------
(* What is recorded as converged.  A lock that converged was read in the   *)
(* window at the target, and was judged not to clip; the level at the      *)
(* radio's settings is clean from there to the recorded capture.           *)
FullReading == Reading(FullLevel(atten, gain))

LockHolds ==
  Over /\ result.kind = "converged" =>
    /\ Distance(Comp(result.atten), TargetComp) <= CompTol
    /\ result.atten >= bench.slopeFrom - SlopeNoise

LevelHolds ==
  /\ stage = "accepted" => ~Clipped(FullReading)
  /\ stage \in {"locked", "capture"} /\ result.kind = "converged" => ~Clipped(FullReading)

RowIsLast == row # None => stage = "done"

RecordInv == LockHolds /\ LevelHolds /\ RowIsLast /\ RecordedLockHolds

LEMMA RecordInit == Init => RecordInv
BY StartTyped DEF Init, RecordInv, LockHolds, LevelHolds, RowIsLast, RecordedLockHolds, Over

LEMMA DataReading ==
  ASSUME AgcType, NEW r \in Readings(TRUE), r.data PROVE r = FullReading
<1>0. bench \in BenchType /\ atten \in Int /\ gain \in Int
  BY BenchTyped, SearchAssumption, GainAssumption DEF AgcType
<1>1. FullLevel(atten, gain) \in Int
  BY <1>0, LevelTyped
<1>2. FullLevel(atten, gain) - 0 = FullLevel(atten, gain)
  BY <1>1
<1>3. r \in {FullReading, NoData}
  BY <1>2 DEF Readings, FullReading
<1> QED BY <1>3 DEF NoData

LEMMA CleanCapture ==
  ASSUME AgcType, NEW r \in Readings(TRUE), r.data, ~Clipped(r), UNCHANGED <<bench, atten, gain>>
  PROVE  ~Clipped(FullReading)'
<1>1. r = FullReading
  BY DataReading
<1>2. FullReading' = FullReading
  BY DEF FullReading, Reading, FullLevel, Table, Comp
<1> QED BY <1>1, <1>2 DEF Clipped

LEMMA NotClipping ==
  ASSUME AgcType, FALSE \in PaClips PROVE atten >= bench.slopeFrom - SlopeNoise
<1>1. bench.slopeFrom \in Int /\ atten \in Nat /\ SlopeNoise \in Nat
  BY BenchTyped, SearchAssumption DEF AgcType, BenchType
<1>2. Distance(atten, bench.slopeFrom) < SlopeNoise \/ ~(atten < bench.slopeFrom)
  BY DEF PaClips
<1> QED BY <1>1, <1>2

LEMMA LevelClean ==
  ASSUME AgcType, Level PROVE stage' = "accepted" => ~Clipped(FullReading)'
<1> SUFFICES ASSUME stage' = "accepted" PROVE ~Clipped(FullReading)'
  OBVIOUS
<1>1. PICK r \in Readings(TRUE) : VerifyAccepts(r)
  BY DEF Level, Floor, FloorEmpty, FloorTooStrong, FloorJump, NoDataAgain,
         Fatal, Trim, TrimEmpty, TrimLevel, TrimSettles, TrimMoves, Settle, TrimsOver,
         Verify, VerifyBacksOff, VerifyFails
<1> QED BY <1>1, CleanCapture DEF VerifyAccepts

LEMMA ConvergesAtTarget ==
  ASSUME TypeInv, stage = "search", NEW r \in Readings(TRUE), SearchLevel(r),
         stage' = "locked", result'.kind = "converged", bench' = bench
  PROVE  /\ Distance(Comp(result.atten)', TargetComp) <= CompTol
         /\ result'.atten >= bench.slopeFrom - SlopeNoise
         /\ ~Clipped(FullReading)'
<1> DEFINE o == Observe(orx, Capture(r, TRUE))
<1>1. AgcType
  BY DEF TypeInv
<1>2. FALSE \in PaClips /\ Converge(o, r)
  <2> HIDE DEF o
  <2>1. ~Continue
    BY DEF Continue
  <2>2. \A kind : Finish(kind) => kind = "converged"
    BY DEF Finish, Outcome
  <2>3. ~ClipGuard(o, r)
    BY <2>1, <2>2 DEF ClipGuard
  <2>4. ~DriveUp(o, r)
    <3>1. ~Finish(IF guard THEN "clip guard floor" ELSE "floor")
      BY <2>2
    <3> QED BY <2>1, <3>1 DEF DriveUp
  <2>5. ~DriveDown(o, r)
    BY <2>1, <2>2 DEF DriveDown
  <2>6. ~StillClips(o, r) /\ ~Releveled(o, r)
    BY <2>1, <2>2 DEF StillClips, Releveled
  <2> QED BY <2>3, <2>4, <2>5, <2>6 DEF SearchLevel, o
<1>3. Stay /\ AtTarget(r) /\ result'.atten = atten'
  BY <1>2 DEF Converge, Finish, Outcome
<1>4. Comp(result.atten)' = Comp(atten)
  BY <1>3 DEF Comp, Stay
<1>5. ~Clipped(FullReading)'
  BY <1>1, <1>3, CleanCapture DEF AtTarget, InWindow, Stay, SearchLevel
<1> QED BY <1>1, <1>2, <1>3, <1>4, <1>5, NotClipping DEF AtTarget, Error, Stay

LEMMA SameClean ==
  ASSUME UNCHANGED <<bench, atten, gain>>, ~Clipped(FullReading) PROVE ~Clipped(FullReading)'
BY DEF FullReading, Reading, FullLevel, Table, Comp, Clipped

LEMMA SameLock ==
  ASSUME UNCHANGED <<bench, result>>, LockHolds, Over' => Over PROVE LockHolds'
BY DEF LockHolds, Comp

LEMMA RecordStep == TypeInv /\ WalkInv /\ RecordInv /\ [Next]_vars => RecordInv'
<1> SUFFICES ASSUME TypeInv, WalkInv, RecordInv, [Next]_vars PROVE RecordInv'
  OBVIOUS
<1>0. /\ AgcType /\ SearchType /\ HasResult /\ Locked
      /\ LockHolds /\ LevelHolds /\ RowIsLast
  BY DEF TypeInv, WalkInv, RecordInv
<1>1. CASE stage # "capture" /\ stage # "done" /\ ~ UNCHANGED vars
  <2>1. row = None /\ row' = None
    BY <1>0, <1>1 DEF RowIsLast, Next, AutoLevel, StartSearch, Search, SearchOver, BackOff,
       BackedOff, CapturePoint, searchVars
  <2>2. RowIsLast' /\ RecordedLockHolds'
    BY <2>1 DEF RowIsLast, RecordedLockHolds
  <2> SUFFICES LockHolds' /\ LevelHolds'
    BY <2>2 DEF RecordInv
  <2>3. CASE AutoLevel
    <3>1. /\ stage' \in Leveling \cup {"error"} /\ stage \in Leveling
          /\ UNCHANGED <<bench, result, locked>>
      BY <2>3, LevelKeepsStages DEF AutoLevel, searchVars
    <3>2. LockHolds'
      BY <1>0, <3>1, SameLock DEF Over, Leveling
    <3>3. LevelHolds'
      BY <1>0, <2>3, <3>1, LevelClean DEF LevelHolds, AutoLevel, Leveling
    <3> QED BY <3>2, <3>3
  <2>4. CASE StartSearch
    <3>1. /\ stage = "accepted" /\ stage' = "search" /\ UNCHANGED <<bench, result, locked>>
      BY <2>4 DEF StartSearch, searchVars
    <3> QED BY <1>0, <3>1, SameLock DEF Over, LevelHolds
  <2>5. CASE Search
    <3>1. PICK r \in Readings(TRUE) : SearchLevel(r) \/ SearchEmpty(r)
      BY <2>5 DEF Search
    <3>2. stage = "search" /\ ~locked /\ ~locked' /\ bench' = bench
      BY <1>0, <2>5 DEF Search, Locked
    <3>3. CASE SearchLevel(r)
      <4>1. stage' \in {"search", "locked"}
        BY <3>2, <3>3, SearchLevelTyped DEF Iterates, RunsOrEnds
      <4> QED BY <3>2, <3>3, <4>1, ConvergesAtTarget DEF LockHolds, LevelHolds, Over
    <3>4. CASE SearchEmpty(r)
      <4>1. stage' \in {"search", "error"}
        BY <3>2, <3>4 DEF SearchEmpty, NoDataAgain, Fatal
      <4> QED BY <3>2, <4>1 DEF LockHolds, LevelHolds, Over
    <3> QED BY <3>1, <3>3, <3>4
  <2>6. CASE SearchOver
    BY <2>6 DEF SearchOver, LockHolds, LevelHolds
  <2>7. CASE BackOff
    <3>1. stage = "locked" /\ UNCHANGED <<bench, result>>
      BY <2>7 DEF BackOff
    <3>2. LockHolds'
      BY <1>0, <3>1, SameLock DEF Over
    <3>3. CASE backoff = 0
      <4>1. stage' = "capture" /\ UNCHANGED <<bench, atten, gain, result>>
        BY <2>7, <3>3 DEF BackOff, StartCapture
      <4> QED BY <1>0, <3>1, <3>2, <4>1, SameClean DEF LevelHolds
    <3>4. CASE backoff # 0
      <4>1. stage' \in {"floor", "trim"}
        BY <1>0, <2>7, <3>4, StartTyped DEF BackOff, AgcType
      <4> QED BY <3>2, <4>1 DEF LevelHolds
    <3> QED BY <3>3, <3>4
  <2>8. CASE BackedOff
    <3>1. /\ stage = "accepted" /\ locked /\ stage' = "capture"
          /\ UNCHANGED <<bench, atten, gain, result>>
      BY <2>8 DEF BackedOff, StartCapture, searchVars
    <3> QED BY <1>0, <3>1, SameLock, SameClean DEF LevelHolds, Over
  <2> QED BY <1>1, <2>3, <2>4, <2>5, <2>6, <2>7, <2>8 DEF Next, CapturePoint
<1>2. CASE CapturePoint
  <2>1. stage = "capture" /\ locked /\ row = None /\ result \in Results
    BY <1>0, <1>2 DEF CapturePoint, Locked, RowIsLast, HasResult
  <2>2. UNCHANGED <<bench, atten, gain, backoff, locked, result>>
    BY <1>2 DEF CapturePoint
  <2>3. LockHolds'
    BY <1>0, <2>1, <2>2, SameLock DEF Over
  <2>4. stage' \in {"capture", "done", "error"} /\ LevelHolds'
    <3>1. stage' \in {"capture", "done", "error"}
      BY <1>2, <2>1 DEF CapturePoint
    <3> QED BY <1>0, <2>1, <2>2, <3>1, SameClean DEF LevelHolds
  <2>5. PICK r \in Readings(TRUE) :
          /\ last' = Capture(r, TRUE)
          /\ \/ /\ r.data /\ stage' = "done"
                /\ row' = [locked |-> result.atten, atten |-> atten, gain |-> gain,
                           converged |-> result.kind = "converged",
                           peak |-> r.peak, railed |-> r.railed]
             \/ row' = row
    BY <1>2 DEF CapturePoint
  <2>6. CASE row' = row
    BY <2>1, <2>3, <2>4, <2>6 DEF RecordInv, RowIsLast, RecordedLockHolds
  <2>7. CASE row' # row
    <3>0. /\ r.data /\ stage' = "done"
          /\ row' = [locked |-> result.atten, atten |-> atten, gain |-> gain,
                     converged |-> result.kind = "converged",
                     peak |-> r.peak, railed |-> r.railed]
      BY <2>5, <2>7
    <3>1. /\ r.data /\ stage' = "done" /\ row'.locked = result.atten
          /\ row'.atten = atten /\ row'.gain = gain
          /\ row'.converged = (result.kind = "converged")
          /\ last'.drive = atten /\ last'.gain = gain
      BY <2>5, <3>0 DEF Capture
    <3>2. RowIsLast'
      BY <3>1 DEF RowIsLast
    <3>3. ASSUME row'.converged PROVE RecordedLockHolds'
      <4>1. /\ Distance(Comp(result.atten), TargetComp) <= CompTol
            /\ result.atten >= bench.slopeFrom - SlopeNoise
            /\ ~Clipped(FullReading)
            /\ atten = Quantize(Smaller(result.atten + 100 * backoff, AttenMax))
        BY <1>0, <2>1, <3>1, <3>3 DEF LockHolds, LevelHolds, Over, Locked
      <4>2. r = FullReading
        BY <1>0, <3>1, DataReading
      <4>3. ~Clipped(last)'
        BY <2>5, <4>1, <4>2 DEF Clipped, Capture
      <4>4. Comp(row.locked)' = Comp(result.atten)
        BY <2>2, <3>1 DEF Comp
      <4> QED BY <2>2, <3>1, <4>1, <4>3, <4>4 DEF RecordedLockHolds
    <3> QED BY <2>3, <2>4, <3>2, <3>3 DEF RecordInv, RecordedLockHolds
  <2> QED BY <2>6, <2>7
<1>3. CASE UNCHANGED vars
  BY <1>3 DEF vars, agcVars, searchVars, RecordInv, LockHolds, LevelHolds, RowIsLast, Over,
     RecordedLockHolds, FullReading, Reading, FullLevel, Table, Comp, Clipped
<1>4. stage = "done" => UNCHANGED vars
  BY DEF Next, AutoLevel, Level, Floor, Trim, TrimsOver, Verify, StartSearch, Search,
     SearchOver, BackOff, BackedOff, CapturePoint
<1>5. stage = "capture" => CapturePoint \/ UNCHANGED vars
  BY DEF Next, AutoLevel, Level, Floor, Trim, TrimsOver, Verify, StartSearch, Search,
     SearchOver, BackOff, BackedOff, CapturePoint
<1> QED BY <1>1, <1>2, <1>3, <1>4, <1>5

(* For every bench, whether the PA clips near the target or not: a         *)
(* condition recorded as converged was locked at the target and judged not *)
(* to clip there, was captured at the lock backed off, and did not clip.   *)
THEOREM RecordedLocks == Spec => []RecordedLockHolds
<1>1. RecordInv => RecordedLockHolds
  BY DEF RecordInv
<1> QED BY <1>1, InitTyped, TypeStep, WalkInit, WalkStep, RecordInit, RecordStep, PTL DEF Spec
-----------------------------------------------------------------------------
(* The gain follows the drive.                                             *)

(* Rounding loses half a divisor at most.                                  *)
LEMMA RoundDivUpper ==
  ASSUME NEW a \in Int, NEW b \in Nat \ {0}
  PROVE  2 * (b * RoundDiv(a, b)) <= 2 * a + b
<1>1. PICK q \in Int : q = a \div b
  OBVIOUS
<1>2. PICK r \in 0..(b - 1) : r = a % b
  OBVIOUS
<1>3. a = b * q + r
  BY <1>1, <1>2
<1>4. CASE RoundDiv(a, b) = q
  BY <1>2, <1>3, <1>4
<1>5. CASE RoundDiv(a, b) = q + 1 /\ 2 * r >= b
  <2>1. b * (q + 1) = b * q + b
    OBVIOUS
  <2> QED BY <1>2, <1>3, <1>5, <2>1
<1>6. RoundDiv(a, b) = q \/ (RoundDiv(a, b) = q + 1 /\ 2 * r >= b)
  BY <1>1, <1>2 DEF RoundDiv
<1> QED BY <1>4, <1>5, <1>6

(* A multiple is divided without loss.                                     *)
LEMMA RoundDivExact ==
  ASSUME NEW d \in Int, NEW n \in Nat \ {0} PROVE RoundDiv(d * n, n) = d
<1>1. d * n \in Int
  OBVIOUS
<1>2. (d * n) \div n = d /\ (d * n) % n = 0
  BY <1>1
<1> QED BY <1>2 DEF RoundDiv

(* More drive, more compression.                                           *)
LEMMA CompFalls ==
  ASSUME bench \in BenchType, NEW a \in Int, NEW b \in Int, a <= b
  PROVE  Comp(b) <= Comp(a)
<1>1. bench.knee \in Int /\ bench.rise \in Nat
  BY DEF BenchType
<1>2. PICK x \in Nat, y \in Nat : /\ x = Larger(0, bench.knee - a)
                                  /\ y = Larger(0, bench.knee - b)
  BY <1>1
<1>3. y <= x
  BY <1>1, <1>2
<1>4. y * bench.rise <= x * bench.rise /\ x * bench.rise \in Nat /\ y * bench.rise \in Nat
  BY <1>1, <1>2, <1>3
<1>5. PICK u \in Nat, v \in Nat : u = x * bench.rise /\ v = y * bench.rise
  BY <1>4
<1>6. v \div 100 <= u \div 100
  BY <1>4, <1>5
<1> QED BY <1>2, <1>5, <1>6 DEF Comp

LEMMA UniformTable ==
  ASSUME bench \in BenchType, Uniform, NEW g \in Int
  PROVE  Table(g) = DbPerIndex * (g - GainMin)
<1>1. bench.from \in Int /\ bench.to \in Int /\ DbPerIndex \in Int /\ GainMin \in Int
  BY WindowAssumption, GainAssumption DEF BenchType
<1>2. PICK i \in Int : i = Larger(0, Smaller(g, bench.to) - Larger(GainMin, bench.from))
  BY <1>1
<1>3. Table(g) = DbPerIndex * (g - GainMin - i) + DbPerIndex * i
  BY <1>2 DEF Table, Uniform
<1> QED BY <1>1, <1>2, <1>3

(* What a capture on the full signal reads, unless it clips.               *)
Exact(c) == ~Clipped(c) => c.peak = FullLevel(c.drive, c.gain)

LEMMA CaptureExact ==
  ASSUME AgcType, NEW r \in Readings(TRUE)
  PROVE  Exact(Capture(r, TRUE))
<1>1. bench \in BenchType /\ atten \in Int /\ gain \in Int
  BY BenchTyped, SearchAssumption, GainAssumption DEF AgcType
<1>2. PICK v \in Int : v = FullLevel(atten, gain)
  BY <1>1, LevelTyped
<1>3. v - 0 = v
  OBVIOUS
<1>4. r \in {Reading(v), NoData}
  BY <1>2, <1>3 DEF Readings
<1>5. ~Clipped(r) => r.peak = v
  <2>1. CASE r = NoData
    BY <2>1, GainAssumption, WindowAssumption DEF NoData, Clipped
  <2>2. CASE r = Reading(v)
    BY <2>2, GainAssumption, WindowAssumption DEF Reading, Clipped
  <2> QED BY <1>4, <2>1, <2>2
<1> QED BY <1>2, <1>5 DEF Exact, Capture, Clipped

(* On a uniform table two captures at one drive teach its step.            *)
LEMMA SecantExact ==
  ASSUME bench \in BenchType, Uniform, NEW p \in CaptureType, NEW c \in CaptureType,
         Teaches(p, c), p.drive = c.drive, Exact(p), Exact(c)
  PROVE  Secant(p, c) = DbPerIndex
<1>1. /\ p.gain \in Int /\ c.gain \in Int /\ p.drive \in Int /\ c.drive \in Int
      /\ DbPerIndex \in Int /\ GainMin \in Int
  BY WindowAssumption, GainAssumption, SearchAssumption DEF CaptureType
<1>2. PICK l \in Int : l = bench.signal - p.drive - Comp(p.drive)
  <2>1. Comp(p.drive) \in Int /\ bench.signal \in Int
    BY <1>1, CompNat DEF BenchType
  <2> QED BY <1>1, <2>1
<1>3. /\ Table(p.gain) = DbPerIndex * (p.gain - GainMin)
      /\ Table(c.gain) = DbPerIndex * (c.gain - GainMin)
  BY <1>1, UniformTable
<1>4. /\ p.peak = l + DbPerIndex * (p.gain - GainMin)
      /\ c.peak = l + DbPerIndex * (c.gain - GainMin)
  BY <1>2, <1>3 DEF Exact, Teaches, FullLevel
<1> DEFINE lo == IF p.gain < c.gain THEN p ELSE c
           hi == IF p.gain < c.gain THEN c ELSE p
<1>5. PICK n \in Nat \ {0} : n = hi.gain - lo.gain
  BY <1>1 DEF Teaches
<1>6. hi.peak - lo.peak = DbPerIndex * n
  BY <1>1, <1>2, <1>4, <1>5
<1>7. RoundDiv(hi.peak - lo.peak, hi.gain - lo.gain) = DbPerIndex
  BY <1>1, <1>5, <1>6, RoundDivExact
<1>8. Secant(p, c) = Larger(StepMin, Smaller(StepMax, DbPerIndex))
  BY <1>7 DEF Secant
<1> QED BY <1>8, WindowAssumption

(* The search's memory: its last capture was of the full signal, and on a  *)
(* uniform table it has learnt nothing but the table's step.               *)
MemoryTrue ==
  stage = "search" =>
    /\ orx.last # None => Exact(orx.last)
    /\ Uniform => orx.dbPerIndex = DbPerIndex

LEMMA ObserveTrue ==
  ASSUME AgcType, MemoryTrue, stage = "search", NEW r \in Readings(TRUE)
  PROVE  LET o == Observe(orx, Capture(r, TRUE))
         IN  Exact(o.last) /\ (Uniform => o.dbPerIndex = DbPerIndex)
<1> DEFINE c == Capture(r, TRUE)
           o == Observe(orx, c)
           same == orx.last # None /\ orx.last.drive = c.drive
           p == IF same THEN orx.last ELSE None
<1>1. c \in CaptureType /\ bench \in BenchType
  BY ReadingFacts, BenchTyped DEF AgcType
<1>2. Exact(c)
  BY CaptureExact
<1>3. orx.last \in CaptureType \cup {None}
  BY DEF AgcType, OrxSteps, Captures, CaptureType
<1> HIDE DEF c
<1>4. /\ o.last = c
      /\ o.dbPerIndex = IF Teaches(p, c) THEN Secant(p, c) ELSE orx.dbPerIndex
  BY DEF Observe
<1>5. ASSUME Uniform PROVE o.dbPerIndex = DbPerIndex
  <2>1. CASE Teaches(p, c)
    <3>1. same /\ p = orx.last
      BY <2>1 DEF Teaches
    <3>2. p \in CaptureType /\ p.drive = c.drive /\ Exact(p)
      BY <1>3, <3>1 DEF MemoryTrue
    <3>3. Secant(p, c) = DbPerIndex
      BY <1>1, <1>2, <1>5, <2>1, <3>2, SecantExact
    <3> QED BY <1>4, <2>1, <3>3
  <2>2. CASE ~Teaches(p, c)
    BY <1>4, <1>5, <2>2 DEF MemoryTrue
  <2> QED BY <2>1, <2>2
<1> QED BY <1>2, <1>4, <1>5 DEF c

LEMMA TrustedClean ==
  ASSUME NEW o, NEW r \in ReadingType, Trusted(o, r) PROVE ~Clipped(r)
<1>1. r.peak < BandLo => r.peak < ClipDbfs
  BY WindowAssumption DEF ReadingType, BandLo
<1>2. ColdAtMax(r) => ~Clipped(r)
  BY <1>1, WindowAssumption DEF ColdAtMax, Clipped, ReadingType
<1> QED BY <1>2 DEF Trusted, InWindow

LEMMA ScaleUp ==
  ASSUME NEW d \in Nat, NEW x \in Int, NEW y \in Int, x <= y PROVE d * x <= d * y
OBVIOUS

(* A step to more drive: the level gains what the attenuation loses, less  *)
(* the compression, less what the gain gives back in whole indices.        *)
LEMMA WalkKeepsLevel ==
  ASSUME AgcType, Uniform, NEW o \in OrxSteps, o.dbPerIndex = DbPerIndex,
         NEW a \in 0..AttenMax, a <= atten, Walk(o, a), gain' > GainMin
  PROVE  2 * (FullLevel(a, gain') - FullLevel(atten, gain)) <= DbPerIndex
<1>1. /\ bench \in BenchType /\ atten \in Int /\ gain \in Int /\ a \in Int
      /\ GainMin \in Int /\ GainMax \in Int /\ DbPerIndex \in Nat \ {0} /\ bench.signal \in Int
  BY BenchTyped, SearchAssumption, GainAssumption, WindowAssumption DEF AgcType, BenchType
<1>2. PICK k \in Int : k = Indices(o, a - atten)
  BY <1>1, IndicesInt
<1>3. 2 * (DbPerIndex * k) <= 2 * (a - atten) + DbPerIndex
  <2>1. a - atten \in Int
    BY <1>1
  <2> QED BY <1>1, <1>2, <2>1, RoundDivUpper DEF Indices
<1>4. gain' \in Int /\ gain' <= gain + k
  BY <1>1, <1>2 DEF Walk, Clamp
<1>5. PICK g \in Int : g = gain' /\ g <= gain + k
  BY <1>4
<1>6. DbPerIndex * (g - gain) <= DbPerIndex * k
  <2>1. PICK x \in Int : x = gain
    BY <1>1
  <2>2. g <= x + k
    BY <1>5, <2>1
  <2>3. g - x \in Int /\ g - x <= k
    BY <2>2
  <2> QED BY <1>1, <2>1, <2>3, ScaleUp
<1>7. /\ Table(g) = DbPerIndex * (g - GainMin)
      /\ Table(gain) = DbPerIndex * (gain - GainMin)
  BY <1>1, UniformTable
<1>8. DbPerIndex * (g - GainMin) - DbPerIndex * (gain - GainMin) = DbPerIndex * (g - gain)
  BY <1>1
<1>9. PICK m \in Int, n \in Int, p \in Int, q \in Int :
        /\ m = Table(g) /\ n = Table(gain) /\ p = DbPerIndex * (g - gain) /\ q = DbPerIndex * k
  BY <1>1, <1>7
<1>10. m - n = p /\ p <= q /\ 2 * q <= 2 * (a - atten) + DbPerIndex
  BY <1>3, <1>6, <1>7, <1>8, <1>9
<1>11. PICK x \in Int, y \in Int : x = Comp(a) /\ y = Comp(atten) /\ y <= x
  BY <1>1, CompNat, CompFalls
<1>12. /\ FullLevel(a, gain') = bench.signal - a - x + m
       /\ FullLevel(atten, gain) = bench.signal - atten - y + n
  BY <1>5, <1>9, <1>11 DEF FullLevel
<1> QED BY <1>1, <1>10, <1>11, <1>12

(* Of all that one iteration may do, only a walk on a trusted reading      *)
(* lowers the attenuation.                                                 *)
LEMMA LowersByWalking ==
  ASSUME TypeInv, stage = "search", NEW r \in Readings(TRUE), SearchLevel(r), atten' < atten
  PROVE  /\ ~Clipped(r)
         /\ \E a \in 0..AttenMax : a < atten /\ Walk(Observe(orx, Capture(r, TRUE)), a)
<1> DEFINE o == Observe(orx, Capture(r, TRUE))
<1>1. /\ AgcType /\ SearchType /\ r \in ReadingType
      /\ atten \in 0..AttenMax /\ atten % 5 = 0 /\ AttenMax \in Nat
  BY ReadingFacts, SearchAssumption DEF TypeInv, AgcType
<1>2. ~Stay
  BY <1>1 DEF Stay
<1> HIDE DEF o
<1>3. ~ClipGuard(o, r)
  <2>1. PICK g \in 0..AttenMax : g = GuardUp
    BY <1>1, GuardUpTyped
  <2>2. ~(GuardUp > atten /\ Walk(o, GuardUp))
    BY <1>1, <2>1 DEF Walk
  <2> QED BY <1>2, <2>2 DEF ClipGuard
<1>4. ~Converge(o, r) /\ ~Releveled(o, r)
  BY <1>1, <1>2 DEF Converge, Releveled
<1>5. ~DriveDown(o, r)
  <2>1. PICK u \in 0..AttenMax : u = Up(StepOf(Error))
    BY <1>1, ErrorStepTyped
  <2> QED BY <1>1, <1>2, <2>1 DEF DriveDown, Walk
<1>6. ~StillClips(o, r)
  <2>1. Up(FineStep) \in 0..AttenMax /\ Up(FineStep) >= atten
    BY <1>1, UpRange, SearchAssumption
  <2> QED BY <1>1, <2>1 DEF StillClips
<1>7. DriveUp(o, r)
  BY <1>3, <1>4, <1>5, <1>6 DEF SearchLevel, o
<1>8. Walk(o, Larger(Down, floor)) /\ Trusted(o, r)
  BY <1>2, <1>7 DEF DriveUp, Counts
<1>9. PICK a \in 0..AttenMax : a = Larger(Down, floor)
  BY <1>1, DownTyped
<1>10. a < atten /\ Walk(o, a)
  BY <1>8, <1>9 DEF Walk
<1> QED BY <1>1, <1>8, <1>10, TrustedClean DEF o

LEMMA SearchKeepsLevel ==
  ASSUME TypeInv, TypeInv', MemoryTrue, Search
  PROVE  MemoryTrue' /\ (stage' = "search" => DriveUpKeepsLevel')
<1>1. PICK r \in Readings(TRUE) : last' = Capture(r, TRUE) /\ (SearchLevel(r) \/ SearchEmpty(r))
  BY DEF Search
<1> DEFINE o == Observe(orx, Capture(r, TRUE))
<1>2. /\ AgcType /\ stage = "search" /\ bench' = bench /\ last'.drive = atten
      /\ atten \in Int /\ atten' \in 0..AttenMax /\ gain' \in Int /\ bench \in BenchType
  BY <1>1, BenchTyped, SearchAssumption, GainAssumption
     DEF Search, TypeInv, AgcType, Capture
<1>3. CASE SearchLevel(r)
  <2>1. orx' = o /\ o \in OrxSteps /\ r.data
    BY <1>2, <1>3, ReadingFacts DEF SearchLevel
  <2>2. Exact(o.last) /\ (Uniform => o.dbPerIndex = DbPerIndex)
    BY <1>2, ObserveTrue
  <2> HIDE DEF o
  <2>3. MemoryTrue'
    BY <1>2, <2>1, <2>2 DEF MemoryTrue, Exact, Clipped, Uniform, FullLevel, Table, Comp
  <2>4. ASSUME DroveUp', Uniform', gain' > GainMin
        PROVE  /\ ~Clipped(last)'
               /\ 2 * (FullLevel(atten, gain)' - last'.peak) <= DbPerIndex
    <3>1. atten' < atten
      BY <1>2, <2>4 DEF DroveUp
    <3>2. /\ ~Clipped(r)
          /\ \E a \in 0..AttenMax : a < atten /\ Walk(Observe(orx, Capture(r, TRUE)), a)
      BY <1>2, <1>3, <3>1, LowersByWalking
    <3>3. PICK a \in 0..AttenMax : a < atten /\ Walk(o, a)
      BY <3>2 DEF o
    <3>4. 2 * (FullLevel(a, gain') - FullLevel(atten, gain)) <= DbPerIndex
      <4>1. Uniform /\ o.dbPerIndex = DbPerIndex
        BY <1>2, <2>2, <2>4 DEF Uniform
      <4>2. a <= atten
        BY <1>2, <3>3, SearchAssumption
      <4> QED BY <1>2, <2>1, <2>4, <3>3, <4>1, <4>2, WalkKeepsLevel
    <3>5. FullLevel(atten, gain)' = FullLevel(a, gain')
      <4>1. atten' = a
        BY <3>3 DEF Walk
      <4> QED BY <1>2, <4>1 DEF FullLevel, Table, Comp
    <3>6. last'.peak = FullLevel(atten, gain) /\ ~Clipped(last)'
      BY <1>1, <1>2, <3>2, CaptureExact DEF Exact, Capture, Clipped
    <3> QED BY <3>4, <3>5, <3>6
  <2> QED BY <2>3, <2>4 DEF DriveUpKeepsLevel
<1>4. CASE SearchEmpty(r)
  <2>1. stage' = "search" => UNCHANGED <<atten, orx>>
    BY <1>4 DEF SearchEmpty, NoDataAgain, Fatal
  <2>2. MemoryTrue'
    BY <1>2, <2>1 DEF MemoryTrue, Exact, Clipped, Uniform, FullLevel, Table, Comp
  <2>3. stage' = "search" => ~DroveUp'
    BY <1>2, <2>1 DEF DroveUp
  <2> QED BY <2>2, <2>3 DEF DriveUpKeepsLevel
<1> QED BY <1>1, <1>3, <1>4

(* For every bench, gain table, PA and learnt history of the search: on a  *)
(* table with the assumed step, a step to more drive starts from a capture *)
(* that did not clip, and raises the level by half an index at most.       *)
THEOREM DriveUpHoldsLevel == Spec => []DriveUpKeepsLevel
<1> DEFINE Inv == MemoryTrue /\ DriveUpKeepsLevel
<1>1. Init => Inv
  BY StartTyped DEF Init, MemoryTrue, DriveUpKeepsLevel, DroveUp
<1>2. TypeInv /\ TypeInv' /\ Inv /\ [Next]_vars => Inv'
  <2> SUFFICES ASSUME TypeInv, TypeInv', Inv, [Next]_vars PROVE Inv'
    OBVIOUS
  <2>1. CASE Search
    BY <2>1, SearchKeepsLevel DEF DriveUpKeepsLevel, DroveUp
  <2>2. CASE StartSearch
    <3>1. orx' = NewStep /\ iter' = 0
      BY <2>2 DEF StartSearch
    <3> QED BY <3>1 DEF MemoryTrue, NewStep, DriveUpKeepsLevel, DroveUp
  <2>3. CASE UNCHANGED vars
    BY <2>3 DEF vars, agcVars, searchVars, MemoryTrue, Exact, Clipped, Uniform, FullLevel,
       Table, Comp, DriveUpKeepsLevel, DroveUp
  <2>4. CASE AutoLevel \/ SearchOver \/ BackOff \/ BackedOff \/ CapturePoint
    <3>1. stage' # "search"
      BY <2>4, LevelKeepsStages, StartTyped
         DEF AutoLevel, Leveling, SearchOver, BackOff, BackedOff, StartCapture, CapturePoint,
             TypeInv, AgcType
    <3> QED BY <3>1 DEF MemoryTrue, DriveUpKeepsLevel, DroveUp
  <2> QED BY <2>1, <2>2, <2>3, <2>4 DEF Next
<1> QED BY <1>1, <1>2, InitTyped, TypeStep, PTL DEF Spec

-----------------------------------------------------------------------------
(* The floor of the clip guard, up to the last iteration and after it.     *)
(* There the search goes back to the trusted reading closest to the        *)
(* target, made before the floor was where it is now: that reading was     *)
(* above atten_min_db and did not read as clipping.                        *)
Unclipped(a) == a >= bench.slopeFrom - SlopeNoise

LockIsSafe == Over => result.atten >= floor \/ Unclipped(result.atten)

BestIsSafe == best # None => best.atten >= Quantize(AttenMin) /\ Unclipped(best.atten)

AboveMin == floor >= Quantize(AttenMin) /\ (Over => result.atten >= Quantize(AttenMin))

FallbackInv == BestIsSafe /\ AboveMin /\ LockIsSafe

LEMMA SearchLevelBest ==
  ASSUME TypeInv, stage = "search", NEW r \in Readings(TRUE), SearchLevel(r)
  PROVE  /\ floor' >= floor
         /\ UNCHANGED best \/ (best'.atten = atten /\ Unclipped(atten))
<1> DEFINE o == Observe(orx, Capture(r, TRUE))
<1>1. AgcType /\ floor \in Int
  BY SearchAssumption DEF TypeInv, SearchType
<1>2. FALSE \in PaClips => Unclipped(atten)
  BY <1>1, NotClipping DEF Unclipped
<1>3. Counts(o, r) => UNCHANGED best \/ best'.atten = atten
  BY DEF Counts, Remember
<1> HIDE DEF o
<1>4. CASE ClipGuard(o, r)
  <2>1. PICK g \in 0..AttenMax : g = GuardUp
    BY <1>1, GuardUpTyped
  <2>2. UNCHANGED best /\ (floor' = floor \/ floor' = Larger(floor, g))
    BY <1>4, <2>1 DEF ClipGuard, Finish
  <2> QED BY <1>1, <2>1, <2>2, SearchAssumption
<1>5. CASE StillClips(o, r) \/ Releveled(o, r)
  BY <1>1, <1>5 DEF StillClips, Releveled, Finish
<1>6. CASE FALSE \in PaClips /\ (Converge(o, r) \/ DriveUp(o, r) \/ DriveDown(o, r))
  <2>1. Counts(o, r)
    BY <1>6 DEF Converge, DriveUp, DriveDown
  <2>2. \A kind : Finish(kind) => floor' = floor
    BY DEF Finish
  <2>3. floor' = floor
    BY <1>6, <2>2 DEF Converge, DriveUp, DriveDown
  <2> QED BY <1>1, <1>2, <1>3, <1>6, <2>1, <2>3
<1> QED BY <1>4, <1>5, <1>6 DEF SearchLevel, o

LEMMA FallbackStep ==
  TypeInv /\ TypeInv' /\ WalkInv /\ FallbackInv /\ [Next]_vars => FallbackInv'
<1> SUFFICES ASSUME TypeInv, TypeInv', WalkInv, FallbackInv, [Next]_vars PROVE FallbackInv'
  OBVIOUS
<1>0. /\ BestIsSafe /\ AboveMin /\ LockIsSafe /\ Above /\ Locked
      /\ atten \in Int /\ floor \in Int /\ floor' \in Int /\ Quantize(AttenMin) \in Int
  BY SearchAssumption DEF FallbackInv, WalkInv, TypeInv, AgcType, SearchType, Quantize
<1> DEFINE min == Quantize(AttenMin)
<1>1. min' = min
  BY DEF Quantize
<1> HIDE DEF min
<1>2. CASE UNCHANGED <<bench, floor, best, result>> /\ (Over' => Over)
  BY <1>0, <1>2 DEF FallbackInv, BestIsSafe, AboveMin, LockIsSafe, Unclipped
<1>3. CASE Search
  <2>1. PICK r \in Readings(TRUE) : SearchLevel(r) \/ SearchEmpty(r)
    BY <1>3 DEF Search
  <2>2. /\ stage = "search" /\ ~locked /\ ~locked' /\ bench' = bench
        /\ atten >= floor /\ floor >= Quantize(AttenMin)
    BY <1>0, <1>3 DEF Search, Locked, Above, AboveMin
  <2>3. CASE SearchLevel(r)
    <3>1. /\ floor' >= floor
          /\ UNCHANGED best \/ (best'.atten = atten /\ Unclipped(atten))
      BY <2>2, <2>3, SearchLevelBest
    <3>2. BestIsSafe'
      BY <1>0, <2>2, <3>1 DEF BestIsSafe, Unclipped
    <3>3. Over' => result'.atten >= floor'
      <4>1. atten' >= floor' /\ (stage' = "locked" => result'.atten = atten')
        BY <2>2, <2>3, SearchLevelAbove
      <4>2. stage' \in {"search", "locked"}
        BY <2>2, <2>3, SearchLevelTyped DEF Iterates, RunsOrEnds
      <4> QED BY <2>2, <4>1, <4>2 DEF Over
    <3>4. Over' => result'.atten \in Int
      <4>1. stage' \in {"search", "locked"}
        BY <2>2, <2>3, SearchLevelTyped DEF Iterates, RunsOrEnds
      <4>2. Over' => result' \in Results
        BY <2>2, <4>1 DEF TypeInv, HasResult, Over
      <4>3. \A x \in Results : x.atten \in Int
        <5>1. \A x \in Results : x.atten \in 0..AttenMax
          BY DEF Results
        <5> QED BY <5>1, SearchAssumption
      <4> QED BY <4>2, <4>3
    <3> QED BY <1>0, <2>2, <3>1, <3>2, <3>3, <3>4 DEF FallbackInv, AboveMin, LockIsSafe
  <2>4. CASE SearchEmpty(r)
    <3>1. UNCHANGED <<floor, best, result>> /\ stage' \in {"search", "error"}
      BY <2>2, <2>4 DEF SearchEmpty, NoDataAgain, Fatal
    <3> QED BY <1>2, <2>2, <3>1 DEF Over
  <2> QED BY <2>1, <2>3, <2>4
<1>4. CASE SearchOver
  <2>1. /\ stage = "search" /\ UNCHANGED <<bench, floor, best>>
        /\ result'.atten = atten'
        /\ atten' = IF best = None THEN atten ELSE best.atten
    BY <1>4 DEF SearchOver, Stay
  <2>2. CASE best = None
    BY <1>0, <2>1, <2>2 DEF FallbackInv, BestIsSafe, AboveMin, LockIsSafe, Above, Unclipped
  <2>3. CASE best # None
    BY <1>0, <2>1, <2>3 DEF FallbackInv, BestIsSafe, AboveMin, LockIsSafe, Unclipped
  <2> QED BY <2>2, <2>3
<1>5. CASE AutoLevel
  <2>1. stage' \in Leveling \cup {"error"} /\ bench' = bench
    BY <1>5, LevelKeepsStages DEF AutoLevel
  <2> QED BY <1>2, <1>5, <2>1 DEF AutoLevel, searchVars, Leveling, Over
<1>6. CASE StartSearch
  BY <1>2, <1>6 DEF StartSearch, searchVars, Over
<1>7. CASE BackOff
  BY <1>2, <1>7 DEF BackOff, Over
<1>8. CASE BackedOff
  BY <1>2, <1>8 DEF BackedOff, searchVars, Over
<1>9. CASE CapturePoint
  BY <1>2, <1>9 DEF CapturePoint, Over
<1>10. CASE UNCHANGED vars
  BY <1>2, <1>10 DEF vars, agcVars, searchVars, Over
<1> QED BY <1>7, <1>8, <1>9, <1>10, <1>3, <1>4, <1>5, <1>6 DEF Next

LEMMA SafeLocks == TypeInv /\ WalkInv /\ FallbackInv => GuardHolds
<1> SUFFICES ASSUME TypeInv, WalkInv, FallbackInv,
                    stage \in {"search", "locked", "capture", "done"}
             PROVE  /\ atten >= Quantize(AttenMin)
                    /\ \/ atten >= floor
                       \/ /\ stage # "search" /\ result.kind = "max iterations"
                          /\ Unclipped(result.atten)
  BY DEF GuardHolds, Unclipped
<1>1. PICK m \in 0..AttenMax : m = Quantize(AttenMin) /\ m % 5 = 0
  BY SearchAssumption, QuantizeRange
<1>2. floor \in 0..AttenMax /\ floor % 5 = 0 /\ atten \in Int
  BY SearchAssumption DEF TypeInv, SearchType, AgcType
<1>3. CASE stage = "search"
  BY <1>1, <1>2, <1>3, SearchAssumption DEF WalkInv, Above, FallbackInv, AboveMin
<1>4. CASE stage # "search"
  <2>1. stage \in {"locked", "capture", "done"} /\ Over
    BY <1>4 DEF Over
  <2>2. atten >= m
    BY <1>1, <2>1, AboveTheLock DEF FallbackInv, AboveMin
  <2>3. result.kind # "max iterations" \/ result.atten >= floor => atten >= floor
    BY <1>2, <2>1, AboveTheLock DEF WalkInv, LockAbove
  <2> QED BY <1>1, <1>4, <2>1, <2>2, <2>3 DEF FallbackInv, LockIsSafe
<1> QED BY <1>3, <1>4

(* Whatever the PA does, however its slope misreads and whatever ends the  *)
(* search: the attenuation is never below atten_min_db, and below the      *)
(* floor the clip guard raised only where the last iteration goes back to  *)
(* a reading that was not judged to clip.                                  *)
THEOREM GuardIsKept == Spec => []GuardHolds
<1>1. Init => FallbackInv
  BY StartTyped, SearchAssumption
     DEF Init, FallbackInv, BestIsSafe, AboveMin, LockIsSafe, Over, Quantize
<1> QED BY <1>1, SafeLocks, InitTyped, TypeStep, WalkInit, WalkStep, FallbackStep, PTL DEF Spec
-----------------------------------------------------------------------------
(* The leveling finds a level that exists.                                 *)

(* What a short capture reads at an index, and that no gain below an index *)
(* is needed.                                                              *)
ShortLevel(g) == FullLevel(atten, g) - bench.short
HighEnough(g) == Reachable => FullLevel(atten, g) >= BandLo

Benched == AgcType /\ NeverEmpty

USE DEF Benched

LEMMA BenchFacts ==
  ASSUME AgcType
  PROVE  /\ bench \in BenchType /\ atten \in Nat /\ gain \in GainMin..GainMax
         /\ bench.step \in Nat /\ bench.steep \in Nat /\ bench.short \in Nat /\ bench.rail \in Int
         /\ bench.overdrive \in Int /\ bench.signal \in Int
         /\ bench.from \in Int /\ bench.to \in Int
         /\ GainMin \in Int /\ GainMax \in Int /\ gain \in Int
         /\ \A g \in Int : FullLevel(atten, g) \in Int /\ ShortLevel(g) \in Int
<1>1. bench \in BenchType /\ atten \in Nat /\ gain \in GainMin..GainMax
  BY BenchTyped, SearchAssumption DEF AgcType
<1>2. /\ bench.step \in Nat /\ bench.steep \in Nat /\ bench.short \in Nat
      /\ bench.rail \in Int /\ bench.overdrive \in Int
      /\ bench.signal \in Int /\ bench.from \in Int /\ bench.to \in Int
  BY <1>1 DEF BenchType
<1>4. \A g \in Int : FullLevel(atten, g) \in Int
  BY <1>1, LevelTyped
<1>5. GainMin \in Int /\ GainMax \in Int /\ gain \in Int
  BY <1>1, GainAssumption
<1>6. \A g \in Int : ShortLevel(g) \in Int
  BY <1>2, <1>4 DEF ShortLevel
<1> QED BY <1>1, <1>2, <1>4, <1>5, <1>6

(* The gain table never falls: both parts of an index, the one inside the  *)
(* zone and the one outside, grow with it.                                 *)
LEMMA TableRises ==
  ASSUME AgcType, NEW g \in Int, NEW h \in Int, g <= h PROVE Table(g) <= Table(h)
<1>1. /\ bench.from \in Int /\ bench.to \in Int /\ GainMin \in Int
      /\ bench.step \in Nat /\ bench.steep \in Nat
  BY BenchFacts
<1>2. PICK i \in Int, j \in Int :
        /\ i = Larger(0, Smaller(g, bench.to) - Larger(GainMin, bench.from))
        /\ j = Larger(0, Smaller(h, bench.to) - Larger(GainMin, bench.from))
  BY <1>1
<1>3. i <= j /\ j - i <= h - g
  BY <1>1, <1>2
<1>4. PICK s \in Nat, t \in Nat : s = bench.step /\ t = bench.steep
  BY <1>1
<1>5. s * (g - GainMin - i) <= s * (h - GainMin - j)
  <2>1. PICK x \in Int, y \in Int : x = g - GainMin - i /\ y = h - GainMin - j /\ x <= y
    BY <1>1, <1>3
  <2> QED BY <2>1, ScaleUp
<1>6. t * i <= t * j
  BY <1>3, ScaleUp
<1>7. PICK a \in Int, b \in Int, c \in Int, d \in Int :
        /\ a = s * (g - GainMin - i) /\ b = s * (h - GainMin - j) /\ c = t * i /\ d = t * j
        /\ a <= b /\ c <= d
  BY <1>1, <1>5, <1>6
<1>8. Table(g) = a + c /\ Table(h) = b + d
  BY <1>2, <1>4, <1>7 DEF Table
<1> QED BY <1>7, <1>8

LEMMA TableInt == ASSUME AgcType, NEW g \in Int PROVE Table(g) \in Int
<1> DEFINE inside == Larger(0, Smaller(g, bench.to) - Larger(GainMin, bench.from))
<1>1. inside \in Int /\ bench.step \in Nat /\ bench.steep \in Nat /\ GainMin \in Int
  BY BenchFacts
<1>2. bench.steep * inside \in Int /\ bench.step * (g - GainMin - inside) \in Int
  BY <1>1
<1> QED BY <1>2 DEF Table

LEMMA LevelsClimb ==
  ASSUME AgcType, NEW a \in 0..AttenMax, NEW g \in Int, NEW h \in Int, g <= h
  PROVE  FullLevel(a, g) <= FullLevel(a, h) /\ FullLevel(a, g) \in Int
<1>1. PICK t \in Int, u \in Int : t = Table(g) /\ u = Table(h) /\ t <= u
  BY TableInt, TableRises
<1>2. PICK l \in Int : l = bench.signal - a - Comp(a)
  <2>1. Comp(a) \in Nat
    BY PaNat
  <2> QED BY <2>1, BenchFacts, SearchAssumption
<1>3. FullLevel(a, g) = l + t /\ FullLevel(a, h) = l + u
  BY <1>1, <1>2 DEF FullLevel
<1> QED BY <1>1, <1>2, <1>3

LEMMA LevelsRise ==
  ASSUME AgcType, NEW g \in Int, NEW h \in Int
  PROVE  /\ g <= h => FullLevel(atten, g) <= FullLevel(atten, h) /\ ShortLevel(g) <= ShortLevel(h)
         /\ ShortLevel(g) <= FullLevel(atten, g)
<1>1. PICK f \in Int, k \in Int, u \in Nat :
        f = FullLevel(atten, g) /\ k = FullLevel(atten, h) /\ u = bench.short
  BY BenchFacts
<1>2. g <= h => f <= k
  BY <1>1, LevelsClimb DEF AgcType
<1>3. ShortLevel(g) = f - u /\ ShortLevel(h) = k - u
  BY <1>1 DEF ShortLevel
<1> QED BY <1>1, <1>2, <1>3

LEMMA HigherIsHigh ==
  ASSUME AgcType, NEW g \in Int, NEW h \in Int, HighEnough(g), g <= h PROVE HighEnough(h)
<1>1. PICK v \in Int, w \in Int : v = FullLevel(atten, g) /\ w = FullLevel(atten, h) /\ v <= w
  BY LevelsRise, BenchFacts
<1>2. BandLo \in Int
  BY WindowAssumption DEF BandLo
<1> QED BY <1>1, <1>2 DEF HighEnough

(* A reading tells on which side of the window and the clip its level is.  *)
LEMMA ReadingTells ==
  ASSUME AgcType, NEW v \in Int, NEW r \in [data : BOOLEAN, peak : Int, railed : BOOLEAN],
         r.peak = Smaller(v, Ceiling), r.railed = (v >= bench.rail)
  PROVE  /\ r.peak <= v /\ r.peak <= Ceiling
         /\ r.railed <=> v >= bench.rail
         /\ r.peak < BandLo <=> v < BandLo
         /\ r.peak > BandHi <=> v > BandHi
         /\ ~Clipped(r) => r.peak = v /\ v < bench.rail
         /\ Clipped(r) => v >= bench.rail \/ v > BandHi
<1>1. /\ bench.rail \in Int /\ BandLo \in Int /\ BandHi \in Int /\ Ceiling \in Int
      /\ ClipDbfs \in Int /\ BandLo <= BandHi /\ BandHi < ClipDbfs /\ ClipDbfs < Ceiling
  BY BenchFacts, WindowAssumption, GainAssumption DEF BandLo, BandHi
<1>2. PICK p \in Int : p = r.peak /\ p = Smaller(v, Ceiling)
  OBVIOUS
<1>3. r.railed <=> v >= bench.rail
  OBVIOUS
<1>4. p <= v /\ p <= Ceiling /\ (p < BandLo <=> v < BandLo) /\ (p > BandHi <=> v > BandHi)
  BY <1>1, <1>2
<1>5. ~Clipped(r) => p = v /\ v < bench.rail
  BY <1>1, <1>2, <1>3 DEF Clipped
<1>6. Clipped(r) => v >= bench.rail \/ v > BandHi
  BY <1>1, <1>2, <1>3 DEF Clipped
<1> QED BY <1>2, <1>3, <1>4, <1>5, <1>6

LEMMA InWindowTells ==
  ASSUME AgcType, NEW v \in Int, InWindow(Reading(v))
  PROVE  BandLo <= v /\ v <= BandHi /\ v < bench.rail
<1>1. BandLo \in Int /\ BandHi \in Int /\ Ceiling \in Int /\ bench.rail \in Int
  BY BenchFacts, WindowAssumption, GainAssumption DEF BandLo, BandHi
<1>2. Reading(v) \in [data : BOOLEAN, peak : Int, railed : BOOLEAN]
  BY <1>1 DEF Reading
<1>3. Reading(v).peak = Smaller(v, Ceiling) /\ Reading(v).railed = (v >= bench.rail)
  BY DEF Reading
<1>4. PICK r \in [data : BOOLEAN, peak : Int, railed : BOOLEAN] : r = Reading(v)
  BY <1>2
<1>5. ~Clipped(r) /\ BandLo <= r.peak /\ r.peak <= BandHi
  BY <1>4 DEF InWindow
<1>6. r.peak = v /\ v < bench.rail
  BY <1>3, <1>4, <1>5, ReadingTells
<1> QED BY <1>5, <1>6

LEMMA MaximumIsHigh == ASSUME AgcType PROVE HighEnough(GainMax)
<1> SUFFICES ASSUME Reachable PROVE FullLevel(atten, GainMax) >= BandLo
  BY DEF HighEnough
<1>1. PICK g \in GainMin..GainMax : InWindow(Reading(FullLevel(atten, g)))
  BY DEF Reachable
<1>2. g \in Int /\ GainMax \in Int /\ g <= GainMax
  BY BenchFacts
<1>3. PICK v \in Int : v = FullLevel(atten, g) /\ v <= FullLevel(atten, GainMax)
  BY <1>2, LevelsRise, BenchFacts
<1>4. v >= BandLo
  BY <1>1, <1>3, InWindowTells, WindowAssumption DEF BandLo
<1>5. FullLevel(atten, GainMax) \in Int
  BY BenchFacts
<1> QED BY <1>3, <1>4, <1>5, WindowAssumption DEF BandLo

(* Where a capture is above the window or rails, one index less is still   *)
(* high enough: the window is below.                                       *)
LEMMA BelowHot ==
  ASSUME AgcType, NEW g \in Int, NEW v \in Int, v <= FullLevel(atten, g),
         v > BandHi \/ v >= bench.rail
  PROVE  HighEnough(g - 1)
<1> SUFFICES ASSUME Reachable PROVE FullLevel(atten, g - 1) >= BandLo
  BY DEF HighEnough
<1>1. PICK h \in GainMin..GainMax : InWindow(Reading(FullLevel(atten, h)))
  BY DEF Reachable
<1>2. PICK w \in Int : w = FullLevel(atten, h) /\ h \in Int
  BY BenchFacts
<1>3. BandLo <= w /\ w <= BandHi /\ w < bench.rail
  BY <1>1, <1>2, InWindowTells
<1>4. ~(g <= h)
  <2>1. BandHi \in Int /\ bench.rail \in Int /\ FullLevel(atten, g) \in Int
    BY BenchFacts, WindowAssumption DEF BandHi
  <2> QED BY <1>2, <1>3, <2>1, LevelsRise
<1>5. w <= FullLevel(atten, g - 1) /\ FullLevel(atten, g - 1) \in Int
  <2>1. g - 1 \in Int /\ h <= g - 1
    BY <1>2, <1>4
  <2> QED BY <1>2, <2>1, LevelsRise, BenchFacts
<1> QED BY <1>2, <1>3, <1>5, WindowAssumption DEF BandLo

(* No capture is lost on these benches: a reading is the level's.          *)
LEMMA NothingIsLost ==
  ASSUME Benched, NEW full \in BOOLEAN, NEW r \in Readings(full)
  PROVE  r = Reading(IF full THEN FullLevel(atten, gain) ELSE ShortLevel(gain))
<1>1. PICK f \in Int : f = FullLevel(atten, gain) /\ f <= FullLevel(atten, GainMax)
  BY LevelsRise, BenchFacts
<1>2. PICK t \in Int : t = Table(GainMax)
  BY BenchFacts, TableInt
<1>3. PICK c \in Nat : c = Comp(atten)
  BY CompNat, BenchFacts
<1>4. FullLevel(atten, GainMax) = bench.signal - atten - c + t
  BY <1>2, <1>3 DEF FullLevel
<1>5. f <= bench.signal + t
  BY <1>1, <1>2, <1>3, <1>4, BenchFacts
<1>6. f < bench.overdrive
  <2>1. bench.overdrive > bench.signal + t
    BY <1>2 DEF NeverEmpty
  <2> QED BY <1>1, <1>2, <1>5, <2>1, BenchFacts
<1>7. PICK u \in Nat : u = bench.short
  BY BenchFacts
<1>8. CASE full
  <2>1. f - 0 = f
    BY <1>1
  <2> QED BY <1>1, <1>6, <1>8, <2>1, BenchFacts DEF Readings
<1>9. CASE ~full
  <2>1. f - u < bench.overdrive
    BY <1>1, <1>6, <1>7, BenchFacts
  <2>2. ~(f - u >= bench.overdrive)
    BY <1>1, <1>7, <2>1, BenchFacts
  <2>3. Readings(full) = {Reading(f - u)}
    BY <1>1, <1>7, <1>9, <2>2 DEF Readings
  <2>4. ShortLevel(gain) = f - u
    BY <1>1, <1>7 DEF ShortLevel
  <2> QED BY <1>9, <2>3, <2>4
<1> QED BY <1>8, <1>9

(* A short capture on this bench.                                          *)
ShortRead(c) ==
  /\ c \in CaptureType /\ c.drive = atten /\ c.data
  /\ c.peak = Smaller(ShortLevel(c.gain), Ceiling)
  /\ c.railed = (ShortLevel(c.gain) >= bench.rail)

Miss(c) == Distance(c.peak, Target)

LEMMA CaptureIsSome == ASSUME NEW c \in CaptureType PROVE c # None
<1>1. CaptureType \subseteq [drive : Nat, gain : Int, full : BOOLEAN, data : BOOLEAN,
                             peak : Int, railed : BOOLEAN]
  BY SearchAssumption, GainAssumption DEF CaptureType
<1> QED BY <1>1, NoneAssumption

LEMMA ShortReading ==
  ASSUME Benched, NEW r \in Readings(FALSE)
  PROVE  /\ r \in ReadingType /\ r.data /\ ShortRead(Capture(r, FALSE))
         /\ Capture(r, FALSE) \in CaptureType /\ Capture(r, FALSE).gain = gain
         /\ r.peak = Smaller(ShortLevel(gain), Ceiling)
         /\ r.railed = (ShortLevel(gain) >= bench.rail)
         /\ (Clipped(Capture(r, FALSE)) <=> Clipped(r)) /\ Capture(r, FALSE).peak = r.peak
<1>1. r \in ReadingType
  BY ReadingFacts
<1>2. r = Reading(ShortLevel(gain))
  BY NothingIsLost
<1>3. /\ r.data /\ r.peak = Smaller(ShortLevel(gain), Ceiling)
      /\ r.railed = (ShortLevel(gain) >= bench.rail)
  BY <1>2 DEF Reading
<1>4. PICK c : c = Capture(r, FALSE)
  OBVIOUS
<1>5. /\ c \in CaptureType /\ c.drive = atten /\ c.gain = gain /\ c.data = r.data
      /\ (Clipped(c) <=> Clipped(r))
  BY <1>1, <1>4, CaptureTyped DEF AgcType
<1>6. c.peak = r.peak /\ c.railed = r.railed
  BY <1>4 DEF Capture
<1>7. ShortRead(c)
  BY <1>3, <1>5, <1>6 DEF ShortRead
<1> QED BY <1>1, <1>3, <1>4, <1>5, <1>6, <1>7

LEMMA ShortTells ==
  ASSUME Benched, NEW c, ShortRead(c)
  PROVE  /\ c.gain \in GainMin..GainMax /\ c.gain \in Int /\ c.peak \in Int
         /\ ShortLevel(c.gain) \in Int
         /\ ~Clipped(c) => c.peak = ShortLevel(c.gain) /\ ShortLevel(c.gain) < bench.rail
         /\ Side(c) = -1 => ~Clipped(c) /\ ShortLevel(c.gain) < BandLo
         /\ Side(c) = 1 => ShortLevel(c.gain) > BandHi \/ ShortLevel(c.gain) >= bench.rail
         /\ Side(c) = 1 => HighEnough(c.gain - 1)
<1>1. c \in CaptureType /\ c.gain \in GainMin..GainMax /\ c.gain \in Int /\ c.peak \in Int
  BY GainAssumption DEF ShortRead, CaptureType
<1>2. PICK v \in Int : v = ShortLevel(c.gain) /\ v <= FullLevel(atten, c.gain)
  BY <1>1, BenchFacts, LevelsRise
<1>3. /\ c.peak = Smaller(v, Ceiling)
      /\ c.railed = (v >= bench.rail)
  BY <1>2 DEF ShortRead
<1>4. PICK r \in [data : BOOLEAN, peak : Int, railed : BOOLEAN] :
        r.peak = c.peak /\ r.railed = c.railed
  <2>1. [data |-> c.data, peak |-> c.peak, railed |-> c.railed]
          \in [data : BOOLEAN, peak : Int, railed : BOOLEAN]
    BY <1>1 DEF CaptureType
  <2> QED BY <2>1
<1>5. Clipped(r) <=> Clipped(c)
  BY <1>4 DEF Clipped
<1>6. /\ c.peak < BandLo <=> v < BandLo
      /\ c.peak > BandHi <=> v > BandHi
      /\ ~Clipped(c) => c.peak = v /\ v < bench.rail
      /\ Clipped(c) => v >= bench.rail \/ v > BandHi
  BY <1>3, <1>4, <1>5, ReadingTells
<1>7. Side(c) = 1 => v > BandHi \/ v >= bench.rail
  BY <1>6 DEF Side
<1>8. Side(c) = -1 => ~Clipped(c) /\ v < BandLo
  BY <1>6 DEF Side
<1>9. Side(c) = 1 => HighEnough(c.gain - 1)
  BY <1>1, <1>2, <1>7, BelowHot
<1> QED BY <1>1, <1>2, <1>6, <1>7, <1>8, <1>9

-----------------------------------------------------------------------------
(* What the search remembers, on any table: captures of this drive, and of *)
(* those the nearest.  When single indices jumped over the window, the     *)
(* nearest is no lower than the index below it.                            *)

Straddled(n) ==
  /\ n # None
  /\ \E g \in Int : HighEnough(g) /\ ShortLevel(g) < BandLo /\ Miss(n) <= Target - ShortLevel(g)

Memory(o) ==
  /\ o.last # None => ShortRead(o.last)
  /\ o.near # None => ShortRead(o.near) /\ ~Clipped(o.near)
  /\ o.last # None /\ ~Clipped(o.last) => o.near # None /\ Miss(o.near) <= Miss(o.last)
  /\ o.jumped => Straddled(o.near)

LEMMA MissLow ==
  ASSUME Benched, NEW c, ShortRead(c), ~Clipped(c), ShortLevel(c.gain) < BandLo
  PROVE  Miss(c) = Target - ShortLevel(c.gain)
<1>1. PICK v \in Int : v = ShortLevel(c.gain) /\ c.peak = v
  BY ShortTells
<1>2. Target \in Int /\ BandLo \in Int /\ BandLo <= Target
  BY WindowAssumption DEF BandLo
<1> QED BY <1>1, <1>2 DEF Miss

LEMMA NearHigh ==
  ASSUME Benched, NEW o, Memory(o), o.jumped
  PROVE  HighEnough(o.near.gain) /\ o.near.gain \in GainMin..GainMax
<1>1. PICK n : n = o.near /\ n # None /\ ShortRead(n) /\ ~Clipped(n)
  BY DEF Memory, Straddled
<1>2. PICK g \in Int : HighEnough(g) /\ ShortLevel(g) < BandLo /\ Miss(n) <= Target - ShortLevel(g)
  BY <1>1 DEF Memory, Straddled
<1>3. PICK m \in Int : m = n.gain /\ m \in GainMin..GainMax
  BY <1>1, ShortTells
<1>4. CASE g <= m
  BY <1>1, <1>2, <1>3, <1>4, HigherIsHigh
<1>5. CASE m < g
  <2>0. ShortLevel(m) <= ShortLevel(g) /\ ShortLevel(m) \in Int /\ ShortLevel(g) \in Int
    <3>1. m <= g
      BY <1>5
    <3> QED BY <3>1, BenchFacts, LevelsRise
  <2>1. PICK v \in Int, w \in Int : v = ShortLevel(m) /\ w = ShortLevel(g) /\ v <= w
    BY <2>0
  <2>2. BandLo \in Int /\ Target \in Int
    BY WindowAssumption DEF BandLo
  <2>3. v < BandLo
    BY <1>2, <2>1, <2>2
  <2>4. Miss(n) = Target - v
    BY <1>1, <1>3, <2>1, <2>3, MissLow
  <2>5. v = w
    BY <1>2, <2>1, <2>2, <2>4
  <2>6. PICK x \in Int, y \in Int, u \in Nat :
          x = FullLevel(atten, m) /\ y = FullLevel(atten, g) /\ u = bench.short
    BY BenchFacts
  <2>7. x = y
    BY <2>1, <2>5, <2>6 DEF ShortLevel
  <2>8. HighEnough(m)
    BY <1>2, <2>6, <2>7 DEF HighEnough
  <2> QED BY <1>1, <1>3, <2>8
<1> QED BY <1>1, <1>3, <1>4, <1>5

(* Captures on either side of the window at neighbouring indices.          *)
LEMMA Straddle ==
  ASSUME Benched, NEW l, ShortRead(l), NEW h, ShortRead(h), Side(l) = -1, Side(h) = 1,
         Distance(l.gain, h.gain) <= 1
  PROVE  HighEnough(l.gain) /\ ShortLevel(l.gain) < BandLo /\ Miss(l) = Target - ShortLevel(l.gain)
<1>1. PICK g \in Int, k \in Int : g = l.gain /\ k = h.gain
  BY ShortTells
<1>2. PICK v \in Int, w \in Int : v = ShortLevel(g) /\ w = ShortLevel(k)
  BY BenchFacts
<1>3. v < BandLo /\ v < bench.rail /\ ~Clipped(l)
  BY <1>1, <1>2, ShortTells
<1>4. w > BandHi \/ w >= bench.rail
  BY <1>1, <1>2, ShortTells
<1>5. BandLo \in Int /\ BandHi \in Int /\ BandLo <= BandHi /\ bench.rail \in Int
  BY BenchFacts, WindowAssumption DEF BandLo, BandHi
<1>6. v < w
  BY <1>3, <1>4, <1>5
<1>7. g < k
  BY <1>2, <1>6, LevelsRise
<1>8. g = k - 1
  BY <1>1, <1>7
<1>9. HighEnough(g)
  BY <1>1, <1>8, ShortTells
<1> QED BY <1>1, <1>2, <1>3, <1>9, MissLow

LEMMA NearerTold ==
  ASSUME Benched, NEW c, ShortRead(c), NEW n, n # None => ShortRead(n) /\ ~Clipped(n)
  PROVE  LET m == Nearer(n, c)
         IN  /\ m # None => ShortRead(m) /\ ~Clipped(m)
             /\ ~Clipped(c) => m # None /\ Miss(m) <= Miss(c)
             /\ n # None => m # None /\ Miss(m) <= Miss(n)
<1>1. c # None /\ c.peak \in Int /\ Target \in Int
  BY CaptureIsSome, ShortTells, WindowAssumption DEF ShortRead
<1>2. n # None => n.peak \in Int
  BY ShortTells
<1>3. Miss(c) \in Int /\ (n # None => Miss(n) \in Int)
  BY <1>1, <1>2 DEF Miss
<1>4. CASE Clipped(c)
  BY <1>3, <1>4 DEF Nearer
<1>5. CASE ~Clipped(c) /\ n = None
  BY <1>1, <1>3, <1>5 DEF Nearer
<1>6. CASE ~Clipped(c) /\ n # None
  <2>1. Nearer(n, c) = IF Miss(c) < Miss(n) THEN c ELSE n
    BY <1>6 DEF Nearer, Miss
  <2>2. CASE Miss(c) < Miss(n)
    BY <1>1, <1>3, <1>6, <2>1, <2>2
  <2>3. CASE ~(Miss(c) < Miss(n))
    BY <1>1, <1>3, <1>6, <2>1, <2>3
  <2> QED BY <2>2, <2>3
<1> QED BY <1>4, <1>5, <1>6

LEMMA ObserveMemory ==
  ASSUME Benched, NEW o, Memory(o), NEW c, ShortRead(c)
  PROVE  Memory(Observe(o, c)) /\ Observe(o, c).last = c
<1> DEFINE same == o.last # None
           p == IF same THEN o.last ELSE None
           over == same /\ Crossed(p, c)
           near == IF same THEN o.near ELSE None
           q == Observe(o, c)
<1>1. same <=> o.last # None /\ o.last.drive = c.drive
  BY DEF Memory, ShortRead
<1>2. /\ q.last = c /\ q.near = Nearer(near, c)
      /\ q.jumped = ((same /\ o.jumped) \/ (over /\ Distance(c.gain, p.gain) <= 1))
  BY <1>1 DEF Observe
<1>4. near # None => ShortRead(near) /\ ~Clipped(near)
  BY DEF Memory
<1>5. PICK n : n = Nearer(near, c)
  OBVIOUS
<1>6. /\ n # None => ShortRead(n) /\ ~Clipped(n)
      /\ ~Clipped(c) => n # None /\ Miss(n) <= Miss(c)
      /\ near # None => n # None /\ Miss(n) <= Miss(near)
  <2> HIDE DEF near
  <2> QED BY <1>4, <1>5, NearerTold
<1>7. ASSUME same, o.jumped PROVE Straddled(n)
  <2>1. /\ o.near # None /\ near = o.near /\ ShortRead(o.near)
        /\ \E g \in Int : HighEnough(g) /\ ShortLevel(g) < BandLo
                          /\ Miss(o.near) <= Target - ShortLevel(g)
    BY <1>7 DEF Memory, Straddled
  <2>2. PICK g \in Int : /\ HighEnough(g) /\ ShortLevel(g) < BandLo
                         /\ Miss(o.near) <= Target - ShortLevel(g)
    BY <2>1
  <2>3. n # None /\ Miss(n) <= Miss(o.near) /\ ShortRead(n)
    BY <1>6, <2>1
  <2>4. Miss(n) \in Int /\ Miss(o.near) \in Int /\ Target - ShortLevel(g) \in Int
    BY <2>1, <2>3, ShortTells, BenchFacts, WindowAssumption DEF Miss
  <2>5. Miss(n) <= Target - ShortLevel(g)
    BY <2>2, <2>3, <2>4
  <2> QED BY <2>2, <2>3, <2>5 DEF Straddled
<1>8. ASSUME over, Distance(c.gain, p.gain) <= 1 PROVE Straddled(n)
  <2>1. p = o.last /\ ShortRead(p) /\ Side(p) * Side(c) < 0
    BY <1>8 DEF Memory, Crossed
  <2>2. Side(p) \in {-1, 0, 1} /\ Side(c) \in {-1, 0, 1}
    BY DEF Side
  <2>3. (Side(p) = -1 /\ Side(c) = 1) \/ (Side(c) = -1 /\ Side(p) = 1)
    BY <2>1, <2>2
  <2>4. Distance(p.gain, c.gain) <= 1
    BY <1>8, <2>1, ShortTells
  <2>5. CASE Side(p) = -1 /\ Side(c) = 1
    <3>1. HighEnough(p.gain) /\ ShortLevel(p.gain) < BandLo /\ Miss(p) = Target - ShortLevel(p.gain)
      BY <2>1, <2>4, <2>5, Straddle
    <3>2. ~Clipped(p) /\ p.gain \in Int
      BY <2>1, <2>5, ShortTells
    <3>3. o.near # None /\ Miss(o.near) <= Miss(p) /\ near = o.near /\ ShortRead(o.near)
      BY <1>8, <2>1, <3>2 DEF Memory
    <3>4. n # None /\ Miss(n) <= Miss(near) /\ ShortRead(n)
      BY <1>6, <3>3
    <3>5. Miss(n) \in Int /\ Miss(near) \in Int /\ Miss(p) \in Int
      BY <2>1, <3>3, <3>4, ShortTells, WindowAssumption DEF Miss
    <3>6. Miss(n) <= Target - ShortLevel(p.gain)
      BY <3>1, <3>3, <3>4, <3>5
    <3> QED BY <3>1, <3>2, <3>4, <3>6 DEF Straddled
  <2>6. CASE Side(c) = -1 /\ Side(p) = 1
    <3>1. HighEnough(c.gain) /\ ShortLevel(c.gain) < BandLo /\ Miss(c) = Target - ShortLevel(c.gain)
      BY <1>8, <2>1, <2>6, Straddle
    <3>2. ~Clipped(c) /\ c.gain \in Int
      BY <2>6, ShortTells
    <3>3. n # None /\ Miss(n) <= Target - ShortLevel(c.gain)
      BY <1>6, <3>1, <3>2
    <3> QED BY <3>1, <3>2, <3>3 DEF Straddled
  <2> QED BY <2>3, <2>5, <2>6
<1>9. q.jumped => Straddled(q.near)
  BY <1>2, <1>5, <1>7, <1>8
<1> QED BY <1>2, <1>5, <1>6, <1>9 DEF Memory

-----------------------------------------------------------------------------
(* Stages B and C on any table                                             *)

LEMMA SameHigh ==
  ASSUME UNCHANGED <<bench, atten>>, NEW g, g = gain', HighEnough(g) PROVE HighEnough(gain)'
<1>1. \A h : FullLevel(atten, h)' = FullLevel(atten, h)
  BY DEF FullLevel, Table, Comp
<1>2. FullLevel(atten, gain)' = FullLevel(atten, g)
  BY DEF FullLevel, Table, Comp
<1>3. Reachable' <=> Reachable
  BY <1>1 DEF Reachable, Reading
<1> QED BY <1>2, <1>3 DEF HighEnough

LEMMA SameMemory ==
  ASSUME UNCHANGED <<bench, atten>>, NEW o, orx' = o, Memory(o) PROVE Memory(orx)'
<1>1. \A g : FullLevel(atten, g)' = FullLevel(atten, g)
  BY DEF FullLevel, Table, Comp
<1>2. \A g : (ShortLevel(g)' = ShortLevel(g)) /\ (HighEnough(g)' <=> HighEnough(g))
  BY <1>1 DEF ShortLevel, HighEnough, Reachable, Reading
<1>3. \A c : (ShortRead(c)' <=> ShortRead(c)) /\ Miss(c)' = Miss(c)
  BY <1>2 DEF ShortRead, Miss
<1>4. \A n : Straddled(n)' <=> Straddled(n)
  BY <1>2, <1>3 DEF Straddled
<1> QED BY <1>3, <1>4 DEF Memory

(* Stage B leaves its gain only for one that is high enough.               *)
LEMMA TrimRecalls ==
  ASSUME Benched, Memory(orx), Trim
  PROVE  \/ stage' = "trim" /\ Memory(orx)'
         \/ stage' = "verify" /\ HighEnough(gain)'
         \/ stage' = "error"
<1>1. PICK r \in Readings(FALSE) : TrimEmpty(r) \/ TrimLevel(r)
  BY DEF Trim
<1>2. PICK c : c = Capture(r, FALSE)
  OBVIOUS
<1>3. PICK o : o = Observe(orx, c)
  OBVIOUS
<1>4. /\ r.data /\ ShortRead(c) /\ c.gain = gain /\ r.peak \in Int /\ c.peak = r.peak
      /\ Clipped(c) <=> Clipped(r)
  BY <1>2, ShortReading DEF ReadingType
<1>5. Memory(o)
  BY <1>3, <1>4, ObserveMemory
<1>6. TrimLevel(r)
  BY <1>1, <1>4 DEF TrimEmpty
<1>7. CASE Fatal
  BY <1>7 DEF Fatal
<1>8. CASE orx' = o /\ TrimSettles(o, r)
  <2>1. stage' = "verify" /\ UNCHANGED <<bench, atten, gain>>
    BY <1>8 DEF TrimSettles, Settle
  <2>2. HighEnough(gain)
    <3>1. CASE InWindow(r)
      <4>1. PICK v \in Int, f \in Int :
              v = ShortLevel(gain) /\ f = FullLevel(atten, gain) /\ v <= f
        BY BenchFacts, LevelsRise
      <4>2. c.peak = v
        BY <1>4, <3>1, <4>1, ShortTells DEF InWindow
      <4>3. v >= BandLo
        BY <1>4, <3>1, <4>2 DEF InWindow
      <4>4. f >= BandLo
        BY <4>1, <4>3, WindowAssumption DEF BandLo
      <4> QED BY <4>1, <4>4 DEF HighEnough
    <3>2. CASE TakesNearest(o, r) /\ o.near.gain = gain
      BY <1>5, <3>2, NearHigh DEF TakesNearest
    <3>3. CASE Exhausted(o, r)
      <4>1. gain = GainMax
        BY <3>3, BenchFacts DEF Exhausted
      <4> QED BY <4>1, MaximumIsHigh
    <3> QED BY <1>8, <3>1, <3>2, <3>3 DEF TrimSettles
  <2> QED BY <2>1, <2>2, BenchFacts, SameHigh
<1>9. CASE orx' = o /\ TrimMoves(o, r)
  <2>1. stage' = stage /\ UNCHANGED <<bench, atten>>
    BY <1>9 DEF TrimMoves
  <2> QED BY <1>5, <1>9, <2>1, SameMemory DEF Trim
<1> QED BY <1>2, <1>3, <1>6, <1>7, <1>8, <1>9 DEF TrimLevel

(* Stage C: from an index that is high enough the verification comes down  *)
(* into the window.                                                        *)
LEMMA VerifyLands ==
  ASSUME Benched, HighEnough(gain), Verify
  PROVE  \/ stage' = "verify" /\ HighEnough(gain)'
         \/ stage' = "accepted" /\ LevelsIntoWindow'
         \/ stage' = "error"
<1>1. PICK r \in Readings(TRUE) :
        last' = Capture(r, TRUE) /\ (VerifyBacksOff(r) \/ VerifyFails(r) \/ VerifyAccepts(r))
  BY DEF Verify
<1>2. PICK v \in Int : v = FullLevel(atten, gain)
  BY BenchFacts
<1>3. r = Reading(v) /\ r \in [data : BOOLEAN, peak : Int, railed : BOOLEAN]
  BY <1>2, NothingIsLost, ReadingFacts DEF ReadingType
<1>4. r.data /\ r.peak = Smaller(v, Ceiling) /\ r.railed = (v >= bench.rail)
  BY <1>3 DEF Reading
<1>5. /\ r.peak \in Int
      /\ r.peak > BandHi <=> v > BandHi
      /\ ~Clipped(r) => r.peak = v /\ v < bench.rail
      /\ Clipped(r) => v >= bench.rail \/ v > BandHi
  BY <1>2, <1>3, <1>4, ReadingTells
<1>6. CASE VerifyFails(r)
  BY <1>6 DEF VerifyFails, Fatal
<1>7. CASE VerifyBacksOff(r)
  <2>1. TooHot(r) /\ gain' = gain - 1 /\ UNCHANGED <<bench, atten, stage>>
    BY <1>4, <1>7 DEF VerifyBacksOff
  <2>2. HighEnough(gain - 1)
    BY <1>2, <1>5, <2>1, BelowHot, BenchFacts DEF TooHot
  <2> QED BY <2>1, <2>2, SameHigh DEF Verify
<1>8. CASE VerifyAccepts(r)
  <2>1. /\ stage' = "accepted" /\ UNCHANGED <<bench, atten, gain>> /\ ~Clipped(r)
        /\ r.peak <= BandHi \/ gain <= GainMin
    BY <1>8 DEF VerifyAccepts
  <2>2. ASSUME Reachable PROVE InWindow(r)
    <3>1. v >= BandLo
      BY <1>2, <2>2 DEF HighEnough
    <3>2. v <= BandHi
      <4> SUFFICES ASSUME gain <= GainMin PROVE v <= BandHi
        BY <1>2, <1>5, <2>1, WindowAssumption DEF BandHi
      <4>1. PICK h \in GainMin..GainMax : InWindow(Reading(FullLevel(atten, h)))
        BY <2>2 DEF Reachable
      <4>2. h \in Int /\ gain \in Int /\ gain <= h
        BY BenchFacts
      <4>3. PICK w \in Int : w = FullLevel(atten, h) /\ v <= w
        BY <1>2, <4>2, BenchFacts, LevelsRise
      <4>4. w <= BandHi
        BY <4>1, <4>3, InWindowTells
      <4> QED BY <4>3, <4>4, WindowAssumption DEF BandHi
    <3> QED BY <1>5, <2>1, <3>1, <3>2 DEF InWindow
  <2>3. InWindow(r) => InWindow(last)'
    BY <1>1 DEF InWindow, Clipped, Capture
  <2>4. Reachable' <=> Reachable
    <3>1. \A h : FullLevel(atten, h)' = FullLevel(atten, h)
      BY <2>1 DEF FullLevel, Table, Comp
    <3> QED BY <2>1, <3>1 DEF Reachable, Reading
  <2> QED BY <2>1, <2>2, <2>3, <2>4 DEF LevelsIntoWindow
<1> QED BY <1>1, <1>6, <1>7, <1>8

Recalled == stage = "trim" => Memory(orx)

Settled ==
  /\ stage = "verify" => HighEnough(gain)
  /\ stage = "accepted" => LevelsIntoWindow

(* No decision of the leveling loses a level, if the last trim does not.   *)
LEMMA LevelingSettles ==
  ASSUME TypeInv, NeverEmpty, Recalled, Settled, [Next]_vars, TrimsOver => HighEnough(gain)
  PROVE  Recalled' /\ Settled'
<1>1. Benched
  BY DEF TypeInv
<1>2. ASSUME orx' = NewStep PROVE Recalled'
  BY <1>2 DEF Recalled, Memory, NewStep
<1>3. CASE Floor
  <2>1. stage' \in {"floor", "error"} \/ (stage' = "trim" /\ orx' = NewStep)
    BY <1>3 DEF Floor, FloorEmpty, FloorTooStrong, FloorJump, Fatal, NoDataAgain
  <2> QED BY <1>2, <2>1 DEF Recalled, Settled
<1>4. CASE Trim
  <2>1. Memory(orx)
    BY <1>4 DEF Trim, Recalled
  <2> QED BY <1>1, <1>4, <2>1, TrimRecalls DEF Recalled, Settled
<1>5. CASE TrimsOver
  <2>1. CASE Fatal
    BY <2>1 DEF Fatal, Recalled, Settled
  <2>2. CASE Settle(FALSE, FALSE)
    <3>1. HighEnough(gain)' /\ stage' = "verify"
      BY <1>5, <2>2, SameHigh DEF Settle
    <3> QED BY <3>1 DEF Recalled, Settled
  <2> QED BY <1>5, <2>1, <2>2 DEF TrimsOver
<1>6. CASE Verify
  <2>1. HighEnough(gain)
    BY <1>6 DEF Verify, Settled
  <2> QED BY <1>1, <1>6, <2>1, VerifyLands DEF Recalled, Settled
<1>7. CASE StartSearch \/ Search \/ SearchOver \/ BackedOff \/ CapturePoint
  <2>1. stage' \in {"search", "locked", "capture", "done", "error"}
    <3>1. CASE Search
      <4>1. PICK r \in Readings(TRUE) : SearchLevel(r) \/ SearchEmpty(r)
        BY <3>1 DEF Search
      <4>2. stage = "search"
        BY <3>1 DEF Search
      <4>3. CASE SearchLevel(r)
        BY <4>2, <4>3, SearchLevelTyped DEF Iterates, RunsOrEnds
      <4>4. CASE SearchEmpty(r)
        BY <4>2, <4>4 DEF SearchEmpty, NoDataAgain, Fatal
      <4> QED BY <4>1, <4>3, <4>4
    <3>2. CASE StartSearch \/ SearchOver \/ BackedOff \/ CapturePoint
      BY <3>2 DEF StartSearch, SearchOver, BackedOff, CapturePoint, StartCapture
    <3> QED BY <1>7, <3>1, <3>2
  <2> QED BY <2>1 DEF Recalled, Settled
<1>8. CASE BackOff
  <2>1. StartStage \in {"floor", "trim"}
    BY <1>1, StartTyped DEF AgcType
  <2>2. stage' \in {"capture", "floor"} \/ (stage' = "trim" /\ orx' = NewStep)
    BY <1>8, <2>1 DEF BackOff, StartCapture
  <2> QED BY <1>2, <2>2 DEF Recalled, Settled
<1>9. CASE UNCHANGED vars
  <2>1. UNCHANGED <<bench, atten, gain, stage, orx, last>>
    BY <1>9 DEF vars, agcVars
  <2>2. (HighEnough(gain) => HighEnough(gain)') /\ (Memory(orx) => Memory(orx)')
    BY <2>1, SameHigh, SameMemory
  <2>3. LevelsIntoWindow => LevelsIntoWindow'
    <3>1. \A h : FullLevel(atten, h)' = FullLevel(atten, h)
      BY <2>1 DEF FullLevel, Table, Comp
    <3>2. (Reachable' <=> Reachable) /\ (NeverEmpty' <=> NeverEmpty)
      BY <2>1, <3>1 DEF Reachable, Reading, NeverEmpty, Table
    <3> QED BY <2>1, <3>2 DEF LevelsIntoWindow, InWindow, Clipped
  <2> QED BY <2>1, <2>2, <2>3 DEF Recalled, Settled
<1> QED BY <1>3, <1>4, <1>5, <1>6, <1>7, <1>8, <1>9 DEF Next, AutoLevel, Level

LEMMA SameBench == ASSUME [Next]_vars PROVE bench' = bench
BY DEF Next, AutoLevel, Level, Floor, FloorEmpty, FloorTooStrong, FloorJump, Fatal, NoDataAgain,
       Trim, TrimEmpty, TrimLevel, TrimSettles, TrimMoves, Settle, TrimsOver,
       Verify, VerifyBacksOff, VerifyFails, VerifyAccepts,
       StartSearch, Search, SearchOver, BackOff, BackedOff, CapturePoint, vars, agcVars

SettledInv == NeverEmpty => Recalled /\ Settled

LEMMA SettledInit == Init => SettledInv
BY StartTyped DEF Init, SettledInv, Recalled, Settled, Memory, NewStep

LEMMA SettledStep ==
  TypeInv /\ SettledInv /\ [Next]_vars /\ [~TrimsOver]_vars => SettledInv'
<1> SUFFICES ASSUME TypeInv, SettledInv, [Next]_vars, [~TrimsOver]_vars, NeverEmpty'
             PROVE  Recalled' /\ Settled'
  BY DEF SettledInv
<1>1. NeverEmpty
  BY SameBench DEF NeverEmpty, Table
<1>2. ~TrimsOver
  BY DEF TrimsOver, Fatal, Settle, vars, agcVars
<1> QED BY <1>1, <1>2, LevelingSettles DEF SettledInv

(* On every bench and every gain table, even or not: as long as stage B    *)
(* does not run out of its iterations, an accepted level is in the window, *)
(* if any gain index puts the full signal there.  No re-level by a step    *)
(* wrongly learnt, no single step, no nearest capture taken and no         *)
(* verification loses a level that could be had; only max_iterations can.  *)
THEOREM LevelsInTime == Spec /\ [][~TrimsOver]_vars => []LevelsIntoWindow
<1>1. SettledInv => LevelsIntoWindow
  BY DEF SettledInv, Settled, LevelsIntoWindow
<1> QED BY <1>1, InitTyped, TypeStep, SettledInit, SettledStep, PTL DEF Spec

-----------------------------------------------------------------------------
(* On a table of even steps stage B is through in time.                    *)

(* The steps of the table are even, and such as can be learnt.             *)
EvenTable == bench.step = bench.steep /\ bench.step \in StepMin..StepMax

(* The ORx saturates less than one and a half of the assumed steps above   *)
(* the target, and not beyond thrice the window's lower part: a step down  *)
(* from a saturated capture cannot miss the window.  At a target of -1     *)
(* dBFS with tol_down_db 0.6 and ORX_DB_PER_INDEX 0.5 this asks for a      *)
(* ceiling below -0.25 dBFS; the configured ones are -0.45 and -0.35.      *)
CeilingIsNear ==
  /\ 2 * (Ceiling - Target) < 3 * DbPerIndex /\ Ceiling - Target <= 3 * TolDown
  /\ MaxTrims >= 3

LEMMA EvenStep == ASSUME EvenTable PROVE bench.step \in Nat \ {0}
<1>1. StepMin \in Nat \ {0} /\ StepMax \in Int
  BY WindowAssumption
<1> QED BY <1>1 DEF EvenTable

LEMMA EvenTableLevels ==
  ASSUME Benched, EvenTable, NEW x \in Int PROVE Table(x) = bench.step * (x - GainMin)
<1>1. PICK s \in Nat : s = bench.step /\ s = bench.steep
  BY EvenStep DEF EvenTable
<1>2. bench.from \in Int /\ bench.to \in Int /\ GainMin \in Int
  BY BenchFacts
<1>3. PICK i \in Int : i = Larger(0, Smaller(x, bench.to) - Larger(GainMin, bench.from))
  BY <1>2
<1>4. Table(x) = s * (x - GainMin - i) + s * i
  BY <1>1, <1>3 DEF Table
<1> QED BY <1>1, <1>2, <1>3, <1>4

LEMMA EvenLevels ==
  ASSUME Benched, EvenTable, NEW g \in Int, NEW h \in Int
  PROVE  /\ FullLevel(atten, h) = FullLevel(atten, g) + bench.step * (h - g)
         /\ ShortLevel(h) = ShortLevel(g) + bench.step * (h - g)
<1>1. PICK s \in Nat : s = bench.step
  BY BenchFacts
<1>2. Table(g) = s * (g - GainMin) /\ Table(h) = s * (h - GainMin)
  BY <1>1, EvenTableLevels
<1>3. PICK l \in Int : l = bench.signal - atten - Comp(atten)
  <2>1. Comp(atten) \in Nat /\ bench.signal \in Int /\ atten \in Nat
    BY BenchFacts, CompNat
  <2> QED BY <2>1
<1>4. FullLevel(atten, g) = l + s * (g - GainMin) /\ FullLevel(atten, h) = l + s * (h - GainMin)
  BY <1>2, <1>3 DEF FullLevel
<1>5. s * (h - GainMin) = s * (g - GainMin) + s * (h - g)
  BY <1>1, BenchFacts
<1>6. PICK m \in Int, n \in Int, d \in Int :
        m = s * (g - GainMin) /\ n = s * (h - GainMin) /\ d = s * (h - g)
  BY <1>1, GainAssumption
<1>7. FullLevel(atten, h) = FullLevel(atten, g) + s * (h - g)
  BY <1>3, <1>4, <1>5, <1>6
<1>8. PICK v \in Int, u \in Nat : v = FullLevel(atten, g) /\ u = bench.short
  BY BenchFacts
<1>9. ShortLevel(h) = ShortLevel(g) + d
  BY <1>6, <1>7, <1>8 DEF ShortLevel
<1> QED BY <1>1, <1>6, <1>7, <1>9

LEMMA ShortLevelsRise ==
  ASSUME Benched, EvenTable, NEW g \in Int, NEW h \in Int, g < h
  PROVE  ShortLevel(g) < ShortLevel(h) /\ ShortLevel(g) \in Int /\ ShortLevel(h) \in Int
<1>1. PICK s \in Nat \ {0} : s = bench.step
  BY EvenStep
<1>2. PICK d \in Int : d = s * (h - g) /\ d > 0
  BY <1>1
<1>3. PICK t \in Int : t = ShortLevel(g)
  BY BenchFacts
<1>4. ShortLevel(h) = t + d
  BY <1>1, <1>2, <1>3, EvenLevels
<1> QED BY <1>2, <1>3, <1>4

(* On an even table two captures teach its step.                           *)
LEMMA SecantEven ==
  ASSUME Benched, EvenTable, NEW p, ShortRead(p), NEW c, ShortRead(c), Teaches(p, c)
  PROVE  Secant(p, c) = bench.step
<1>1. PICK s \in Nat \ {0} : s = bench.step /\ s \in StepMin..StepMax
  BY EvenStep DEF EvenTable
<1>2. /\ p.gain \in Int /\ c.gain \in Int /\ p.gain # c.gain
      /\ p.peak = ShortLevel(p.gain) /\ c.peak = ShortLevel(c.gain)
  BY ShortTells DEF Teaches
<1>3. PICK g \in Int, h \in Int : g = p.gain /\ h = c.gain /\ g # h
  BY <1>2
<1>4. PICK v \in Int, w \in Int : v = ShortLevel(g) /\ w = ShortLevel(h)
  BY BenchFacts
<1>5. w = v + s * (h - g) /\ v = w + s * (g - h)
  BY <1>1, <1>4, EvenLevels
<1> DEFINE lo == IF p.gain < c.gain THEN p ELSE c
           hi == IF p.gain < c.gain THEN c ELSE p
<1>6. PICK n \in Nat \ {0} : n = hi.gain - lo.gain
  BY <1>3
<1>7. hi.peak - lo.peak = s * n
  <2>1. CASE g < h
    <3>1. n = h - g /\ hi.peak = w /\ lo.peak = v
      BY <1>2, <1>3, <1>4, <1>6, <2>1
    <3>2. PICK d \in Int : d = s * n
      BY <1>1
    <3>3. w = v + d
      BY <1>5, <3>1, <3>2
    <3> QED BY <3>1, <3>2, <3>3
  <2>2. CASE ~(g < h)
    <3>1. n = g - h /\ hi.peak = v /\ lo.peak = w
      BY <1>2, <1>3, <1>4, <1>6, <2>2
    <3>2. PICK d \in Int : d = s * n
      BY <1>1
    <3>3. v = w + d
      BY <1>5, <3>1, <3>2
    <3> QED BY <3>1, <3>2, <3>3
  <2> QED BY <2>1, <2>2
<1>8. RoundDiv(hi.peak - lo.peak, hi.gain - lo.gain) = s
  <2>1. RoundDiv(s * n, n) = s
    <3>1. s \in Int /\ n \in Nat \ {0}
      BY <1>1, <1>6
    <3> QED BY <3>1, RoundDivExact
  <2> HIDE DEF lo, hi
  <2> QED BY <1>6, <1>7, <2>1
<1>9. Secant(p, c) = Larger(StepMin, Smaller(StepMax, s))
  BY <1>8 DEF Secant
<1> QED BY <1>1, <1>9, WindowAssumption

LEMMA LowTeaches ==
  ASSUME Benched, EvenTable, NEW p, ShortRead(p), NEW c, ShortRead(c), p # None,
         ~Clipped(p), ~Clipped(c), p.gain < c.gain
  PROVE  Teaches(p, c)
<1>1. PICK g \in Int, h \in Int : g = p.gain /\ h = c.gain /\ g < h
  BY ShortTells
<1>2. PICK v \in Int, w \in Int : v = p.peak /\ w = c.peak /\ v < w
  BY <1>1, ShortTells, ShortLevelsRise
<1>3. (w - v) * (h - g) > 0
  <2>1. PICK a \in Nat \ {0}, b \in Nat \ {0} : a = w - v /\ b = h - g
    BY <1>1, <1>2
  <2>2. a * b > 0
    OBVIOUS
  <2> QED BY <2>1, <2>2
<1> QED BY <1>1, <1>2, <1>3 DEF Teaches

(* What is learnt: the step the search assumes, or the table's.            *)
Learnt(o) == o.dbPerIndex \in {DbPerIndex, bench.step}

LEMMA ObserveLearns ==
  ASSUME Benched, EvenTable, NEW o, Memory(o), Learnt(o), NEW c, ShortRead(c)
  PROVE  Learnt(Observe(o, c))
<1> DEFINE p == IF o.last # None /\ o.last.drive = c.drive THEN o.last ELSE None
<1>1. Observe(o, c).dbPerIndex = IF Teaches(p, c) THEN Secant(p, c) ELSE o.dbPerIndex
  BY DEF Observe
<1>2. CASE Teaches(p, c)
  <2>1. ShortRead(p)
    BY <1>2 DEF Teaches, Memory
  <2> QED BY <1>1, <1>2, <2>1, SecantEven DEF Learnt
<1>3. CASE ~Teaches(p, c)
  BY <1>1, <1>3 DEF Learnt
<1> QED BY <1>2, <1>3

LEMMA RoundDivLower ==
  ASSUME NEW a \in Int, NEW b \in Nat \ {0}
  PROVE  2 * (b * RoundDiv(a, b)) >= 2 * a - b
<1>1. PICK q \in Int : q = a \div b
  OBVIOUS
<1>2. PICK r \in 0..(b - 1) : r = a % b
  OBVIOUS
<1>3. a = b * q + r
  BY <1>1, <1>2
<1>4. b * (q + 1) = b * q + b /\ b * q \in Int
  OBVIOUS
<1>5. CASE RoundDiv(a, b) = q /\ 2 * r <= b
  BY <1>2, <1>3, <1>4, <1>5
<1>6. CASE RoundDiv(a, b) = q + 1
  BY <1>2, <1>3, <1>4, <1>6
<1>7. (RoundDiv(a, b) = q /\ 2 * r <= b) \/ RoundDiv(a, b) = q + 1
  BY <1>1, <1>2 DEF RoundDiv
<1> QED BY <1>5, <1>6, <1>7

LEMMA ClampHigh ==
  ASSUME Benched, NEW h \in Int, HighEnough(h)
  PROVE  HighEnough(Clamp(h)) /\ Clamp(h) \in Int
<1>1. GainMin \in Int /\ GainMax \in Int /\ GainMin <= GainMax
  BY GainAssumption
<1>2. PICK m \in Int : m = Clamp(h) /\ (m = GainMax \/ h <= m)
  BY <1>1 DEF Clamp
<1>3. CASE m = GainMax
  BY <1>2, <1>3, MaximumIsHigh
<1>4. CASE h <= m
  BY <1>2, <1>4, HigherIsHigh
<1> QED BY <1>2, <1>3, <1>4

(* A drop by more than one index, with the step learnt, lands near the     *)
(* target, which is inside the window.                                     *)
LEMMA DropLands ==
  ASSUME CeilingIsNear, Benched, EvenTable, NEW d \in {DbPerIndex, bench.step}, NEW v \in Int,
         v = ShortLevel(gain), NEW x \in Int, x <= v, x <= Ceiling,
         NEW m \in Nat, m >= 2, m = RoundDiv(x - Target, d)
  PROVE  HighEnough(gain - m)
<1>1. PICK s \in Nat \ {0} : s = bench.step
  BY EvenStep
<1>2. d \in Nat \ {0}
  BY EvenStep, WindowAssumption
<1>3. /\ Target \in Int /\ Ceiling \in Int /\ TolDown \in Nat /\ DbPerIndex \in Nat
      /\ BandLo = Target - TolDown
  BY WindowAssumption, GainAssumption DEF BandLo
<1>4. PICK y \in Int : y = x - Target /\ y <= Ceiling - Target
  BY <1>3
<1>5. PICK z \in Int : z = d * m /\ z >= 2 * d
  BY <1>2
<1>6. 2 * z <= 2 * y + d
  BY <1>2, <1>4, <1>5, RoundDivUpper
<1>7. 3 * d <= 2 * (Ceiling - Target)
  BY <1>2, <1>3, <1>4, <1>5, <1>6
<1>8. d = s /\ d <= 2 * TolDown
  BY <1>1, <1>2, <1>3, <1>7 DEF CeilingIsNear
<1>9. gain \in Int /\ gain - m \in Int
  BY BenchFacts
<1>10. PICK w \in Int, f \in Int :
         w = ShortLevel(gain - m) /\ f = FullLevel(atten, gain - m) /\ w <= f
  BY <1>9, BenchFacts, LevelsRise
<1>11. w = v - z
  <2>1. w = v + s * (gain - m - gain)
    BY <1>1, <1>9, <1>10, EvenLevels
  <2>2. gain - m - gain = 0 - m
    BY <1>9
  <2>3. s * (0 - m) = 0 - s * m
    OBVIOUS
  <2>4. s * m = z
    BY <1>5, <1>8
  <2> QED BY <2>1, <2>2, <2>3, <2>4
<1>12. w >= BandLo
  BY <1>2, <1>3, <1>4, <1>6, <1>8, <1>11
<1>13. f >= BandLo
  BY <1>3, <1>10, <1>12
<1> QED BY <1>10, <1>13 DEF HighEnough

(* From a hot capture the gain goes down to an index that is high enough.  *)
LEMMA DropsHigh ==
  ASSUME CeilingIsNear, Benched, EvenTable, NEW o \in OrxSteps, Memory(o), Learnt(o),
         NEW r \in Readings(FALSE),
         Clipped(r) \/ r.peak > BandHi
  PROVE  TrimTo(o, r) \in Int /\ HighEnough(TrimTo(o, r))
<1>1. PICK v \in Int : v = ShortLevel(gain) /\ v <= FullLevel(atten, gain)
  BY BenchFacts, LevelsRise
<1>2. r \in [data : BOOLEAN, peak : Int, railed : BOOLEAN] /\ r \in ReadingType
      /\ r.peak = Smaller(v, Ceiling) /\ r.railed = (v >= bench.rail)
  BY <1>1, ShortReading DEF ReadingType
<1>3. /\ r.peak <= v /\ r.peak <= Ceiling /\ r.peak \in Int
      /\ r.railed <=> v >= bench.rail
      /\ r.peak > BandHi <=> v > BandHi
      /\ Clipped(r) => v >= bench.rail \/ v > BandHi
  BY <1>1, <1>2, ReadingTells
<1>4. v > BandHi \/ v >= bench.rail
  BY <1>3
<1>5. gain \in Int /\ gain - 1 \in Int /\ HighEnough(gain - 1)
  BY <1>1, <1>4, BenchFacts, BelowHot
<1>6. CASE r.railed
  BY <1>5, <1>6 DEF TrimTo
<1>7. CASE ~r.railed /\ TakesNearest(o, r)
  <2>1. HighEnough(o.near.gain) /\ o.near.gain \in Int
    BY <1>7, NearHigh, GainAssumption DEF TakesNearest
  <2> QED BY <1>7, <2>1 DEF TrimTo
<1>8. CASE ~r.railed /\ ~TakesNearest(o, r)
  <2>1. TrimTo(o, r) = gain + StepFor(o, r)
    BY <1>8 DEF TrimTo
  <2>2. r.peak > BandHi
    BY <1>3, <1>4, <1>8
  <2>3. o.dbPerIndex \in {DbPerIndex, bench.step} /\ o.dbPerIndex \in Nat \ {0}
    BY DEF Learnt, OrxSteps
  <2>4. PICK m \in Int : m = RoundDiv(r.peak - Target, o.dbPerIndex)
    <3>1. r.peak - Target \in Int
      BY <1>3, WindowAssumption
    <3> QED BY <2>3, <3>1, RoundDivInt
  <2>5. Relevel(o, r) = 0 - Larger(1, m)
    BY <1>3, <1>8, <2>2, <2>4, WindowAssumption DEF Relevel, BandHi
  <2>6. StepFor(o, r) = IF o.single THEN -1 ELSE 0 - Larger(1, m)
    BY <2>4, <2>5 DEF StepFor
  <2>7. CASE o.single \/ m <= 1
    <3>1. TrimTo(o, r) = gain - 1
      BY <1>5, <2>1, <2>4, <2>6, <2>7
    <3> QED BY <1>5, <3>1
  <2>8. CASE ~o.single /\ m >= 2
    <3>1. TrimTo(o, r) = gain - m /\ gain - m \in Int
      BY <1>5, <2>1, <2>4, <2>6, <2>8
    <3>2. m \in Nat
      BY <2>4, <2>8
    <3>3. HighEnough(gain - m)
      BY <1>1, <1>3, <2>3, <2>4, <2>8, <3>2, DropLands
    <3> QED BY <3>1, <3>3
  <2> QED BY <2>4, <2>7, <2>8
<1> QED BY <1>6, <1>7, <1>8

(* From a low capture it goes up, or to the nearest.                       *)
LEMMA LowRaises ==
  ASSUME Benched, NEW o \in OrxSteps, NEW r \in Readings(FALSE),
         ~Clipped(r), r.peak < BandLo, ~TakesNearest(o, r)
  PROVE  /\ StepFor(o, r) \in Nat \ {0} /\ TrimTo(o, r) = gain + StepFor(o, r)
         /\ ~o.single => StepFor(o, r) >= RoundDiv(Target - r.peak, o.dbPerIndex)
<1>1. r.peak \in Int /\ ~r.railed
  BY ShortReading DEF ReadingType, Clipped
<1>2. ~(r.peak > BandHi)
  BY <1>1, WindowAssumption DEF BandLo, BandHi
<1>3. PICK m \in Int : m = RoundDiv(Target - r.peak, o.dbPerIndex)
  <2>1. Target - r.peak \in Int /\ o.dbPerIndex \in Nat \ {0}
    BY <1>1, WindowAssumption DEF OrxSteps
  <2> QED BY <2>1, RoundDivInt
<1>4. Relevel(o, r) = Larger(1, m)
  BY <1>1, <1>2, <1>3 DEF Relevel
<1>5. StepFor(o, r) = IF o.single THEN 1 ELSE Larger(1, m)
  BY <1>3, <1>4 DEF StepFor
<1> QED BY <1>1, <1>3, <1>5 DEF TrimTo

LEMMA RaisesHigh ==
  ASSUME Benched, HighEnough(gain), NEW o \in OrxSteps, Memory(o), NEW r \in Readings(FALSE),
         ~Clipped(r), r.peak < BandLo
  PROVE  TrimTo(o, r) \in Int /\ HighEnough(TrimTo(o, r))
<1>1. CASE TakesNearest(o, r)
  <2>1. HighEnough(o.near.gain) /\ o.near.gain \in Int
    BY <1>1, NearHigh, GainAssumption DEF TakesNearest
  <2> QED BY <1>1, <2>1 DEF TrimTo, Clipped
<1>2. CASE ~TakesNearest(o, r)
  <2>1. PICK k \in Nat \ {0} : TrimTo(o, r) = gain + k
    BY <1>2, LowRaises
  <2>2. gain \in Int
    BY BenchFacts
  <2>3. gain + k \in Int /\ gain <= gain + k
    BY <2>2
  <2>4. HighEnough(gain + k)
    BY <2>2, <2>3, HigherIsHigh
  <2> QED BY <2>1, <2>3, <2>4
<1> QED BY <1>1, <1>2

(* The climb to an index that is high enough takes three iterations at     *)
(* most: by the step assumed, by the step then learnt, and by one more.    *)
Rising(o, g) ==
  o.last # None /\ Side(o.last) = -1 /\ o.last.gain < g /\ ~o.single /\ ~o.jumped

Progress ==
  \/ HighEnough(gain)
  \/ iter = 0 /\ orx = NewStep
  \/ iter = 1 /\ Rising(orx, gain)
  \/ iter = 2 /\ Rising(orx, gain) /\ 2 * (Target - ShortLevel(gain)) <= bench.step

LEMMA BelowMaximum ==
  ASSUME Benched, ~HighEnough(gain), NEW k \in Nat \ {0}
  PROVE  /\ Clamp(gain + k) > gain
         /\ Clamp(gain + k) = gain + k \/ HighEnough(Clamp(gain + k))
<1>1. gain \in Int /\ GainMin \in Int /\ GainMax \in Int /\ GainMin <= gain /\ gain <= GainMax
  BY BenchFacts
<1>2. gain < GainMax
  BY <1>1, MaximumIsHigh
<1>3. PICK m \in Int : m = Clamp(gain + k) /\ m > gain /\ (m = gain + k \/ m = GainMax)
  BY <1>1, <1>2 DEF Clamp
<1> QED BY <1>3, MaximumIsHigh

(* A low capture at the new gain, in the middle of the climb.              *)
LEMMA KeepsRising ==
  ASSUME Benched, NEW o, NEW c, ShortRead(c), Side(c) = -1, c.gain = gain,
         NEW h \in Int, h > gain,
         o = NewStep \/ Rising(o, gain)
  PROVE  Rising(Observe(o, c), h)
<1> DEFINE same == o.last # None /\ o.last.drive = c.drive
           p == IF same THEN o.last ELSE None
           q == Observe(o, c)
<1>1. /\ q.last = c /\ q.single = ((same /\ o.single) \/ (same /\ Crossed(p, c)))
      /\ q.jumped = ((same /\ o.jumped)
                       \/ (same /\ Crossed(p, c) /\ Distance(c.gain, p.gain) <= 1))
  BY DEF Observe
<1>2. ~(same /\ Crossed(p, c)) /\ ~(same /\ o.single) /\ ~(same /\ o.jumped)
  <2>1. CASE o = NewStep
    BY <2>1 DEF NewStep
  <2>2. CASE Rising(o, gain)
    <3>1. same => Side(p) = -1
      BY <2>2 DEF Rising
    <3>2. ~((-1) * (-1) < 0)
      OBVIOUS
    <3> QED BY <2>2, <3>1, <3>2 DEF Rising, Crossed
  <2> QED BY <2>1, <2>2
<1>3. c # None /\ c.gain < h
  BY CaptureIsSome DEF ShortRead
<1> QED BY <1>1, <1>2, <1>3 DEF Rising

LEMMA LearnsTheStep ==
  ASSUME Benched, EvenTable, NEW o, Memory(o), NEW c, ShortRead(c), Side(c) = -1, c.gain = gain,
         Rising(o, gain)
  PROVE  Observe(o, c).dbPerIndex = bench.step
<1>1. o.last # None /\ ShortRead(o.last) /\ o.last.drive = c.drive
  BY DEF Memory, Rising, ShortRead
<1>2. ~Clipped(o.last) /\ ~Clipped(c)
  BY <1>1, ShortTells DEF Rising
<1>3. Teaches(o.last, c)
  BY <1>1, <1>2, LowTeaches DEF Rising
<1>4. Observe(o, c).dbPerIndex = Secant(o.last, c)
  BY <1>1, <1>3 DEF Observe
<1> QED BY <1>1, <1>3, <1>4, SecantEven

(* With the step learnt, the level comes within half a step of the target. *)
LEMMA LandsAtTarget ==
  ASSUME Benched, EvenTable, NEW k \in Nat \ {0},
         k >= RoundDiv(Target - ShortLevel(gain), bench.step)
  PROVE  2 * (Target - ShortLevel(gain + k)) <= bench.step
<1>1. PICK s \in Nat \ {0} : s = bench.step
  BY EvenStep
<1>2. PICK g \in Int, v \in Int : g = gain /\ v = ShortLevel(g)
  BY BenchFacts
<1>3. Target \in Int
  BY WindowAssumption
<1>4. PICK y \in Int : y = Target - v
  BY <1>2, <1>3
<1>5. PICK m \in Int : m = RoundDiv(y, s) /\ m <= k
  BY <1>1, <1>2, <1>4, RoundDivInt
<1>6. 2 * (s * m) >= 2 * y - s
  BY <1>1, <1>4, <1>5, RoundDivLower
<1>7. PICK a \in Int, b \in Int : a = s * m /\ b = s * k /\ a <= b
  <2>1. s * m <= s * k /\ s * m \in Int /\ s * k \in Int
    BY <1>1, <1>5, ScaleUp
  <2> QED BY <2>1
<1>8. ShortLevel(g + k) = v + b
  <2>1. PICK h \in Int : h = g + k /\ h - g = k
    OBVIOUS
  <2>2. ShortLevel(h) = v + s * (h - g)
    BY <1>1, <1>2, EvenLevels
  <2> QED BY <1>7, <2>1, <2>2
<1> QED BY <1>1, <1>2, <1>3, <1>4, <1>6, <1>7, <1>8

LEMMA OneMoreIsHigh ==
  ASSUME Benched, EvenTable, NEW h \in Int, h > gain, 2 * (Target - ShortLevel(gain)) <= bench.step
  PROVE  HighEnough(h)
<1>1. PICK s \in Nat \ {0} : s = bench.step
  BY EvenStep
<1>2. PICK g \in Int, v \in Int : g = gain /\ v = ShortLevel(g)
  BY BenchFacts
<1>3. PICK n \in Nat \ {0} : n = h - g
  BY <1>2
<1>4. PICK b \in Int : b = s * n /\ b >= s
  BY <1>1
<1>5. PICK w \in Int, f \in Int : w = ShortLevel(h) /\ f = FullLevel(atten, h) /\ w <= f
  BY BenchFacts, LevelsRise
<1>6. w = v + b
  BY <1>1, <1>2, <1>3, <1>4, <1>5, EvenLevels
<1>7. Target \in Int /\ BandLo \in Int /\ BandLo <= Target
  BY WindowAssumption DEF BandLo
<1>8. f >= BandLo
  BY <1>1, <1>2, <1>4, <1>5, <1>6, <1>7
<1> QED BY <1>5, <1>8 DEF HighEnough

(* --- the invariant ---------------------------------------------------- *)

Climb == Learnt(orx) /\ Progress

LevelInv ==
  EvenTable /\ NeverEmpty => Recalled /\ Settled /\ (stage = "trim" => Climb)

LEMMA NewClimb ==
  ASSUME orx' = NewStep, iter' = 0 PROVE Climb'
BY DEF Climb, Learnt, Progress, NewStep

LEMMA SameLearnt ==
  ASSUME UNCHANGED bench, NEW o, orx' = o, Learnt(o) PROVE Learnt(orx)'
BY DEF Learnt

LEMMA TrimClimbs ==
  ASSUME CeilingIsNear, Benched, EvenTable, Memory(orx), Climb, Trim
  PROVE  stage' = "trim" => Climb'
<1>1. PICK r \in Readings(FALSE) : TrimEmpty(r) \/ TrimLevel(r)
  BY DEF Trim
<1>2. PICK c : c = Capture(r, FALSE)
  OBVIOUS
<1>3. PICK o : o = Observe(orx, c)
  OBVIOUS
<1>4. /\ r.data /\ ShortRead(c) /\ c.gain = gain /\ r.peak \in Int /\ c.peak = r.peak
      /\ Clipped(c) <=> Clipped(r)
  BY <1>2, ShortReading DEF ReadingType
<1>5. o \in OrxSteps /\ Memory(o) /\ Learnt(o) /\ o.last = c
  <2>1. o \in OrxSteps
    BY <1>2, <1>3, ReadingFacts
  <2> QED BY <1>3, <1>4, <2>1, ObserveMemory, ObserveLearns DEF Climb
<1>6. TrimLevel(r)
  BY <1>1, <1>4 DEF TrimEmpty
<1>7. CASE Fatal
  BY <1>7 DEF Fatal
<1>8. CASE orx' = o /\ TrimSettles(o, r)
  BY <1>8 DEF TrimSettles, Settle
<1>9. CASE orx' = o /\ TrimMoves(o, r)
  <2>1. /\ stage' = stage /\ iter' = iter + 1 /\ gain' = Clamp(TrimTo(o, r))
        /\ UNCHANGED <<bench, atten>>
    BY <1>9 DEF TrimMoves
  <2>2. Learnt(orx)'
    BY <1>5, <1>9, <2>1, SameLearnt
  <2>3. ASSUME TrimTo(o, r) \in Int, HighEnough(TrimTo(o, r)) PROVE HighEnough(gain)'
    <3>1. PICK h \in Int : h = TrimTo(o, r) /\ HighEnough(h)
      BY <2>3
    <3>2. HighEnough(Clamp(h)) /\ Clamp(h) = gain'
      BY <2>1, <3>1, ClampHigh
    <3> QED BY <2>1, <3>2, SameHigh
  <2>4. CASE Clipped(r) \/ r.peak > BandHi
    BY <1>5, <2>2, <2>3, <2>4, DropsHigh, <2>1 DEF Climb, Progress, Trim
  <2>5. CASE ~(Clipped(r) \/ r.peak > BandHi)
    <3>1. r.peak < BandLo /\ ~r.railed
      BY <1>4, <1>9, <2>5, WindowAssumption DEF TrimMoves, InWindow, Clipped, BandLo, BandHi
    <3>2. CASE HighEnough(gain)
      BY <1>5, <2>2, <2>3, <2>5, <3>1, <3>2, RaisesHigh, <2>1 DEF Climb, Progress, Trim
    <3>3. CASE ~HighEnough(gain)
      <4>1. Side(c) = -1
        BY <1>4, <2>5, <3>1, WindowAssumption DEF Side, BandLo, BandHi
      <4>2. orx = NewStep \/ Rising(orx, gain)
        BY <3>3 DEF Climb, Progress
      <4>3. \A h \in Int : h > gain => Rising(o, h)
        BY <1>3, <1>4, <4>1, <4>2, KeepsRising
      <4>4. ~o.jumped /\ ~o.single
        <5>1. gain \in Int /\ gain + 1 > gain
          BY BenchFacts
        <5> QED BY <4>3, <5>1 DEF Rising
      <4>5. PICK k \in Nat \ {0} :
              TrimTo(o, r) = gain + k /\ k >= RoundDiv(Target - r.peak, o.dbPerIndex)
        BY <1>5, <2>5, <3>1, <4>4, LowRaises DEF TakesNearest
      <4>6. PICK h \in Int : h = gain' /\ h > gain /\ (h = gain + k \/ HighEnough(h))
        <5>1. Clamp(gain + k) \in Int
          BY BenchFacts DEF Clamp
        <5> QED BY <2>1, <3>3, <4>5, <5>1, BelowMaximum
      <4>7. CASE HighEnough(h)
        BY <2>1, <2>2, <4>6, <4>7, SameHigh DEF Climb, Progress, Trim
      <4>8. Rising(orx, gain)'
        BY <1>9, <4>3, <4>6 DEF Rising
      <4>9. CASE iter = 0
        BY <2>1, <2>2, <4>8, <4>9 DEF Climb, Progress, Trim
      <4>10. CASE iter = 1 /\ h = gain + k
        <5>1. Rising(orx, gain)
          BY <3>3, <4>10 DEF Climb, Progress
        <5>2. o.dbPerIndex = bench.step
          BY <1>3, <1>4, <4>1, <5>1, LearnsTheStep DEF Climb
        <5>3. r.peak = ShortLevel(gain)
          BY <1>4, <2>5, ShortTells
        <5>4. 2 * (Target - ShortLevel(h)) <= bench.step
          BY <4>5, <4>10, <5>2, <5>3, LandsAtTarget
        <5>5. ShortLevel(gain)' = ShortLevel(h)
          BY <2>1, <4>6 DEF ShortLevel, FullLevel, Table, Comp
        <5>6. iter' = 2
          BY <2>1, <4>10
        <5> QED BY <2>1, <2>2, <4>8, <5>4, <5>5, <5>6 DEF Climb, Progress, Trim
      <4>11. CASE iter = 2
        <5>1. HighEnough(h)
          BY <3>3, <4>6, <4>11, OneMoreIsHigh DEF Climb, Progress
        <5> QED BY <4>7, <5>1
      <4> QED BY <3>3, <4>6, <4>7, <4>9, <4>10, <4>11 DEF Climb, Progress
    <3> QED BY <3>2, <3>3
  <2> QED BY <2>4, <2>5
<1> QED BY <1>2, <1>3, <1>6, <1>7, <1>8, <1>9 DEF TrimLevel

LEMMA LevelInit == Init => LevelInv
BY StartTyped DEF Init, LevelInv, Recalled, Settled, Memory, Climb, Learnt, Progress, NewStep

LEMMA LevelStep ==
  ASSUME CeilingIsNear, TypeInv, LevelInv, [Next]_vars PROVE LevelInv'
<1> SUFFICES ASSUME EvenTable', NeverEmpty'
             PROVE  Recalled' /\ Settled' /\ (stage = "trim" => Climb)'
  BY DEF LevelInv
<1>1. bench' = bench
  BY SameBench
<1>2. EvenTable /\ NeverEmpty
  BY <1>1 DEF EvenTable, NeverEmpty, Table
<1>3. Benched /\ Recalled /\ Settled /\ (stage = "trim" => Climb)
  BY <1>2 DEF LevelInv, TypeInv
(* At the iteration limit the climb is over.                               *)
<1>4. TrimsOver => HighEnough(gain)
  <2> SUFFICES ASSUME TrimsOver PROVE HighEnough(gain)
    OBVIOUS
  <2>1. stage = "trim" /\ iter \notin {0, 1, 2}
    BY GainAssumption DEF TrimsOver, CeilingIsNear
  <2>2. Progress
    BY <1>3, <2>1 DEF Climb
  <2> QED BY <2>1, <2>2 DEF Progress
<1>5. Recalled' /\ Settled'
  BY <1>2, <1>3, <1>4, LevelingSettles
<1> SUFFICES ASSUME stage' = "trim" PROVE Climb'
  BY <1>5
<1>6. CASE Trim
  BY <1>2, <1>3, <1>6, TrimClimbs DEF Trim, Recalled
<1>7. CASE UNCHANGED vars
  <2>1. UNCHANGED <<bench, atten, gain, stage, orx, iter>> /\ Climb
    BY <1>3, <1>7 DEF vars, agcVars
  <2>2. HighEnough(gain) => HighEnough(gain)'
    BY <2>1, SameHigh
  <2>3. ShortLevel(gain)' = ShortLevel(gain)
    BY <2>1 DEF ShortLevel, FullLevel, Table, Comp
  <2> QED BY <2>1, <2>2, <2>3 DEF Climb, Learnt, Progress, Rising
<1>8. CASE Floor \/ BackOff
  <2>1. orx' = NewStep /\ iter' = 0
    BY <1>8 DEF Floor, FloorEmpty, FloorTooStrong, FloorJump, Fatal, NoDataAgain,
                BackOff, StartCapture
  <2> QED BY <2>1, NewClimb
<1>9. Trim \/ Floor \/ BackOff \/ UNCHANGED vars
  <2>1. CASE Search
    <3>1. PICK r \in Readings(TRUE) : SearchLevel(r) \/ SearchEmpty(r)
      BY <2>1 DEF Search
    <3>2. stage = "search"
      BY <2>1 DEF Search
    <3>3. ~SearchLevel(r)
      BY <3>2, SearchLevelTyped DEF Iterates, RunsOrEnds
    <3> QED BY <3>1, <3>2, <3>3 DEF SearchEmpty, NoDataAgain, Fatal
  <2>2. CASE AutoLevel
    BY <2>2 DEF AutoLevel, Level, TrimsOver, Settle, Fatal, Verify, VerifyBacksOff, VerifyFails,
                VerifyAccepts, NoDataAgain
  <2>3. CASE StartSearch \/ SearchOver \/ BackedOff \/ CapturePoint
    BY <2>3 DEF StartSearch, SearchOver, BackedOff, CapturePoint, StartCapture
  <2> QED BY <2>1, <2>2, <2>3 DEF Next
<1> QED BY <1>6, <1>7, <1>8, <1>9

(* For every bench with an even gain table: whatever index the leveling    *)
(* starts from, however much of the peak the short captures miss and       *)
(* wherever the ADC rails, an accepted level is in the window, if any gain *)
(* index puts the full signal there (autolevel_capture over OrxStep).      *)
THEOREM LevelsAreFound ==
  ASSUME CeilingIsNear PROVE Spec => [](EvenTable => LevelsIntoWindow)
<1>1. LevelInv => (EvenTable => LevelsIntoWindow)
  BY DEF LevelInv, Settled, LevelsIntoWindow
<1>2. TypeInv /\ LevelInv /\ [Next]_vars => LevelInv'
  BY LevelStep
<1> QED BY <1>1, <1>2, InitTyped, TypeStep, LevelInit, PTL DEF Spec

-----------------------------------------------------------------------------
(* The search finds its target.  On a PA whose compression rises by no     *)
(* more than the drive, and that can be driven to the target where the top *)
(* slope cannot be misread as clipping, the search gives up in none of its *)
(* ways: with a level to be had at every attenuation the window is never   *)
(* jumped, so every reading that counts is in it; and the floor, raised by *)
(* the clip guard or not, stays where the target is still to be had.       *)

Clear(a) == Suits(a) /\ a >= bench.slopeFrom + SlopeNoise

GentlePa ==
  /\ bench.rise <= 100
  /\ (\E a \in Grid : Suits(a)) => \E a \in Grid : Clear(a)

Targetable ==
  /\ bench.rise <= 100
  /\ \E a \in Grid : Clear(a)
  /\ \A a \in Grid : Levelable(a)

(* Fine steps no coarser than this lose no tolerance at the floor.         *)
FineEnough == 3 * (FineStep - 5) <= 2 * CompTol

FullRead(c) ==
  /\ c \in CaptureType
  /\ c.peak = Smaller(FullLevel(c.drive, c.gain), Ceiling)
  /\ c.railed = (FullLevel(c.drive, c.gain) >= bench.rail)

Seen(o) == ~o.jumped /\ (o.last # None => FullRead(o.last))

NearTarget(a) == Comp(a) >= TargetComp - CompTol

(* --- operators -------------------------------------------------------- *)

LEMMA CompGentle ==
  ASSUME bench \in BenchType, bench.rise <= 100, NEW a \in Int, NEW b \in Int, a <= b
  PROVE  Comp(b) >= Comp(a) - (b - a)
<1>1. bench.knee \in Int /\ bench.rise \in Nat
  BY DEF BenchType
<1>2. PICK x \in Nat, y \in Nat : /\ x = Larger(0, bench.knee - a)
                                  /\ y = Larger(0, bench.knee - b)
  BY <1>1
<1>3. PICK d \in Nat : x = y + d /\ d <= b - a
  <2>1. y <= x /\ x - y <= b - a
    BY <1>1, <1>2
  <2> QED BY <2>1
<1>4. PICK s \in Nat : s = bench.rise /\ s <= 100
  BY <1>1
<1>5. d * s <= d * 100
  BY <1>4, ScaleUp
<1>6. x * s = y * s + d * s
  BY <1>3
<1>7. PICK u \in Nat, v \in Nat, w \in Nat : u = x * s /\ v = y * s /\ w = d * s
  OBVIOUS
<1>8. u <= v + 100 * d
  BY <1>5, <1>6, <1>7
<1>9. u \div 100 <= (v \div 100) + d
  BY <1>8
<1>10. Comp(a) = u \div 100 /\ Comp(b) = v \div 100
  BY <1>2, <1>4, <1>7 DEF Comp
<1> QED BY <1>3, <1>9, <1>10

LEMMA GridFacts ==
  ASSUME NEW a \in Grid
  PROVE  a \in 0..AttenMax /\ a % 5 = 0
<1>1. PICK k \in (AttenMin \div 5)..(AttenMax \div 5) : a = 5 * k
  BY DEF Grid
<1> QED BY <1>1, SearchAssumption

LEMMA AttenOnGrid ==
  ASSUME AgcType, atten >= Quantize(AttenMin) PROVE atten \in Grid
<1>1. PICK k \in Int : atten = 5 * k
  BY SearchAssumption DEF AgcType
<1>2. atten \in 0..AttenMax /\ AttenMax \in Nat /\ AttenMin \in Nat
  BY SearchAssumption DEF AgcType
<1>3. k >= AttenMin \div 5 /\ k <= AttenMax \div 5
  BY <1>1, <1>2 DEF Quantize
<1> QED BY <1>1, <1>2, <1>3 DEF Grid

LEMMA StepOfBound ==
  ASSUME NEW e \in Nat PROVE StepOf(e) <= e \/ StepOf(e) <= FineStep
<1>1. PICK f \in Nat \ {0}, c \in Nat \ {0} : f = FineStep /\ c = CoarseStep
  BY SearchAssumption
<1>2. PICK q \in Nat : q = e \div f
  OBVIOUS
<1>3. f * q <= e
  BY <1>2
<1>4. CASE q >= 1
  <2>1. Larger(1, e \div FineStep) = q
    BY <1>1, <1>2, <1>4
  <2>2. StepOf(e) = Smaller(c, f * q)
    BY <1>1, <2>1 DEF StepOf
  <2> QED BY <1>3, <2>2
<1>5. CASE q = 0
  <2>1. Larger(1, e \div FineStep) = 1
    BY <1>1, <1>2, <1>5
  <2>2. StepOf(e) = Smaller(c, f)
    BY <1>1, <2>1 DEF StepOf
  <2> QED BY <1>1, <2>2
<1> QED BY <1>4, <1>5

LEMMA UpMoves ==
  ASSUME AgcType, NEW s \in Nat \ {0}, s % 5 = 0, atten < AttenMax
  PROVE  Up(s) \in 0..AttenMax /\ Up(s) > atten /\ Up(s) <= atten + s
<1>1. PICK k \in Nat, m \in Nat : atten = 5 * k /\ AttenMax = 5 * m /\ k < m
  BY SearchAssumption DEF AgcType
<1>2. PICK j \in Nat : s = 5 * j /\ j > 0
  OBVIOUS
<1>3. PICK x \in Int : x = Smaller(AttenMax, atten + s) /\ x % 5 = 0
  BY <1>1, <1>2
<1>4. Up(s) = x
  BY <1>3, QuantizeOnGrid DEF Up
<1> QED BY <1>1, <1>2, <1>3, <1>4

(* --- a level to be had ------------------------------------------------ *)

LEMMA LevelBetween ==
  ASSUME AgcType, NEW g \in Int, InWindow(Reading(FullLevel(atten, g))),
         NEW h \in Int, NEW c, c.peak \in Int, c.railed \in BOOLEAN,
         c.peak = Smaller(FullLevel(atten, h), Ceiling),
         c.railed = (FullLevel(atten, h) >= bench.rail)
  PROVE  /\ Clipped(c) \/ c.peak > BandHi => g < h
         /\ c.peak < BandLo => h < g
<1>1. PICK v \in Int, w \in Int : v = FullLevel(atten, g) /\ w = FullLevel(atten, h)
  BY BenchFacts
<1>2. BandLo <= v /\ v <= BandHi /\ v < bench.rail
  BY <1>1, InWindowTells
<1>3. PICK r \in [data : BOOLEAN, peak : Int, railed : BOOLEAN] :
        r.peak = c.peak /\ r.railed = c.railed
  <2>1. [data |-> TRUE, peak |-> c.peak, railed |-> c.railed]
          \in [data : BOOLEAN, peak : Int, railed : BOOLEAN]
    OBVIOUS
  <2> QED BY <2>1
<1>4. Clipped(r) <=> Clipped(c)
  BY <1>3 DEF Clipped
<1>5. r.peak = Smaller(w, Ceiling) /\ r.railed = (w >= bench.rail)
  BY <1>1, <1>3
<1>6. /\ r.peak < BandLo <=> w < BandLo
      /\ r.peak > BandHi <=> w > BandHi
      /\ Clipped(r) => w >= bench.rail \/ w > BandHi
  BY <1>5, ReadingTells
<1>7. g <= h => v <= w
  BY <1>1, LevelsRise
<1>8. h <= g => w <= v
  BY <1>1, LevelsRise
<1>9. BandLo \in Int /\ BandHi \in Int /\ bench.rail \in Int
  BY BenchFacts, WindowAssumption DEF BandLo, BandHi
<1>10. Clipped(c) \/ c.peak > BandHi => w > v
  BY <1>2, <1>3, <1>4, <1>6, <1>9
<1>11. c.peak < BandLo => w < v
  BY <1>2, <1>3, <1>6, <1>9
<1> QED BY <1>1, <1>7, <1>8, <1>10, <1>11

LEMMA SearchReading ==
  ASSUME AgcType, NEW r \in Readings(TRUE), r.data
  PROVE  /\ r \in ReadingType
         /\ r.peak = Smaller(FullLevel(atten, gain), Ceiling)
         /\ r.railed = (FullLevel(atten, gain) >= bench.rail)
         /\ FullRead(Capture(r, TRUE))
         /\ Capture(r, TRUE).drive = atten /\ Capture(r, TRUE).gain = gain
<1>1. r \in ReadingType /\ Capture(r, TRUE) \in CaptureType
  BY ReadingFacts
<1>2. r = FullReading
  BY DataReading
<1>3. /\ r.peak = Smaller(FullLevel(atten, gain), Ceiling)
      /\ r.railed = (FullLevel(atten, gain) >= bench.rail)
  BY <1>2 DEF FullReading, Reading
<1>4. /\ Capture(r, TRUE).drive = atten /\ Capture(r, TRUE).gain = gain
      /\ Capture(r, TRUE).peak = r.peak /\ Capture(r, TRUE).railed = r.railed
  BY DEF Capture
<1> QED BY <1>1, <1>3, <1>4 DEF FullRead

(* Two captures on either side of the window are two indices apart at      *)
(* least, so nothing is ever a jump.                                       *)
LEMMA NeverJumps ==
  ASSUME AgcType, Levelable(atten), NEW o, Seen(o), NEW r \in Readings(TRUE), r.data
  PROVE  Seen(Observe(o, Capture(r, TRUE)))
<1>1. PICK c : c = Capture(r, TRUE) /\ FullRead(c) /\ c.drive = atten
  BY SearchReading
<1> DEFINE same == o.last # None /\ o.last.drive = c.drive
           p == IF same THEN o.last ELSE None
           over == same /\ Crossed(p, c)
<1>2. /\ Observe(o, c).last = c
      /\ Observe(o, c).jumped = ((same /\ o.jumped) \/ (over /\ Distance(c.gain, p.gain) <= 1))
  BY DEF Observe
<1>3. ASSUME over PROVE ~(Distance(c.gain, p.gain) <= 1)
  <2>1. FullRead(p) /\ p.drive = atten
    BY <1>1, <1>3 DEF Seen
  <2>2. PICK g \in (GainMin + 1)..GainMax : InWindow(Reading(FullLevel(atten, g)))
    BY DEF Levelable
  <2>3. g \in Int
    BY GainAssumption
  <2>4. PICK i \in Int, j \in Int : i = p.gain /\ j = c.gain
    <3>1. \A d : FullRead(d) => d.gain \in Int
      BY GainAssumption DEF FullRead, CaptureType
    <3> QED BY <1>1, <2>1, <3>1
  <2>5. /\ Clipped(p) \/ p.peak > BandHi => g < i
        /\ p.peak < BandLo => i < g
    BY <2>1, <2>2, <2>3, <2>4, LevelBetween DEF FullRead, CaptureType
  <2>6. /\ Clipped(c) \/ c.peak > BandHi => g < j
        /\ c.peak < BandLo => j < g
    BY <1>1, <2>2, <2>3, <2>4, LevelBetween DEF FullRead, CaptureType
  <2>7. \/ (Clipped(p) \/ p.peak > BandHi) /\ c.peak < BandLo
        \/ (Clipped(c) \/ c.peak > BandHi) /\ p.peak < BandLo
    BY <1>3 DEF Crossed, Side
  <2> HIDE DEF p
  <2>8. i >= j + 2 \/ j >= i + 2
    BY <2>3, <2>5, <2>6, <2>7
  <2> QED BY <2>4, <2>8
<1> QED BY <1>1, <1>2, <1>3 DEF Seen

(* So what counts is in the window, and nothing clips at the gain floor.   *)
LEMMA CountsInWindow ==
  ASSUME AgcType, Levelable(atten), NEW o, ~o.jumped, NEW r \in Readings(TRUE), r.data
  PROVE  (Trusted(o, r) => InWindow(r)) /\ ~StillClips(o, r)
<1>1. PICK g \in (GainMin + 1)..GainMax : InWindow(Reading(FullLevel(atten, g)))
  BY DEF Levelable
<1>2. g \in Int /\ gain \in Int /\ GainMin \in Int /\ GainMax \in Int /\ GainMin < g /\ g <= GainMax
  BY <1>1, BenchFacts, GainAssumption
<1>3. /\ Clipped(r) \/ r.peak > BandHi => g < gain
      /\ r.peak < BandLo => gain < g
  <2>1. /\ r.peak \in Int /\ r.railed \in BOOLEAN
        /\ r.peak = Smaller(FullLevel(atten, gain), Ceiling)
        /\ r.railed = (FullLevel(atten, gain) >= bench.rail)
    BY SearchReading DEF ReadingType
  <2> QED BY <1>1, <1>2, <2>1, LevelBetween
<1>4. ~ColdAtMax(r)
  BY <1>2, <1>3 DEF ColdAtMax
<1>5. Nearest(o, r) = None
  BY DEF Nearest
<1>6. ~StillClips(o, r)
  BY <1>2, <1>3 DEF StillClips
<1> QED BY <1>4, <1>5, <1>6 DEF Trusted

(* --- the walk --------------------------------------------------------- *)

(* The clip guard goes up, and no further than the target can be had: its  *)
(* step is no larger than the error, or a fine one from below a clear      *)
(* attenuation.                                                            *)
LEMMA GuardUpNear ==
  ASSUME FineEnough, AgcType, bench.rise <= 100, TRUE \in PaClips, NEW a \in Grid, Clear(a)
  PROVE  GuardUp > atten /\ NearTarget(GuardUp)
<1>1. /\ bench \in BenchType /\ atten \in 0..AttenMax /\ AttenMax \in Nat /\ atten % 5 = 0
      /\ bench.slopeFrom \in Int /\ SlopeNoise \in Nat /\ FineStep \in Nat \ {0}
      /\ FineStep % 5 = 0 /\ TargetComp \in Int /\ CompTol \in Nat
  BY BenchTyped, SearchAssumption DEF AgcType, BenchType
<1>2. a \in 0..AttenMax /\ a % 5 = 0
  BY GridFacts
<1>3. atten < a
  <2>1. Distance(atten, bench.slopeFrom) < SlopeNoise \/ atten < bench.slopeFrom
    BY DEF PaClips
  <2>2. PICK x \in Int, l \in Int : x = atten /\ l = bench.slopeFrom
    BY <1>1
  <2>3. a >= l + SlopeNoise /\ a \in Int
    BY <1>1, <1>2, <2>2 DEF Clear
  <2>4. x < a
    BY <1>1, <2>1, <2>2, <2>3
  <2> QED BY <2>2, <2>4
<1>4. PICK x \in Int : x = atten /\ x + 5 <= a /\ x < AttenMax
  <2>1. atten + 5 <= a
    BY <1>1, <1>2, <1>3
  <2> QED BY <1>1, <1>2, <2>1
<1>5. PICK c \in Nat, d \in Nat : c = Comp(atten) /\ d = Comp(a)
  BY <1>2, PaNat DEF AgcType
<1>6. 3 * (TargetComp - d) <= CompTol
  <2>1. 3 * Distance(d, TargetComp) <= CompTol
    BY <1>5 DEF Clear, Suits
  <2> QED BY <1>1, <2>1
<1>7. PICK s \in Nat \ {0} :
        /\ GuardUp = Up(s) /\ s % 5 = 0
        /\ (c > TargetComp /\ s <= c - TargetComp) \/ s <= FineStep
  <2>1. CASE c > TargetComp
    <3>1. PICK e \in Nat : e = c - TargetComp
      BY <1>1, <2>1
    <3>2. StepOf(e) \in Nat \ {0} /\ StepOf(e) % 5 = 0 /\ (StepOf(e) <= e \/ StepOf(e) <= FineStep)
      BY StepOfType, StepOfBound
    <3>3. GuardUp = Up(StepOf(e))
      BY <1>5, <2>1, <3>1 DEF GuardUp
    <3> QED BY <2>1, <3>1, <3>2, <3>3
  <2>2. CASE ~(c > TargetComp)
    <3>1. GuardUp = Up(FineStep)
      BY <1>5, <2>2 DEF GuardUp
    <3> QED BY <1>1, <3>1
  <2> QED BY <2>1, <2>2
<1>8. PICK u \in Int : u = GuardUp /\ u > x /\ u <= x + s
  <2>1. Up(s) \in 0..AttenMax /\ Up(s) > atten /\ Up(s) <= atten + s
    BY <1>4, <1>7, UpMoves
  <2> QED BY <1>1, <1>4, <1>7, <2>1
<1>9. PICK n \in Nat : n = Comp(u)
  BY <1>1, CompNat
<1>10. CASE c > TargetComp /\ s <= c - TargetComp
  <2>1. Comp(u) >= Comp(x) - (u - x)
    BY <1>1, <1>8, CompGentle
  <2>2. n >= c - (u - x)
    BY <1>4, <1>5, <1>9, <2>1
  <2>3. n >= TargetComp - CompTol
    BY <1>1, <1>8, <1>10, <2>2
  <2> QED BY <1>4, <1>8, <1>9, <2>3 DEF NearTarget
<1>11. CASE s <= FineStep
  <2>0. a \in Int /\ u <= a + (FineStep - 5)
    BY <1>1, <1>2, <1>4, <1>8, <1>11
  <2>1. n >= d - (FineStep - 5) \/ n >= d
    <3>1. CASE u <= a
      <4>1. Comp(a) <= Comp(u)
        BY <1>1, <2>0, <3>1, CompFalls
      <4> QED BY <1>5, <1>9, <4>1
    <3>2. CASE a <= u
      <4>1. Comp(u) >= Comp(a) - (u - a)
        BY <1>1, <2>0, <3>2, CompGentle
      <4>2. n >= d - (u - a)
        BY <1>5, <1>9, <4>1
      <4> QED BY <1>1, <2>0, <4>2
    <3> QED BY <2>0, <3>1, <3>2
  <2>2. 3 * (FineStep - 5) <= 2 * CompTol
    BY DEF FineEnough
  <2>3. n >= TargetComp - CompTol
    BY <1>1, <1>6, <2>1, <2>2
  <2> QED BY <1>4, <1>8, <1>9, <2>3 DEF NearTarget
<1> QED BY <1>7, <1>10, <1>11

(* At the floor the compression is at the target already, or above it.     *)
LEMMA FloorIsEnough ==
  ASSUME AgcType, SearchType, NearTarget(floor), NEW r, InWindow(r), ~AtTarget(r),
         Comp(atten) < TargetComp, atten >= floor
  PROVE  ~(Down < floor /\ atten <= floor)
<1>1. PICK c \in Nat : c = Comp(atten)
  BY PaNat DEF AgcType
<1>2. atten \in Int /\ floor \in Int /\ TargetComp \in Int /\ CompTol \in Nat
  BY SearchAssumption DEF AgcType, SearchType
<1>3. ASSUME atten <= floor PROVE FALSE
  <2>1. atten = floor
    BY <1>2, <1>3
  <2>2. c >= TargetComp - CompTol /\ c < TargetComp
    BY <1>1, <2>1 DEF NearTarget
  <2>3. Error <= CompTol
    BY <1>1, <1>2, <2>2 DEF Error
  <2> QED BY <2>3 DEF AtTarget
<1> QED BY <1>3

(* At the ceiling it is not above it.                                      *)
LEMMA CeilingIsEnough ==
  ASSUME AgcType, NEW a \in Grid, Suits(a), NEW r, InWindow(r), ~AtTarget(r),
         Comp(atten) >= TargetComp
  PROVE  Up(StepOf(Error)) > atten
<1>1. PICK c \in Nat, d \in Nat : c = Comp(atten) /\ d = Comp(a)
  BY GridFacts, PaNat DEF AgcType
<1>2. /\ atten \in 0..AttenMax /\ AttenMax \in Nat /\ TargetComp \in Int /\ CompTol \in Nat
      /\ a \in 0..AttenMax /\ bench \in BenchType
  BY BenchTyped, GridFacts, SearchAssumption DEF AgcType
<1>3. PICK e \in Nat : e = Error
  BY <1>1, <1>2 DEF Error
<1>4. ASSUME atten = AttenMax PROVE FALSE
  <2>1. Comp(atten) <= Comp(a)
    BY <1>2, <1>4, CompFalls
  <2>2. c <= d /\ c >= TargetComp
    BY <1>1, <2>1
  <2>3. 3 * Distance(d, TargetComp) <= CompTol
    BY <1>1 DEF Suits
  <2>4. Distance(c, TargetComp) <= CompTol
    BY <1>2, <2>2, <2>3
  <2> QED BY <1>1, <2>4 DEF Error, AtTarget
<1>5. atten < AttenMax
  BY <1>2, <1>4
<1>6. StepOf(e) \in Nat \ {0} /\ StepOf(e) % 5 = 0
  BY StepOfType
<1> QED BY <1>3, <1>5, <1>6, UpMoves

(* --- the invariant ---------------------------------------------------- *)

Seeks ==
  /\ NearTarget(floor)
  /\ stage = "search" => Seen(orx)
  /\ stage = "locked" => result.kind \in {"converged", "max iterations"}

SeekInv == Targetable => Seeks

LEMMA SameTargetable == bench' = bench => (Targetable' <=> Targetable)
BY DEF Targetable, Clear, Suits, Levelable, Grid, Comp, FullLevel, Table, Reading, InWindow, Clipped

LEMMA SameNear == ASSUME UNCHANGED <<bench, floor>>, NearTarget(floor) PROVE NearTarget(floor)'
BY DEF NearTarget, Comp

LEMMA SeekInit == Init => SeekInv
<1> SUFFICES ASSUME Init, Targetable PROVE Seeks
  BY DEF SeekInv
<1>1. PICK a \in Grid : Suits(a)
  BY DEF Targetable, Clear
<1>2. a \in 0..AttenMax /\ a % 5 = 0 /\ a >= AttenMin /\ AttenMin \in Nat /\ AttenMax \in Nat
  BY <1>1, GridFacts, SearchAssumption DEF Suits
<1>3. PICK q \in Int : q = Quantize(AttenMin) /\ q <= a
  BY <1>2 DEF Quantize
<1>4. bench \in BenchType
  BY BenchTyped DEF Init
<1>5. PICK d \in Nat, n \in Nat : d = Comp(a) /\ n = Comp(q) /\ d <= n
  BY <1>2, <1>3, <1>4, CompNat, CompFalls
<1>6. 3 * Distance(d, TargetComp) <= CompTol
  BY <1>1, <1>5 DEF Suits
<1>7. n >= TargetComp - CompTol
  BY <1>5, <1>6, SearchAssumption
<1>8. NearTarget(floor)
  BY <1>3, <1>5, <1>7 DEF Init, NearTarget
<1> QED BY <1>8, StartTyped DEF Init, Seeks

LEMMA SearchLevelSeeks ==
  ASSUME FineEnough, TypeInv, Targetable, Seeks, stage = "search", atten >= floor,
         atten \in Grid, NEW r \in Readings(TRUE), SearchLevel(r), bench' = bench
  PROVE  Seeks'
<1> DEFINE o == Observe(orx, Capture(r, TRUE))
<1>1. AgcType /\ SearchType /\ r.data /\ orx' = o
  BY DEF TypeInv, SearchLevel
<1>2. Levelable(atten) /\ bench.rise <= 100
  BY DEF Targetable
<1>3. Seen(o)
  BY <1>1, <1>2, NeverJumps DEF Seeks
<1>4. (Trusted(o, r) => InWindow(r)) /\ ~StillClips(o, r)
  BY <1>1, <1>2, <1>3, CountsInWindow DEF Seen
<1>5. PICK a \in Grid : Clear(a)
  BY DEF Targetable
<1> HIDE DEF o
<1>6. Seen(orx)'
  BY <1>1, <1>3 DEF Seen, FullRead, FullLevel, Comp, Table
<1>7. NearTarget(floor)
  BY DEF Seeks
<1>8. CASE Continue /\ UNCHANGED floor
  <2>1. NearTarget(floor)'
    BY <1>7, <1>8, SameNear
  <2> QED BY <1>6, <1>8, <2>1 DEF Seeks, Continue
<1>9. CASE TRUE \in PaClips /\ ClipGuard(o, r)
  <2>1. GuardUp > atten /\ NearTarget(GuardUp)
    BY <1>1, <1>2, <1>5, <1>9, GuardUpNear
  <2>2. GuardUp \in Int /\ atten \in Int /\ floor \in Int
    BY <1>1, GuardUpTyped, SearchAssumption DEF AgcType, SearchType
  <2>3. Continue /\ floor' = Larger(floor, GuardUp)
    <3>1. ~(GuardUp <= atten)
      BY <2>1, <2>2
    <3> QED BY <1>9, <3>1 DEF ClipGuard
  <2>4. PICK g : g = GuardUp /\ NearTarget(g)
    BY <2>1
  <2>5. floor' \in {floor, g}
    BY <2>3, <2>4
  <2>6. NearTarget(floor)'
    BY <1>7, <2>4, <2>5 DEF NearTarget, Comp
  <2> QED BY <1>6, <2>3, <2>6 DEF Seeks, Continue
<1>10. CASE Converge(o, r)
  <2>1. Finish("converged")
    BY <1>10 DEF Converge
  <2>2. NearTarget(floor)'
    BY <1>7, <2>1, SameNear DEF Finish
  <2> QED BY <2>1, <2>2 DEF Seeks, Finish, Outcome
<1>11. CASE DriveUp(o, r)
  <2>1. ~(Down < floor /\ atten <= floor)
    BY <1>1, <1>4, <1>7, <1>11, FloorIsEnough DEF DriveUp, Counts
  <2> QED BY <1>8, <1>11, <2>1 DEF DriveUp
<1>12. CASE DriveDown(o, r)
  <2>1. Up(StepOf(Error)) > atten
    BY <1>1, <1>4, <1>5, <1>12, CeilingIsEnough DEF DriveDown, Counts, Clear
  <2>2. Up(StepOf(Error)) \in Int /\ atten \in Int
    BY <1>1, ErrorStepTyped, SearchAssumption DEF AgcType
  <2>3. Continue /\ UNCHANGED floor
    BY <1>12, <2>1, <2>2 DEF DriveDown
  <2> QED BY <1>8, <2>3
<1>13. CASE Releveled(o, r)
  BY <1>8, <1>13 DEF Releveled
<1> QED BY <1>4, <1>9, <1>10, <1>11, <1>12, <1>13 DEF SearchLevel, o

LEMMA SeekStep ==
  ASSUME FineEnough
  PROVE  TypeInv /\ WalkInv /\ FallbackInv /\ SeekInv /\ [Next]_vars => SeekInv'
<1> SUFFICES ASSUME TypeInv, WalkInv, FallbackInv, SeekInv, [Next]_vars, Targetable' PROVE Seeks'
  BY DEF SeekInv
<1>1. bench' = bench
  BY SameBench
<1>2. Targetable /\ Seeks
  BY <1>1, SameTargetable DEF SeekInv
<1>3. AgcType /\ SearchType /\ NearTarget(floor)
  BY <1>2 DEF TypeInv, Seeks
<1>4. ASSUME UNCHANGED floor, stage' = "search" => Seen(orx)',
             stage' = "locked" => result'.kind \in {"converged", "max iterations"}
      PROVE  Seeks'
  BY <1>1, <1>3, <1>4, SameNear DEF Seeks
<1>5. CASE AutoLevel
  <2>1. stage' \notin {"search", "locked"} /\ UNCHANGED floor
    BY <1>5, LevelKeepsStages DEF AutoLevel, searchVars, Leveling
  <2> QED BY <1>4, <2>1
<1>6. CASE StartSearch
  BY <1>4, <1>6 DEF StartSearch, searchVars, Seen, NewStep
<1>7. CASE Search
  <2>1. PICK r \in Readings(TRUE) : SearchLevel(r) \/ SearchEmpty(r)
    BY <1>7 DEF Search
  <2>2. stage = "search"
    BY <1>7 DEF Search
  <2>3. CASE SearchLevel(r)
    <3>1. atten >= floor /\ floor >= Quantize(AttenMin)
      BY <2>2 DEF WalkInv, Above, FallbackInv, AboveMin
    <3>2. atten \in Grid
      <4>1. atten \in Int /\ floor \in Int /\ Quantize(AttenMin) \in Int
        BY <1>3, SearchAssumption DEF AgcType, SearchType, Quantize
      <4> QED BY <1>3, <3>1, <4>1, AttenOnGrid
    <3> QED BY <1>1, <1>2, <2>2, <2>3, <3>1, <3>2, SearchLevelSeeks
  <2>4. CASE SearchEmpty(r)
    <3>1. UNCHANGED <<floor, orx>> /\ stage' \in {"search", "error"}
      BY <2>2, <2>4 DEF SearchEmpty, NoDataAgain, Fatal
    <3>2. Seen(orx)'
      BY <1>1, <1>2, <2>2, <3>1 DEF Seeks, Seen, FullRead, FullLevel, Comp, Table
    <3> QED BY <1>4, <3>1, <3>2
  <2> QED BY <2>1, <2>3, <2>4
<1>8. CASE SearchOver
  <2>1. UNCHANGED floor /\ stage' = "locked" /\ result'.kind = "max iterations"
    BY <1>8 DEF SearchOver
  <2> QED BY <1>4, <2>1
<1>9. CASE BackOff
  <2>1. UNCHANGED floor /\ stage' \in {"floor", "trim", "capture"}
    BY <1>3, <1>9, StartTyped DEF BackOff, StartCapture, AgcType
  <2> QED BY <1>4, <2>1
<1>10. CASE BackedOff
  BY <1>4, <1>10 DEF BackedOff, StartCapture, searchVars
<1>11. CASE CapturePoint
  <2>1. UNCHANGED floor /\ stage' \in {"capture", "done", "error"}
    BY <1>11 DEF CapturePoint
  <2> QED BY <1>4, <2>1
<1>12. CASE UNCHANGED vars
  <2>1. UNCHANGED <<floor, stage, orx, result>>
    BY <1>12 DEF vars, agcVars, searchVars
  <2>2. stage = "search" => Seen(orx)'
    BY <1>1, <1>2, <2>1 DEF Seeks, Seen, FullRead, FullLevel, Comp, Table
  <2>3. stage = "locked" => result.kind \in {"converged", "max iterations"}
    BY <1>2 DEF Seeks
  <2> QED BY <1>4, <2>1, <2>2, <2>3
<1> QED BY <1>5, <1>6, <1>7, <1>8, <1>9, <1>10, <1>11, <1>12 DEF Next

Decided == stage = "locked" => result.kind # "max iterations"

(* On a PA whose compression rises by at most 1 dB per dB and whose target *)
(* is clear of the slope's misreadings, a search that ends by its own      *)
(* decision has found a target that is there to be found: the coarse and   *)
(* the fine steps, the clip guard, the re-levels and the limits of the     *)
(* attenuator cannot make it give up (search_tx_compression).              *)
THEOREM TargetsAreReached ==
  ASSUME FineEnough PROVE Spec => [](GentlePa /\ Decided => TargetReached)
<1>1. SeekInv => (GentlePa /\ Decided => TargetReached)
  BY DEF SeekInv, Targetable, Seeks, GentlePa, Decided, TargetReached
<1>2. TypeInv /\ WalkInv /\ FallbackInv /\ SeekInv /\ [Next]_vars => SeekInv'
  BY SeekStep
<1>3. Init => FallbackInv
  BY StartTyped, SearchAssumption
     DEF Init, FallbackInv, BestIsSafe, AboveMin, LockIsSafe, Over, Quantize
<1> QED BY <1>1, <1>2, <1>3, InitTyped, TypeStep, WalkInit, WalkStep, FallbackStep, SeekInit,
           PTL DEF Spec

-----------------------------------------------------------------------------
(* Termination.  How far a call still has to go, in three naturals: the    *)
(* stages ahead of it, what is left of the running stage, and the retakes  *)
(* an empty capture is still allowed.                                      *)

Ahead == [floor |-> 5, trim |-> 4, verify |-> 3, accepted |-> 2, search |-> 7,
          locked |-> 6, capture |-> 1, done |-> 0, error |-> 0]

Stages  == Ahead[stage] + (IF stage \in Leveling /\ ~locked THEN 6 ELSE 0)
Left    == IF stage = "trim" THEN MaxTrims - iter
           ELSE IF stage = "search" THEN MaxIterations - iter
           ELSE IF stage = "verify" THEN gain - GainMin ELSE 0
Retakes == EmptyRetakes - empties

Advances ==
  \/ Stages' < Stages
  \/ Stages' = Stages /\ Left' < Left
  \/ Stages' = Stages /\ Left' = Left /\ Retakes' < Retakes

InTime == /\ stage = "trim" => iter <= MaxTrims
          /\ stage = "search" => iter <= MaxIterations

LEMMA StagesNat ==
  ASSUME AgcType PROVE Stages \in 0..11
BY DEF AgcType, Stages, Ahead, Leveling

LEMMA NoDataAdvances ==
  ASSUME AgcType, NEW lower \in Nat, NoDataAgain(lower)
  PROVE  /\ stage' = stage /\ empties' \in Nat /\ Retakes' < Retakes
         /\ gain' \in Int /\ gain' <= gain
<1>1. PICK g \in Int : g = gain /\ g <= GainMax /\ g >= GainMin
  BY GainAssumption DEF AgcType
<1>2. gain' = Clamp(g - lower)
  BY <1>1 DEF NoDataAgain
<1>3. Clamp(g - lower) \in Int /\ Clamp(g - lower) <= g
  BY <1>1, GainAssumption DEF Clamp
<1> QED BY <1>1, <1>2, <1>3, GainAssumption DEF NoDataAgain, Retakes, AgcType

LEMMA LevelAdvances ==
  ASSUME AgcType, InTime, AutoLevel
  PROVE  InTime' /\ Advances
<1>1. locked' = locked
  BY DEF AutoLevel, searchVars
<1>2. /\ gain \in Int /\ gain' \in Int /\ empties \in Nat /\ iter \in Nat
      /\ MaxTrims \in Nat /\ EmptyRetakes \in Nat /\ GainMin \in Int
  BY FloorTyped, TrimTyped, TrimsOverTyped, VerifyTyped, GainAssumption
     DEF AutoLevel, Level, AgcType
<1>3. CASE stage \in Leveling /\ stage' = "error"
  BY <1>3 DEF Stages, Ahead, Leveling, Advances, InTime
<1>4. CASE Floor
  <2>1. PICK r : FloorEmpty(r) \/ FloorTooStrong(r) \/ FloorJump(r)
    BY <1>4 DEF Floor
  <2>2. stage = "floor"
    BY <1>4 DEF Floor
  <2>3. CASE NoDataAgain(0)
    BY <1>1, <1>2, <2>2, <2>3, NoDataAdvances DEF Advances, Stages, Left, InTime
  <2>4. CASE FloorJump(r)
    BY <1>1, <1>2, <2>2, <2>4 DEF Advances, Stages, Ahead, Leveling, InTime, FloorJump
  <2> QED BY <1>3, <2>1, <2>2, <2>3, <2>4 DEF FloorEmpty, FloorTooStrong, Fatal, Leveling
<1>5. CASE Trim
  <2>1. PICK r : TrimEmpty(r) \/ TrimLevel(r)
    BY <1>5 DEF Trim
  <2>2. stage = "trim" /\ iter < MaxTrims
    BY <1>5 DEF Trim
  <2>3. CASE stage' = "trim" /\ iter' = iter + 1
    BY <1>1, <1>2, <2>2, <2>3 DEF Advances, Stages, Left, InTime
  <2>4. CASE stage' = "verify"
    BY <1>1, <2>2, <2>4 DEF Advances, Stages, Ahead, Leveling, InTime
  <2> QED BY <1>3, <2>1, <2>2, <2>3, <2>4 DEF TrimEmpty, TrimLevel, TrimSettles, TrimMoves,
                                              NoDataAgain, Settle, Fatal, Leveling
<1>6. CASE TrimsOver
  <2>1. CASE stage' = "verify"
    BY <1>1, <1>6, <2>1 DEF TrimsOver, Advances, Stages, Ahead, Leveling, InTime
  <2> QED BY <1>3, <1>6, <2>1 DEF TrimsOver, Settle, Fatal, Leveling
<1>7. CASE Verify
  <2>1. PICK r : VerifyBacksOff(r) \/ VerifyFails(r) \/ VerifyAccepts(r)
    BY <1>7 DEF Verify
  <2>2. stage = "verify"
    BY <1>7 DEF Verify
  <2>3. CASE NoDataAgain(EmptyStepIdx)
    <3>1. stage' = stage /\ Retakes' < Retakes /\ gain' <= gain
      BY <2>3, NoDataAdvances, WindowAssumption
    <3>2. Stages' = Stages /\ InTime'
      BY <1>1, <2>2, <3>1 DEF Stages, InTime
    <3>3. Left' < Left \/ Left' = Left
      <4>1. Left = gain - GainMin /\ Left' = gain' - GainMin
        BY <2>2, <3>1 DEF Left
      <4>2. CASE gain' = gain
        BY <4>1, <4>2
      <4>3. CASE gain' # gain
        <5>1. PICK g \in Int, h \in Int, m \in Int :
                g = gain /\ h = gain' /\ m = GainMin /\ h <= g /\ h # g
          BY <1>2, <3>1, <4>3
        <5>2. h < g
          BY <5>1
        <5>3. h - m < g - m
          BY <5>2
        <5>4. Left' = h - m
          BY <4>1, <5>1
        <5>5. Left = g - m
          BY <4>1, <5>1
        <5> QED BY <5>3, <5>4, <5>5
      <4> QED BY <4>2, <4>3
    <3> QED BY <3>1, <3>2, <3>3 DEF Advances
  <2>4. CASE gain' = gain - 1 /\ stage' = stage
    BY <1>1, <1>2, <2>2, <2>4 DEF Advances, Stages, Left, InTime
  <2>5. CASE stage' = "accepted"
    BY <1>1, <2>2, <2>5 DEF Advances, Stages, Ahead, Leveling, InTime
  <2> QED BY <1>3, <2>1, <2>2, <2>3, <2>4, <2>5 DEF VerifyBacksOff, VerifyFails, VerifyAccepts,
                                                   Fatal, Leveling
<1> QED BY <1>4, <1>5, <1>6, <1>7 DEF AutoLevel, Level

LEMMA SearchAdvances ==
  ASSUME AgcType, InTime, Search
  PROVE  InTime' /\ Advances
<1>1. /\ stage = "search" /\ iter < MaxIterations /\ locked' = locked
      /\ iter \in Nat /\ MaxIterations \in Nat
  BY SearchAssumption DEF Search, AgcType
<1>2. PICK r : SearchLevel(r) \/ SearchEmpty(r)
  BY DEF Search
<1>3. \/ stage' = "search" /\ iter' = iter + 1
      \/ stage' \in {"locked", "error"}
  <2>1. CASE SearchEmpty(r)
    BY <1>1, <2>1 DEF SearchEmpty, NoDataAgain, Fatal
  <2>2. CASE SearchLevel(r)
    <3> DEFINE o == Observe(orx, Capture(r, TRUE))
    <3>1. ClipGuard(o, r) \/ Converge(o, r) \/ DriveUp(o, r) \/ DriveDown(o, r)
            \/ StillClips(o, r) \/ Releveled(o, r)
      BY <2>2 DEF SearchLevel
    <3> HIDE DEF o
    <3> QED BY <1>1, <3>1 DEF ClipGuard, Converge, DriveUp, DriveDown, StillClips, Releveled,
                              Continue, Finish
  <2> QED BY <1>2, <2>1, <2>2
<1> QED BY <1>1, <1>3 DEF Advances, Stages, Ahead, Leveling, Left, InTime

LEMMA AdvanceStep == AgcType /\ InTime /\ [Next]_vars => InTime' /\ [Advances]_vars
<1> SUFFICES ASSUME AgcType, InTime, [Next]_vars PROVE InTime' /\ [Advances]_vars
  OBVIOUS
<1>1. CASE AutoLevel
  BY <1>1, LevelAdvances
<1>2. CASE StartSearch
  BY <1>2, SearchAssumption DEF StartSearch, Advances, Stages, Ahead, Leveling, InTime, searchVars
<1>3. CASE Search
  BY <1>3, SearchAdvances
<1>4. CASE SearchOver
  <2>1. stage = "search" /\ stage' = "locked"
    BY <1>4 DEF SearchOver
  <2> QED BY <2>1 DEF Advances, Stages, Ahead, Leveling, InTime
<1>5. CASE BackOff
  BY <1>5, GainAssumption
     DEF BackOff, StartCapture, StartStage, Advances, Stages, Ahead, Leveling, InTime
<1>6. CASE BackedOff
  BY <1>6 DEF BackedOff, StartCapture, searchVars, Advances, Stages, Ahead, Leveling, InTime
<1>7. CASE CapturePoint
  <2>1. stage = "capture" /\ locked' = locked /\ empties \in Nat /\ EmptyRetakes \in Nat
    BY <1>7, GainAssumption DEF CapturePoint, AgcType
  <2>2. \/ stage' \in {"done", "error"}
        \/ stage' = "capture" /\ empties' = empties + 1
    BY <1>7, <2>1 DEF CapturePoint
  <2> QED BY <2>1, <2>2 DEF Advances, Stages, Ahead, Leveling, Left, Retakes, InTime
<1>8. CASE UNCHANGED vars
  BY <1>8 DEF vars, agcVars, InTime
<1> QED BY <1>1, <1>2, <1>3, <1>4, <1>5, <1>6, <1>7, <1>8 DEF Next

(* No bench keeps a call going: every step of the level control and of     *)
(* the search brings its end nearer, in the lexicographic order of three   *)
(* naturals.  What is left of Ends is that each step is taken, which the   *)
(* scheduling gives.                                                       *)
THEOREM EveryStepAdvances ==
  Spec => [](Stages \in Nat /\ Left \in Nat /\ Retakes \in Nat) /\ [][Advances]_vars
<1>1. Init => InTime
  BY GainAssumption DEF Init, InTime, StartStage
<1>2. TypeInv => AgcType
  BY DEF TypeInv
<1>3. TypeInv /\ InTime => Stages \in Nat /\ Left \in Nat /\ Retakes \in Nat
  <2> SUFFICES ASSUME TypeInv, InTime PROVE Stages \in Nat /\ Left \in Nat /\ Retakes \in Nat
    OBVIOUS
  <2>1. Stages \in Nat
    BY <1>2, StagesNat
  <2> QED BY <2>1, <1>2, GainAssumption, SearchAssumption DEF AgcType, Left, Retakes, InTime
<1> QED BY <1>1, <1>2, <1>3, InitTyped, TypeStep, AdvanceStep, PTL DEF Spec
=============================================================================
