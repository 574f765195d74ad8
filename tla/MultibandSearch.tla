-------------------------- MODULE MultibandSearch --------------------------
(***************************************************************************)
(* The lock of several TX bands on their compression targets together:     *)
(* search_multiband_compression of src/adrvtrx/multiband.py, with its two  *)
(* per-band methods ("together" is the code's method "joint") and the lock *)
(* on the joint compression ("joint", lock_on="joint").                    *)
(*                                                                         *)
(* One step sets every attenuation and ORx gain, captures until every      *)
(* band's reading counts or its re-levels are spent, and moves.  What is   *)
(* floating point in the code is a choice here: what a capture reads (the  *)
(* constants Errors, Slopes, ... say what it may read at which             *)
(* attenuations), the solution of the slope matrix J, the secant, the gain *)
(* a re-level goes to.  Every rule on what to do with a reading or a move  *)
(* is the code's.  Attenuations and errors are in attenuator steps of      *)
(* 0.05 dB.                                                                *)
(***************************************************************************)
EXTENDS Integers, FiniteSets

CONSTANTS
  Bands,
  Modes,                 \* of "together", "pingpong", "joint"
  Guards,                \* joint_clip_slope: of "default", "off", "on" (a slope)
  Start, FloorMin,       \* start_attens_db and atten_mins_db per band
  StartGain,             \* orx_gains, clamped
  Levels,                \* joint_levels: 0 for the strongest band, others below
  AttenMax, GainMin, GainMax,
  ClipStep,              \* CLIP_STEP_DB
  GrowMargin,            \* GROW_MARGIN_DB
  MaxMove, Tol,          \* max_move_db, comp_tol_db
  MaxSteps, MaxRelevel, TurnSteps,
  EmptyRetakes, EmptyStep,
  IdleSteps,
  Errors(_, _), Slopes(_, _),     \* what band b may read at attenuations a:
                                  \* target - compression; does the PA clip
  JointErrors(_), JointSlopes(_), \* the same of the composite
  None

Attens == 0 .. AttenMax
Gains == GainMin .. GainMax

(* The arguments the search accepts: a floor is not above its start, the   *)
(* tolerance and the moves are positive, and a common offset exists that   *)
(* keeps every band between its floor and the maximum.                     *)
ASSUME SearchAssumption ==
  /\ IsFiniteSet(Bands) /\ Bands # {}
  /\ Modes \subseteq {"together", "pingpong", "joint"}
  /\ Guards \subseteq {"default", "off", "on"}
  /\ AttenMax \in Nat /\ GainMin \in Int /\ GainMax \in Int /\ GainMin <= GainMax
  /\ Start \in [Bands -> Attens] /\ FloorMin \in [Bands -> Attens]
  /\ \A b \in Bands : FloorMin[b] <= Start[b]
  /\ StartGain \in [Bands -> Gains]
  /\ Levels \in [Bands -> Int]
  /\ \A b \in Bands : Levels[b] <= 0
  /\ \E b \in Bands : Levels[b] = 0
  /\ \A b, d \in Bands : FloorMin[b] + Levels[b] <= AttenMax + Levels[d]
  /\ ClipStep \in Nat \ {0} /\ MaxMove \in Nat \ {0}
  /\ Tol \in Nat /\ GrowMargin \in Nat
  /\ MaxSteps \in Nat \ {0} /\ MaxRelevel \in Nat /\ TurnSteps \in Nat
  /\ EmptyRetakes \in Nat /\ EmptyStep \in Nat /\ IdleSteps \in Nat \ {0}
  /\ \A b \in Bands, a \in [Bands -> Attens] :
        Errors(b, a) \subseteq Int /\ Slopes(b, a) \subseteq BOOLEAN
  /\ \A a \in [Bands -> Attens] :
        JointErrors(a) \subseteq Int /\ JointSlopes(a) \subseteq BOOLEAN
  /\ None \notin Int /\ None \notin Bands

VARIABLES
  mode, guard,  \* the method of this call, and its joint clip guard
  pc,           \* "step", "read", "move", "done"
  radio,        \* what the radio is set to: [atten, gain]
  a, g,         \* _State.a, .g: what the next step applies
  floor,        \* _State.floor
  step,
  pending,      \* _read_step: the bands still to be read
  reading,      \* each band's reading: counts, err, clips, and the shot
  attempt,      \* re-levels of this step
  empties,      \* captures without data in a row, per band
  before,       \* gains_before
  cap,          \* the trust region
  improving, undone, lastMove, prevWorst,
  active, turn, \* pingpong
  idle,         \* idle_steps
  best,         \* the step closest to the targets
  result        \* why the search ended and where the readings returned were taken

readVars == <<pending, reading, attempt, empties, before>>
trustVars == <<cap, improving, undone, lastMove, prevWorst>>
turnVars == <<active, turn>>
vars == <<mode, guard, pc, radio, a, g, floor, step, readVars, trustVars,
          turnVars, idle, best, result>>

Larger(x, y) == IF x >= y THEN x ELSE y
Smaller(x, y) == IF x <= y THEN x ELSE y
Abs(x) == IF x < 0 THEN -x ELSE x
Within(x, lo, hi) == Smaller(Larger(x, lo), hi)
ClampGain(x) == Within(x, GainMin, GainMax)

LargestOf(S) == CHOOSE x \in S : \A y \in S : y <= x
SmallestOf(S) == CHOOSE x \in S : \A y \in S : x <= y

(* --- the common offset of the joint lock ------------------------------- *)

Strongest == CHOOSE b \in Bands : Levels[b] = 0

(* attens(c): every band at c minus its level.                             *)
AttensAt(c) == [b \in Bands |-> c - Levels[b]]
OffsetFloor(floors) == LargestOf({floors[b] + Levels[b] : b \in Bands})
OffsetMax == SmallestOf({AttenMax + Levels[b] : b \in Bands})
OffsetWithin(c) == Smaller(Larger(c, OffsetFloor(floor)), OffsetMax)

(* The joint clip guard: by default only the joint lock has it.            *)
ResolveJointClip(m, given) == given = "on" \/ (given = "default" /\ m = "joint")

NoReadings == [b \in Bands |-> None]

Init ==
  /\ mode \in Modes /\ guard \in {ResolveJointClip(mode, given) : given \in Guards}
  /\ pc = "step" /\ step = 0
  /\ floor = FloorMin
  /\ a = IF mode = "joint"
         THEN AttensAt(OffsetWithin(LargestOf({Start[b] + Levels[b] : b \in Bands})))
         ELSE Start
  /\ g = StartGain
  /\ radio = [atten |-> a, gain |-> g]
  /\ pending = {} /\ reading = NoReadings
  /\ attempt = 0 /\ empties = [b \in Bands |-> 0] /\ before = g
  /\ cap = MaxMove /\ improving = 0 /\ undone = FALSE
  /\ lastMove = None /\ prevWorst = None
  /\ active = None /\ turn = 0
  /\ idle = 0 /\ best = None /\ result = None

(* apply(): the radio is set to what the search carries.                   *)
StartStep ==
  /\ pc = "step"
  /\ pc' = "read"
  /\ radio' = [atten |-> a, gain |-> g]
  /\ pending' = Bands /\ attempt' = 0 /\ empties' = [b \in Bands |-> 0]
  /\ UNCHANGED <<mode, guard, a, g, floor, step, reading, before, trustVars, turnVars, idle, best, result>>

(* --- _read_step: capture until every reading counts -------------------- *)

(* What a capture shows of a band: no data at all; a clip; a level too far *)
(* below the window; a good level without a finite compression; or a       *)
(* reading that counts.  At the maximum gain a cold reading counts.        *)
Uncounted == {"empty", "hot", "cold", "broken"}
Shot(b) == [atten |-> radio.atten, gain |-> radio.gain[b]]
NotCounted(b) == [counts |-> FALSE, err |-> 0, clips |-> FALSE, shot |-> Shot(b)]
Counted(b, e, s) == [counts |-> TRUE, err |-> e, clips |-> s, shot |-> Shot(b)]
Sights(b) ==
  {[kind |-> k, reading |-> NotCounted(b)] :
     k \in IF g[b] < GainMax THEN Uncounted ELSE Uncounted \ {"cold"}}
  \cup
  {[kind |-> "counts", reading |-> Counted(b, e, s)] :
     e \in Errors(b, radio.atten), s \in Slopes(b, radio.atten)}

Fatal(seen, b) == seen[b].kind = "hot" /\ g[b] = GainMin
OutOfData(seen, b) == seen[b].kind = "empty" /\ empties[b] >= EmptyRetakes

(* Where the re-level takes band b's ORx gain: down or up by the learnt    *)
(* step, or back to the closest capture.                                   *)
Relevels(seen, b) ==
  CASE seen[b].kind = "empty" -> {ClampGain(g[b] - EmptyStep)}
    [] seen[b].kind \in {"hot", "cold"} -> Gains \ {g[b]}
    [] OTHER -> {g[b]}

(* The code compares attempt with max_relevel for equality.                *)
ReadAgain(seen, b) ==
  \/ seen[b].kind = "empty"
  \/ seen[b].kind # "counts" /\ attempt # MaxRelevel

CaptureReads(seen) ==
  /\ ~\E b \in pending : Fatal(seen, b) \/ OutOfData(seen, b)
  /\ \E to \in [Bands -> Gains] :
       /\ \A b \in Bands :
            IF b \in pending THEN to[b] \in Relevels(seen, b) ELSE to[b] = g[b]
       /\ g' = to
  /\ radio' = [radio EXCEPT !.gain = g']
  /\ pending' = {b \in pending : ReadAgain(seen, b)}
  /\ empties' = [b \in Bands |->
       IF b \in pending /\ seen[b].kind = "empty" THEN empties[b] + 1 ELSE 0]
  /\ attempt' = IF pending' # {} /\ \E b \in pending : seen[b].kind \notin {"empty", "counts"}
                THEN Smaller(attempt + 1, MaxRelevel + 1)
                ELSE IF pending' # {} THEN attempt ELSE 0
  /\ reading' = [b \in Bands |->
       IF b \in pending' THEN None ELSE IF b \in pending THEN seen[b].reading ELSE reading[b]]
  /\ pc' = IF pending' = {} THEN "move" ELSE "read"
  /\ UNCHANGED <<a, result>>

(* AgcError: the search is left where it is, the caller makes TX safe.     *)
CaptureFails(seen) ==
  /\ ~\E b \in pending : Fatal(seen, b)
  /\ \E b \in pending : OutOfData(seen, b)
  /\ \E to \in [Bands -> Gains] :
       /\ \A b \in Bands : to[b] = g[b] \/ (b \in pending /\ to[b] \in Relevels(seen, b))
       /\ g' = to
  /\ radio' = [radio EXCEPT !.gain = g']
  /\ pc' = "done" /\ reading' = NoReadings
  /\ result' = [why |-> "no data", reading |-> NoReadings]
  /\ pending' = {}
  /\ UNCHANGED <<a, empties, attempt>>

(* Mutant of FatalAttens: the joint lock raises only the band that clips.  *)
FatalAttensOne(b) == [a EXCEPT ![b] = Smaller(AttenMax, a[b] + ClipStep)]

(* _stop_fatal: one clip step up, the joint lock with every band.          *)
FatalAttens(b) ==
  IF mode = "joint" THEN AttensAt(Smaller(OffsetMax, a[Strongest] + ClipStep))
  ELSE [a EXCEPT ![b] = Smaller(AttenMax, a[b] + ClipStep)]

CaptureStops(seen) ==
  /\ \E b \in pending : Fatal(seen, b) /\ a' = FatalAttens(b)
  /\ g' = g /\ radio' = [atten |-> a', gain |-> g']
  /\ pc' = "done" /\ reading' = NoReadings
  /\ result' = [why |-> "fatal", reading |-> NoReadings]
  /\ pending' = {} /\ UNCHANGED <<empties, attempt>>

Capture ==
  /\ pc = "read"
  /\ \E seen \in [pending -> UNION {Sights(b) : b \in pending}] :
       /\ \A b \in pending : seen[b] \in Sights(b)
       /\ CaptureReads(seen) \/ CaptureFails(seen) \/ CaptureStops(seen)
  /\ UNCHANGED <<mode, guard, floor, step, before, trustVars, turnVars, idle, best>>

(* --- _classify, _remember ---------------------------------------------- *)

Ok(b) == reading[b].counts
Trusted == \A b \in Bands : Ok(b)
Err(b) == reading[b].err
Clips(b) == Ok(b) /\ reading[b].clips

(* The composite of every band's reading, once every reading counts: its   *)
(* error, None when it is not finite, and whether the joint guard fires.   *)
JointReads == IF Trusted THEN JointErrors(radio.atten) \cup {None} ELSE {None}
JointGuardReads == IF guard /\ Trusted THEN JointSlopes(radio.atten) ELSE {FALSE}

In(b) == Ok(b) /\ Abs(Err(b)) <= Tol
Stuck(b) == Ok(b) /\ Err(b) > Tol /\ a[b] <= floor[b]
Worst == LargestOf({Abs(Err(b)) : b \in Bands})

Keep(worst) == [worst |-> worst, a |-> a, g |-> g, reading |-> reading]
Remember(clean, worst) ==
  best' = IF clean /\ (best = None \/ worst < best.worst) THEN Keep(worst) ELSE best

(* finish(): the radio is set to (attens, gains) and keeps them.           *)
Finish(why, attens, gains, readings) ==
  /\ pc' = "done"
  /\ a' = attens /\ g' = gains
  /\ radio' = [atten |-> attens, gain |-> gains]
  /\ result' = [why |-> why, reading |-> readings]
  /\ UNCHANGED <<step, idle, readVars>>

FinishHere(why) == Finish(why, a, g, reading)

(* The best step if there is one, else the last one: per band at the gains *)
(* it was captured at, in the joint lock at the gains re-leveled since.    *)
GainsOfLast ==
  IF mode = "joint" THEN g ELSE [b \in Bands |-> reading[b].shot.gain]

(* Mutant of LeaveAtBest: the best attenuations at the last gains.         *)
LeaveAtBestAttens(why) ==
  IF best' # None THEN Finish(why, best'.a, g, best'.reading)
  ELSE Finish(why, a, GainsOfLast, reading)

LeaveAtBest(why) ==
  IF best' # None THEN Finish(why, best'.a, best'.g, best'.reading)
  ELSE Finish(why, a, GainsOfLast, reading)

(* --- the trust region (_trust_step) ------------------------------------ *)

Grew(worst) ==
  /\ worst # None /\ prevWorst # None /\ lastMove # None
  /\ worst > prevWorst + GrowMargin /\ ~undone

Trust(worst) ==
  LET better == IF worst < prevWorst THEN improving + 1 ELSE 0
  IN  IF worst = None \/ prevWorst = None
      THEN undone' = FALSE /\ UNCHANGED <<cap, improving>>
      ELSE IF Grew(worst)
      THEN cap' = Larger((cap + 1) \div 2, 1) /\ improving' = 0 /\ undone' = TRUE
      ELSE /\ undone' = FALSE /\ improving' = Smaller(better, 2)
           /\ cap' = IF better >= 2 THEN MaxMove ELSE cap

(* Half of the last move back, rounded to an attenuator step.              *)
HalfBack(m) == {x \in -Abs(m) .. Abs(m) : Abs(2 * x + m) <= 1}
FineStep(over) == Smaller(MaxMove, ClipStep * Larger(1, over \div ClipStep))
ClipUp(over) == IF over > 0 THEN FineStep(over) ELSE ClipStep

(* --- one step's move, each band on its own target ---------------------- *)

Fixed(jointClips) ==
  IF jointClips THEN Bands ELSE {b \in Bands : Clips(b) \/ Stuck(b) \/ ~Ok(b)}
Raised(jointClips) == IF jointClips THEN Bands ELSE {b \in Bands : Clips(b)}

(* Where a clip guard sends band b: the joint one at least a clip step up. *)
RaiseTo(b, jointClips) ==
  LET own == ClipUp(-Err(b))
  IN  Smaller(AttenMax,
        a[b] + IF ~jointClips THEN own ELSE IF Clips(b) THEN Larger(ClipStep, own) ELSE ClipStep)

RaiseFloors(jointClips) ==
  floor' = [b \in Bands |-> IF b \in Raised(jointClips)
                            THEN Larger(floor[b], RaiseTo(b, jointClips)) ELSE floor[b]]

(* The worst error a move can help; in pingpong the active band's alone.   *)
Helpable(fixed) ==
  {b \in Bands \ fixed : Ok(b) /\ (mode = "pingpong" /\ active # None => b = active)}
WorstOf(fixed) ==
  IF Helpable(fixed) = {} THEN None ELSE LargestOf({Abs(Err(b)) : b \in Helpable(fixed)})

(* A solved move is capped, and at least one step out of tolerance.        *)
Solved(b) == {m \in -cap' .. cap' : m # 0 \/ In(b)}

(* Every band at once; a band within tolerance only if it is pushed out.   *)
Together(mv, fixed) == \A b \in Bands \ fixed : mv[b] \in Solved(b)

Undo(mv, fixed) == \A b \in Bands \ fixed : mv[b] \in HalfBack(lastMove[b])

(* Pingpong: the bands whose turn may come, aimed the ones whose error     *)
(* after the other bands' moves is out of tolerance.                       *)
Needs(b, aimed) == b \in aimed \/ ~In(b)
Nexts(movable, aimed) ==
  LET others == {b \in movable \ {active} : Needs(b, aimed)}
      again  == {b \in movable \cap {active} : Needs(b, aimed)}
  IN  IF active \in movable \cap aimed /\ turn < TurnSteps THEN {active}
      ELSE IF others = {} THEN again
      ELSE IF others \cap aimed # {} THEN others \cap aimed ELSE others

TakeTurn(b) ==
  /\ active' = b
  /\ turn' = IF b = None THEN (IF active = None THEN turn ELSE 0)
             ELSE IF b = active THEN Smaller(turn + 1, TurnSteps) ELSE Smaller(1, TurnSteps)

Baseline(b, worst) ==
  prevWorst' = IF b = active THEN worst ELSE IF b = None THEN None ELSE Abs(Err(b))

Pingpong(mv, fixed, worst) ==
  \E aimed \in SUBSET (Bands \ fixed) :
    LET nexts == Nexts(Bands \ fixed, aimed)
    IN  \E b \in IF nexts = {} THEN {None} ELSE nexts :
          /\ TakeTurn(b) /\ Baseline(b, worst)
          /\ \A d \in Bands \ fixed : IF d = b THEN mv[d] \in (-cap' .. cap') \ {0} ELSE mv[d] = 0

Plan(mv, jointClips) ==
  LET fixed == Fixed(jointClips)
      worst == WorstOf(fixed)
  IN  /\ Trust(worst)
      /\ \A b \in fixed :
           mv[b] = IF b \in Raised(jointClips) THEN RaiseTo(b, jointClips) - a[b] ELSE 0
      /\ \/ Grew(worst) /\ Undo(mv, fixed)
            /\ prevWorst' = worst /\ UNCHANGED turnVars
         \/ ~Grew(worst) /\ mode = "together" /\ Together(mv, fixed)
            /\ prevWorst' = worst /\ UNCHANGED turnVars
         \/ ~Grew(worst) /\ mode = "pingpong" /\ Pingpong(mv, fixed, worst)

(* Mutant of NewAttens: the limit and the floors are forgotten.            *)
NewAttensFree(mv) == [b \in Bands |-> Within(a[b] + mv[b], 0, AttenMax)]

NewAttens(mv) == [b \in Bands |-> Within(a[b] + mv[b], floor'[b], AttenMax)]

Moved(to) == [b \in Bands |-> to[b] - a[b]]
Held == [b \in Bands |-> 0]

(* The next step; the ORx gains follow the levels predicted.               *)
NextStep(to) ==
  /\ pc' = "step" /\ step' = step + 1
  /\ a' = to /\ g' \in [Bands -> Gains]
  /\ lastMove' = Moved(to)
  /\ reading' = NoReadings /\ before' = g'
  /\ UNCHANGED <<radio, result, pending, attempt, empties>>

(* _idle: nothing moved, and no band could.                                *)
IdleBands ==
  \A b \in Bands : In(b) \/ Stuck(b) \/ (~Ok(b) /\ before[b] = g[b])

(* What follows a plan to go to the attenuations to; counts: the step was  *)
(* read, idles: nothing else could have moved.                             *)
Go(to, counts, idles) ==
  IF to = a /\ counts
  THEN FinishHere("no move") /\ UNCHANGED lastMove
  ELSE LET n == IF to = a /\ idles THEN idle + 1 ELSE 0
       IN  IF n >= IdleSteps
           THEN LeaveAtBest("idle") /\ UNCHANGED lastMove
           ELSE NextStep(to) /\ idle' = n

Stop(why) == FinishHere(why) /\ UNCHANGED <<floor, trustVars, turnVars>>
LastStep ==
  LeaveAtBest("max steps") /\ UNCHANGED <<floor, trustVars, turnVars>>

(* Mutant of Clean: no clip guard.                                         *)
CleanAlways(jointClips) == TRUE

Clean(jointClips) == ~jointClips /\ \A b \in Bands : ~Clips(b)

MoveBands ==
  /\ pc = "move" /\ mode # "joint"
  /\ \E jointClips \in JointGuardReads :
       /\ Remember(Trusted /\ Clean(jointClips), Worst)
       /\ IF Clean(jointClips) /\ \A b \in Bands : In(b) \/ Stuck(b)
          THEN Stop(IF \A b \in Bands : In(b) THEN "converged" ELSE "limited")
          ELSE IF step = MaxSteps - 1 THEN LastStep
          ELSE \E mv \in [Bands -> -MaxMove - ClipStep .. MaxMove + ClipStep] :
                 /\ RaiseFloors(jointClips)
                 /\ Plan(mv, jointClips)
                 /\ Go(NewAttens(mv), Trusted, IdleBands)
  /\ UNCHANGED <<mode, guard>>

(* --- one step's move of the joint lock --------------------------------- *)

JointClipped(jointClips) == jointClips \/ \E b \in Bands : Clips(b)

(* Every band back together; no floor of the offset below there.           *)
JointBackOff(err) ==
  LET to == AttensAt(Smaller(OffsetMax, a[Strongest] + ClipUp(-err)))
  IN  /\ floor' = [b \in Bands |-> Larger(floor[b], to[b])]
      /\ prevWorst' = None /\ undone' = FALSE /\ UNCHANGED <<cap, improving>>
      /\ Go(to, TRUE, g = before)

JointSecant(err) ==
  /\ Trust(Abs(err)) /\ prevWorst' = Abs(err)
  /\ UNCHANGED floor
  /\ \E m \in IF Grew(Abs(err)) THEN HalfBack(lastMove[Strongest])
              ELSE (-cap' .. cap') \ {0} :
       Go(AttensAt(OffsetWithin(a[Strongest] + m)), TRUE, g = before)

JointHold ==
  /\ UNCHANGED <<floor, cap, improving, undone, prevWorst>>
  /\ Go(a, FALSE, g = before)

JointMove(err, jointClips) ==
  IF err = None THEN JointHold
  ELSE IF JointClipped(jointClips) THEN JointBackOff(err)
  ELSE JointSecant(err)

AtOffsetFloor == a[Strongest] <= OffsetFloor(floor)

MoveJoint ==
  /\ pc = "move" /\ mode = "joint"
  /\ \E err \in JointReads, jointClips \in JointGuardReads :
       LET clean == err # None /\ ~JointClipped(jointClips)
       IN  /\ Remember(clean, Abs(err))
           /\ IF clean /\ Abs(err) <= Tol THEN Stop("converged")
              ELSE IF step = MaxSteps - 1 THEN LastStep
              ELSE IF clean /\ err > Tol /\ AtOffsetFloor THEN Stop("limited")
              ELSE JointMove(err, jointClips) /\ UNCHANGED turnVars
  /\ UNCHANGED <<mode, guard>>

Ended == pc = "done" /\ UNCHANGED vars

Next == StartStep \/ Capture \/ MoveBands \/ MoveJoint \/ Ended

Spec == Init /\ [][Next]_vars

(* The search is one loop of one thread: it goes on.                       *)
FairSpec == Spec /\ WF_vars(Next)

----------------------------------------------------------------------------
ShotType == [atten : [Bands -> Attens], gain : Gains]
ReadingType ==
  [counts : BOOLEAN, err : Int, clips : BOOLEAN, shot : ShotType]
ReadingsType == [Bands -> ReadingType \cup {None}]

TypeOK ==
  /\ mode \in Modes /\ guard \in BOOLEAN
  /\ pc \in {"step", "read", "move", "done"}
  /\ radio \in [atten : [Bands -> Attens], gain : [Bands -> Gains]]
  /\ a \in [Bands -> Attens] /\ g \in [Bands -> Gains]
  /\ floor \in [Bands -> Attens]
  /\ step \in 0 .. MaxSteps - 1
  /\ pending \in SUBSET Bands
  /\ reading \in ReadingsType
  /\ attempt \in 0 .. MaxRelevel + 1
  /\ empties \in [Bands -> 0 .. EmptyRetakes]
  /\ before \in [Bands -> Gains]
  /\ cap \in 1 .. MaxMove /\ improving \in 0 .. 2 /\ undone \in BOOLEAN
  /\ lastMove \in [Bands -> -AttenMax .. AttenMax] \cup {None}
  /\ prevWorst \in Nat \cup {None}
  /\ active \in Bands \cup {None} /\ turn \in Nat
  /\ idle \in 0 .. IdleSteps
  /\ best \in [worst : Nat, a : [Bands -> Attens], g : [Bands -> Gains],
               reading : ReadingsType] \cup {None}
  /\ result \in [why : {"converged", "limited", "max steps", "idle", "no move",
                        "fatal", "no data"},
                 reading : ReadingsType] \cup {None}

(* The search ended in order: not by an overdriven ORx, not for want of    *)
(* data.                                                                   *)
Returned == pc = "done" /\ result.why \notin {"fatal", "no data"}

(* The radio is left where the readings returned were measured, at every   *)
(* band's attenuation and ORx gain, whether the search returns its last    *)
(* step or goes back to its best one (the joint lock at its last step      *)
(* excepted: a band that did not count was re-leveled since).              *)
LeftWhereMeasured ==
  Returned =>
    \A b \in Bands :
      LET shot == result.reading[b].shot
      IN  /\ shot.atten = radio.atten
          /\ shot.gain = radio.gain[b] \/ (mode = "joint" /\ ~result.reading[b].counts)

(* A search that converged did so on readings that all count, of one step, *)
(* without a clip, each band of its own lock within its tolerance.         *)
ConvergedIsLocked ==
  Returned /\ result.why = "converged" =>
    \A b \in Bands :
      /\ result.reading[b].counts /\ ~result.reading[b].clips
      /\ mode # "joint" => Abs(result.reading[b].err) <= Tol

(* No capture is made below a limit or below a floor a clip guard raised   *)
(* before it, and the radio is left below a raised floor only when the     *)
(* search goes back to its best step.                                      *)
FloorsHold ==
  \A b \in Bands :
    /\ radio.atten[b] >= FloorMin[b]
    /\ pc \in {"read", "move"} => radio.atten[b] >= floor[b]
    /\ pc = "done" /\ radio.atten[b] < floor[b] => result.why \in {"max steps", "idle"}

(* The joint lock keeps the level difference of the bands at every capture *)
(* and however it ends.                                                    *)
LevelsKept ==
  mode = "joint" =>
    \A b \in Bands : radio.atten[b] + Levels[b] = radio.atten[Strongest]

(* What _read_step says: after max_relevel re-levels the last reading is   *)
(* returned and the band holds, so that the search always ends.            *)
AlwaysEnds == <>(pc = "done")
=============================================================================
