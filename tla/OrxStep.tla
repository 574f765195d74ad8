------------------------------- MODULE OrxStep -------------------------------
(***************************************************************************)
(* How one ORx capture is judged and how its gain is moved: the window and *)
(* clip rules and the class OrxStep of src/adrvtrx/gain.py, which learns   *)
(* the gain table's dB per index and notices when the table jumps over the *)
(* window.  Pure operators, used by every level search.                    *)
(*                                                                         *)
(* Levels are in hundredths of a dB, so that every threshold, gain step    *)
(* and attenuation of the code is an integer.  A reading has the fields    *)
(* data (FALSE: every sample is zero, the peak is not finite), peak and    *)
(* railed; a capture is a reading with the drive and the gain it was taken *)
(* at.                                                                     *)
(***************************************************************************)
EXTENDS Integers

CONSTANTS
  Target, TolUp, TolDown,  \* the window around target_dbfs
  ClipDbfs,                \* orx_clip_dbfs: a peak here or above is a clip
  DbPerIndex,              \* the gain step assumed before one is learnt
  StepMin, StepMax,        \* ORX_STEP_BOUNDS
  EmptyStepIdx,            \* EMPTY_STEP_IDX
  None                     \* no capture

(* check_orx_window raises unless the window's top is below the clip; the  *)
(* other values are the code's constants and defaults: ORX_STEP_BOUNDS     *)
(* lie on either side of ORX_DB_PER_INDEX.                                 *)
ASSUME WindowAssumption ==
  /\ Target \in Int /\ TolUp \in Nat /\ TolDown \in Nat /\ ClipDbfs \in Int
  /\ Target + TolUp < ClipDbfs
  /\ DbPerIndex \in Nat \ {0}
  /\ StepMin \in Nat \ {0} /\ StepMax \in Int
  /\ StepMin <= DbPerIndex /\ DbPerIndex <= StepMax
  /\ EmptyStepIdx \in Nat \ {0}

Smaller(a, b) == IF a <= b THEN a ELSE b
Larger(a, b)  == IF a >= b THEN a ELSE b
Distance(a, b) == IF a >= b THEN a - b ELSE b - a

(* Python's round() of a / b, b > 0: ties go to the even neighbour.        *)
RoundDiv(a, b) ==
  LET q == a \div b
      r == a % b
  IN  IF 2 * r < b \/ (2 * r = b /\ q % 2 = 0) THEN q ELSE q + 1

BandLo == Target - TolDown
BandHi == Target + TolUp

Clipped(r)  == r.railed \/ r.peak >= ClipDbfs
InWindow(r) == ~Clipped(r) /\ BandLo <= r.peak /\ r.peak <= BandHi

Side(r) == IF Clipped(r) \/ r.peak > BandHi THEN 1
           ELSE IF r.peak < BandLo THEN -1 ELSE 0

(* The window is jumped over when two captures lie on either side of it.   *)
Crossed(p, c) == Side(p) * Side(c) < 0

NewStep == [dbPerIndex |-> DbPerIndex, single |-> FALSE, jumped |-> FALSE,
            last |-> None, near |-> None]

(* The secant of two captures, if it can teach a step: gains that differ,  *)
(* neither of them pinned, and a table that does not fall.                 *)
Teaches(p, c) ==
  /\ p # None
  /\ p.gain # c.gain /\ ~Clipped(p) /\ ~Clipped(c)
  /\ (c.peak - p.peak) * (c.gain - p.gain) > 0

Secant(p, c) ==
  LET lo == IF p.gain < c.gain THEN p ELSE c
      hi == IF p.gain < c.gain THEN c ELSE p
  IN  Larger(StepMin, Smaller(StepMax, RoundDiv(hi.peak - lo.peak, hi.gain - lo.gain)))

Nearer(near, c) ==
  IF Clipped(c) THEN near
  ELSE IF near = None THEN c
  ELSE IF Distance(c.peak, Target) < Distance(near.peak, Target) THEN c ELSE near

(* Mutant of Observe: any overshoot counts as a jump over the window.      *)
ObserveAnyJump(o, c) ==
  LET same == o.last # None /\ o.last.drive = c.drive
      p    == IF same THEN o.last ELSE None
      over == same /\ Crossed(p, c)
  IN  [dbPerIndex |-> IF Teaches(p, c) THEN Secant(p, c) ELSE o.dbPerIndex,
       single |-> (same /\ o.single) \/ over,
       jumped |-> \/ same /\ o.jumped
                  \/ over,
       last   |-> c,
       near   |-> Nearer(IF same THEN o.near ELSE None, c)]

(* OrxStep.observe: a new drive starts a new episode, but the learnt step  *)
(* is kept; `near` is what closest() finds among the drive's captures.     *)
Observe(o, c) ==
  LET same == o.last # None /\ o.last.drive = c.drive
      p    == IF same THEN o.last ELSE None
      over == same /\ Crossed(p, c)
  IN  [dbPerIndex |-> IF Teaches(p, c) THEN Secant(p, c) ELSE o.dbPerIndex,
       single |-> (same /\ o.single) \/ over,
       jumped |-> \/ same /\ o.jumped
                  \/ over /\ Distance(c.gain, p.gain) <= 1,
       last   |-> c,
       near   |-> Nearer(IF same THEN o.near ELSE None, c)]

(* relevel_index: the index change for a capture that is not leveled.      *)
Relevel(o, r) ==
  IF r.railed /\ r.peak <= BandHi THEN -1
  ELSE IF r.peak > BandHi
  THEN 0 - Larger(1, RoundDiv(r.peak - Target, o.dbPerIndex))
  ELSE Larger(1, RoundDiv(Target - r.peak, o.dbPerIndex))

(* OrxStep.step: single indices once a re-level overshot.                  *)
StepFor(o, r) ==
  LET k == Relevel(o, r)
  IN  IF o.single THEN (IF k > 0 THEN 1 ELSE -1) ELSE k

(* OrxStep.indices: gain indices for a level change of db.                 *)
Indices(o, db) == RoundDiv(db, o.dbPerIndex)
=============================================================================
