-------------------------- MODULE MCOperatingPoint --------------------------
(***************************************************************************)
(* Benches for OperatingPoint: gain tables with and without a zone of      *)
(* other steps, weak and strong signals, an ORx that rails or only         *)
(* saturates, that loses captures when overdriven or not, and PAs that     *)
(* compress early, late or never and clip at, above or below the target.   *)
(***************************************************************************)
EXTENDS OperatingPoint

MCTarget  == -100
MCClip    == -65
MCCeiling == -45

Never == 100000

Even(step) == [step |-> step, from |-> 0, to |-> 0, steep |-> step]
Zone(from, to, steep) == [step |-> 50, from |-> from, to |-> to, steep |-> steep]

LevelTables == {Even(50), Even(30), Even(100), Zone(188, 210, 30), Zone(202, 210, 80),
                Zone(206, 210, 120)}
PointTables == {Even(50), Zone(188, 210, 30), Zone(202, 210, 80)}

Bench(table, signal, short, over, rail, knee, rise, slope, job, start) ==
  [step |-> table.step, from |-> table.from, to |-> table.to, steep |-> table.steep,
   signal |-> signal, short |-> short, overdrive |-> over, rail |-> rail,
   knee |-> knee, rise |-> rise, slopeFrom |-> slope, job |-> job, start |-> start]

(* The leveling alone, with and without a predicted gain.                  *)
LevelBenches ==
  { Bench(t, s, short, over, rail, 0, 0, 0, "level", start) :
      t \in LevelTables, s \in {2600, 400, -165, -3000}, short \in {0, 45},
      over \in {0, Never}, rail \in {0, Never}, start \in {None, 190, 255} }

(* Whole operating points.                                                 *)
PointBenches ==
  { Bench(t, s, 0, over, 0, knee, rise, slope, "point", None) :
      t \in PointTables, s \in {1500, 335, -2500}, over \in {30, Never},
      knee \in {500, 1200, 2300, 9000}, rise \in {40, 90}, slope \in {0, 1000, 1400, 5000} }

(* A PA that compresses by 10 dB per dB: the clip guard's step is a coarse *)
(* one, far above the best reading.                                        *)
SteepBenches ==
  { Bench(Even(50), s, 0, over, 0, knee, 1000, 1000, "point", None) :
      s \in {1500, 335}, over \in {30, Never}, knee \in {1010, 1500} }

(* PAs that can be leveled at every attenuation, so that the target, where *)
(* there is one, must be found: with the clip guard below it, at it, above *)
(* it or never.                                                            *)
ReachBenches ==
  { Bench(Even(50), s, 0, Never, 0, knee, rise, slope, "point", None) :
      s \in {560, 600}, knee \in {500, 1010, 1200, 2300}, rise \in {40, 90, 100},
      slope \in {0, 1000, 1070, 1400} }

MCBenches == LevelBenches \cup PointBenches \cup SteepBenches \cup ReachBenches
=============================================================================
