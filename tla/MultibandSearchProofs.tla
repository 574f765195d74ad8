------------------------ MODULE MultibandSearchProofs ------------------------
(***************************************************************************)
(* The lock of several bands, for any bands, levels, tolerances and        *)
(* limits, and whatever the captures read: no floor is passed, the levels  *)
(* are kept, what converged is locked, and what is returned was measured   *)
(* where the radio is left.                                                *)
(***************************************************************************)
EXTENDS MultibandSearch, FiniteSetTheorems, TLAPS

USE DEF readVars, trustVars, turnVars

-----------------------------------------------------------------------------
(* Numbers                                                                 *)

LEMMA Ranges ==
  /\ AttenMax \in Nat /\ Attens \subseteq Nat /\ Gains \subseteq Int
  /\ MaxMove \in Nat \ {0} /\ ClipStep \in Nat \ {0} /\ MaxSteps \in Nat \ {0}
  /\ IdleSteps \in Nat \ {0} /\ EmptyRetakes \in Nat /\ MaxRelevel \in Nat
  /\ None \notin Int /\ None \notin Bands
  /\ Strongest \in Bands /\ Levels[Strongest] = 0 /\ Levels \in [Bands -> Int]
  /\ FloorMin \in [Bands -> Attens] /\ \A b \in Bands : FloorMin[b] \in Nat
  /\ Bands # {} /\ IsFiniteSet(Bands)
  BY SearchAssumption DEF Attens, Gains, Strongest

LEMMA Rising ==
  ASSUME NEW v \in Nat, NEW w \in Nat, NEW x \in Nat, NEW y \in Nat, v <= w, w <= x, x <= y
  PROVE  v <= y /\ w <= y /\ ~(y < w)
  OBVIOUS

LEMMA NotBelow ==
  ASSUME NEW v \in Nat, NEW w \in Nat, v <= w
  PROVE  ~(w < v)
  OBVIOUS

LEMMA ShotAt ==
  ASSUME NEW s, NEW v, NEW w, s = [atten |-> v, gain |-> w]
  PROVE  s.atten = v /\ s.gain = w
  OBVIOUS

(* A value per band has a greatest among any bands.                        *)
LEMMA Greatest ==
  ASSUME NEW B \in SUBSET Bands, B # {}, NEW f \in [Bands -> Int]
  PROVE  \E b \in B : \A d \in B : f[d] <= f[b]
<1> DEFINE Topped(U) == \E b \in U : \A d \in U : f[d] <= f[b]
           T == {U \in SUBSET Bands : U # {} /\ ~Topped(U)}
           R == StrictSubsetOrdering(Bands)
<1>1. SUFFICES ASSUME T # {} PROVE FALSE
  OBVIOUS
<1>2. IsWellFoundedOn(R, SUBSET Bands)
  <2>1. FiniteSubsetsOf(Bands) = SUBSET Bands
    BY SearchAssumption, FS_FiniteSubsetsOfFinite
  <2>2. IsWellFoundedOn(StrictSubsetOrdering(Bands), FiniteSubsetsOf(Bands))
    BY FS_StrictSubsetOrderingWellFounded
  <2> QED
    BY <2>1, <2>2
<1>3. T \subseteq SUBSET Bands
  OBVIOUS
<1> HIDE DEF T, R
<1>4. PICK U \in T : \A V \in T : ~ (<<V, U>> \in R)
  BY <1>1, <1>2, <1>3, WFMin
<1>5. U \in SUBSET Bands /\ U # {} /\ ~Topped(U)
  BY DEF T
<1>6. PICK x \in U : TRUE
  BY <1>5
<1> DEFINE V == U \ {x}
<1>7. V \in SUBSET Bands /\ V \subseteq U /\ V # U
  BY <1>5, <1>6
<1>8. V = {} \/ Topped(V)
  <2>1. <<V, U>> \in R
    BY <1>5, <1>7 DEF R, StrictSubsetOrdering
  <2>2. V \notin T
    BY <1>4, <2>1
  <2> QED
    BY <1>7, <2>2 DEF T
<1>9. Topped(U)
  <2>1. CASE V = {}
    BY <1>5, <1>6, <2>1
  <2>2. CASE Topped(V)
    <3>1. PICK m \in V : \A d \in V : f[d] <= f[m]
      BY <2>2
    <3>2. \A d \in U : d = x \/ d \in V
      OBVIOUS
    <3>3. /\ f[x] \in Int /\ f[m] \in Int /\ m \in U
          /\ \A d \in U : f[d] \in Int
      BY <1>5, <1>6, <3>1
    <3> QED
      BY <1>6, <3>1, <3>2, <3>3
  <2> QED
    BY <1>8, <2>1, <2>2
<1> QED
  BY <1>5, <1>9

LEMMA LargestIs ==
  ASSUME NEW B \in SUBSET Bands, B # {}, NEW f \in [Bands -> Int]
  PROVE  LET m == LargestOf({f[b] : b \in B})
         IN  (\E b \in B : m = f[b]) /\ \A b \in B : f[b] <= m
<1> DEFINE S == {f[b] : b \in B}
<1>1. PICK b \in B : \A d \in B : f[d] <= f[b]
  BY Greatest
<1>2. f[b] \in S /\ \A y \in S : y <= f[b]
  BY <1>1
<1>3. LargestOf(S) \in S /\ \A y \in S : y <= LargestOf(S)
  BY <1>2 DEF LargestOf
<1> QED
  BY <1>3

LEMMA SmallestIs ==
  ASSUME NEW f \in [Bands -> Int]
  PROVE  LET m == SmallestOf({f[b] : b \in Bands})
         IN  (\E b \in Bands : m = f[b]) /\ \A b \in Bands : m <= f[b]
<1> DEFINE S == {f[b] : b \in Bands}
           h == [b \in Bands |-> -f[b]]
<1>0. h \in [Bands -> Int] /\ Bands # {} /\ Bands \in SUBSET Bands
  BY SearchAssumption
<1>1. PICK b \in Bands : \A d \in Bands : h[d] <= h[b]
  BY <1>0, Greatest
<1>2. f[b] \in S /\ \A y \in S : f[b] <= y
  <2>1. \A d \in Bands : f[d] \in Int /\ h[d] = -f[d]
    OBVIOUS
  <2>2. \A d \in Bands : f[b] <= f[d]
    <3> TAKE d \in Bands
    <3> QED
      BY <1>1, <2>1
  <2> QED
    BY <2>2
<1>3. SmallestOf(S) \in S /\ \A y \in S : SmallestOf(S) <= y
  BY <1>2 DEF SmallestOf
<1> QED
  BY <1>3

-----------------------------------------------------------------------------
(* The common offset                                                       *)

(* A common offset exists that keeps every band in its range.              *)
Room(floors) == \A b, d \in Bands : floors[b] + Levels[b] <= AttenMax + Levels[d]
Leveled(at) == \A b \in Bands : at[b] + Levels[b] = at[Strongest]

LEMMA Offsets ==
  ASSUME NEW floors \in [Bands -> Attens], Room(floors)
  PROVE  /\ OffsetFloor(floors) \in Int /\ OffsetMax \in Int
         /\ OffsetFloor(floors) <= OffsetMax
         /\ \A b \in Bands : floors[b] + Levels[b] <= OffsetFloor(floors)
         /\ \A b \in Bands : OffsetMax <= AttenMax + Levels[b]
         /\ \E b \in Bands : OffsetMax = AttenMax + Levels[b]
<1> DEFINE f == [b \in Bands |-> floors[b] + Levels[b]]
           h == [b \in Bands |-> AttenMax + Levels[b]]
<1>1. f \in [Bands -> Int] /\ h \in [Bands -> Int] /\ Bands # {} /\ Bands \in SUBSET Bands
  <2>1. \A b \in Bands : floors[b] \in Int
    BY DEF Attens
  <2>2. \A b \in Bands : Levels[b] \in Int /\ AttenMax \in Int
    BY Ranges
  <2> QED
    BY <2>1, <2>2, SearchAssumption
<1>2. /\ OffsetFloor(floors) = LargestOf({f[b] : b \in Bands})
      /\ OffsetMax = SmallestOf({h[b] : b \in Bands})
  BY DEF OffsetFloor, OffsetMax
<1>3. /\ \E b \in Bands : OffsetFloor(floors) = f[b]
      /\ \A b \in Bands : f[b] <= OffsetFloor(floors)
  BY <1>1, <1>2, LargestIs
<1>4. /\ \E b \in Bands : OffsetMax = h[b]
      /\ \A b \in Bands : OffsetMax <= h[b]
  BY <1>1, <1>2, SmallestIs
<1>5. \A b, d \in Bands : f[b] <= h[d]
  BY DEF Room
<1> QED
  BY <1>1, <1>3, <1>4, <1>5

LEMMA AttensOf ==
  ASSUME NEW c \in Int
  PROVE  /\ \A b \in Bands : AttensAt(c)[b] + Levels[b] = c
         /\ AttensAt(c)[Strongest] = c /\ Leveled(AttensAt(c))
         /\ AttensAt(c) \in [Bands -> Int]
  BY Ranges DEF AttensAt, Leveled

LEMMA OffsetAttens ==
  ASSUME NEW floors \in [Bands -> Attens], Room(floors), NEW c \in Int,
         NEW o, o = Smaller(Larger(c, OffsetFloor(floors)), OffsetMax)
  PROVE  /\ AttensAt(o) \in [Bands -> Attens] /\ Leveled(AttensAt(o))
         /\ \A b \in Bands : floors[b] <= AttensAt(o)[b]
<1>1. o \in Int /\ OffsetFloor(floors) <= o /\ o <= OffsetMax
  BY Offsets DEF Smaller, Larger
<1>2. \A b \in Bands : floors[b] + Levels[b] <= o /\ o <= AttenMax + Levels[b]
  <2> TAKE b \in Bands
  <2>1. /\ floors[b] + Levels[b] <= OffsetFloor(floors) /\ OffsetMax <= AttenMax + Levels[b]
        /\ OffsetFloor(floors) \in Int /\ OffsetMax \in Int
    BY Offsets
  <2>2. floors[b] + Levels[b] \in Int /\ AttenMax + Levels[b] \in Int
    BY Ranges DEF Attens
  <2> QED
    BY <1>1, <2>1, <2>2
<1>3. /\ \A b \in Bands : AttensAt(o)[b] + Levels[b] = o
      /\ AttensAt(o) \in [Bands -> Int] /\ Leveled(AttensAt(o))
  BY <1>1, AttensOf
<1>4. \A b \in Bands : floors[b] <= AttensAt(o)[b] /\ AttensAt(o)[b] \in Attens
  <2> TAKE b \in Bands
  <2>1. Levels[b] \in Int /\ AttenMax \in Nat /\ floors[b] \in Nat /\ AttensAt(o)[b] \in Int
    BY <1>3, Ranges DEF Attens
  <2>2. AttensAt(o)[b] + Levels[b] = o /\ floors[b] + Levels[b] <= o /\ o <= AttenMax + Levels[b]
    BY <1>2, <1>3
  <2> QED
    BY <1>1, <2>1, <2>2 DEF Attens
<1>5. AttensAt(o) \in [Bands -> Attens]
  BY <1>3, <1>4
<1> QED
  BY <1>3, <1>4, <1>5

(* Every band up together, as far as the offset may go.                    *)
LEMMA OffsetUp ==
  ASSUME NEW at \in [Bands -> Attens], Leveled(at), NEW m \in Nat,
         NEW o, o = Smaller(OffsetMax, at[Strongest] + m)
  PROVE  /\ AttensAt(o) \in [Bands -> Attens] /\ Leveled(AttensAt(o)) /\ Room(AttensAt(o))
         /\ \A b \in Bands : at[b] <= AttensAt(o)[b]
<1> DEFINE to == AttensAt(o)
<1>1. \A b \in Bands : at[b] \in Nat /\ at[b] <= AttenMax /\ Levels[b] \in Int /\ AttenMax \in Nat
  BY Ranges DEF Attens
<1>2. at[Strongest] \in Nat /\ \A b \in Bands : at[b] + Levels[b] = at[Strongest]
  BY <1>1, Ranges DEF Leveled
<1>3. Room(at)
  BY <1>1, <1>2 DEF Room
<1>4. /\ OffsetMax \in Int /\ \A b \in Bands : OffsetMax <= AttenMax + Levels[b]
      /\ \E b \in Bands : OffsetMax = AttenMax + Levels[b]
  BY <1>3, Offsets
<1>5. at[Strongest] <= OffsetMax
  BY <1>1, <1>2, <1>4
<1>6. o \in Int /\ at[Strongest] <= o /\ o <= OffsetMax
  BY <1>2, <1>4, <1>5 DEF Smaller
<1>7. /\ \A b \in Bands : to[b] + Levels[b] = o
      /\ to \in [Bands -> Int] /\ Leveled(to)
  BY <1>6, AttensOf
<1> HIDE DEF to
<1>8. \A b \in Bands : to[b] \in Int /\ at[b] <= to[b] /\ to[b] <= AttenMax
  BY <1>1, <1>2, <1>4, <1>6, <1>7
<1>9. to \in [Bands -> Attens]
  BY <1>1, <1>7, <1>8 DEF Attens
<1>10. Room(to)
  <2> SUFFICES ASSUME NEW b \in Bands, NEW d \in Bands
               PROVE  to[b] + Levels[b] <= AttenMax + Levels[d]
    BY DEF Room
  <2>1. to[b] + Levels[b] = o /\ OffsetMax <= AttenMax + Levels[d] /\ AttenMax + Levels[d] \in Int
    BY <1>1, <1>4, <1>7
  <2> QED
    BY <1>4, <1>6, <2>1
<1> QED
  BY <1>7, <1>8, <1>9, <1>10 DEF to

-----------------------------------------------------------------------------
(* The invariant                                                           *)

(* What a reading that is in says: it was taken at the attenuations the    *)
(* search carries, and, if it counts, at the gain it carries.              *)
Reads(b) ==
  /\ reading[b] \in ReadingType
  /\ reading[b].shot.atten = a
  /\ reading[b].counts => reading[b].shot.gain = g[b]

Kept(k) ==
  /\ mode = "joint" => Leveled(k.a)
  /\ \A b \in Bands :
       /\ k.reading[b] \in ReadingType /\ k.reading[b].counts
       /\ k.reading[b].shot = [atten |-> k.a, gain |-> k.g[b]]
       /\ FloorMin[b] <= k.a[b]

ReadInv ==
  /\ pc \in {"read", "move"} => radio = [atten |-> a, gain |-> g]
  /\ pc \in {"read", "move"} => \A b \in Bands \ pending : Reads(b)
  /\ pc = "move" => pending = {}
  /\ best # None => Kept(best)

FloorInv ==
  /\ \A b \in Bands : FloorMin[b] <= floor[b] /\ FloorMin[b] <= radio.atten[b]
  /\ pc # "done" => \A b \in Bands : floor[b] <= a[b]
  /\ \A b \in Bands :
       pc = "done" /\ radio.atten[b] < floor[b] => result.why \in {"max steps", "idle"}

LevelInv ==
  mode = "joint" => Leveled(a) /\ Leveled(radio.atten) /\ Room(floor)

IInv ==
  TypeOK /\ ReadInv /\ FloorInv /\ LevelInv /\ LeftWhereMeasured /\ ConvergedIsLocked

LEMMA InitInv == Init => IInv
<1> SUFFICES ASSUME Init PROVE IInv
  OBVIOUS
<1>1. floor \in [Bands -> Attens] /\ Room(floor)
  BY SearchAssumption DEF Init, Room
<1>2. /\ a \in [Bands -> Attens] /\ \A b \in Bands : floor[b] <= a[b]
      /\ mode = "joint" => Leveled(a)
  <2>1. CASE mode = "joint"
    <3> DEFINE f == [b \in Bands |-> Start[b] + Levels[b]]
               c == LargestOf({f[b] : b \in Bands})
    <3>1. f \in [Bands -> Int]
      <4>1. \A b \in Bands : Start[b] \in Int /\ Levels[b] \in Int
        BY SearchAssumption DEF Attens
      <4> QED
        BY <4>1
    <3>2. c \in Int
      <4> HIDE DEF f
      <4>1. Bands \in SUBSET Bands /\ Bands # {}
        BY Ranges
      <4>2. \E b \in Bands : c = f[b]
        BY <3>1, <4>1, LargestIs
      <4> QED
        BY <3>1, <4>2
    <3>3. PICK o : o = Smaller(Larger(c, OffsetFloor(floor)), OffsetMax)
      OBVIOUS
    <3>4. a = AttensAt(o)
      BY <2>1, <3>3 DEF Init, OffsetWithin
    <3> QED
      BY <1>1, <3>2, <3>3, <3>4, OffsetAttens
  <2>2. CASE mode # "joint"
    BY <2>2, SearchAssumption DEF Init
  <2> QED
    BY <2>1, <2>2
<1>3. TypeOK
  <2>1. /\ mode \in Modes /\ guard \in BOOLEAN /\ floor \in [Bands -> Attens]
        /\ a \in [Bands -> Attens] /\ g \in [Bands -> Gains]
    BY <1>1, <1>2, SearchAssumption DEF Init, ResolveJointClip
  <2>2. /\ reading \in ReadingsType /\ empties \in [Bands -> 0 .. EmptyRetakes]
    BY Ranges DEF Init, ReadingsType, NoReadings
  <2>3. /\ step \in 0 .. MaxSteps - 1 /\ cap \in 1 .. MaxMove /\ idle \in 0 .. IdleSteps
        /\ attempt \in 0 .. MaxRelevel + 1
    BY Ranges DEF Init
  <2>4. /\ radio \in [atten : [Bands -> Attens], gain : [Bands -> Gains]]
        /\ before \in [Bands -> Gains]
    BY <2>1 DEF Init
  <2>5. /\ lastMove = None /\ prevWorst = None /\ active = None
        /\ best = None /\ result = None /\ pc = "step"
        /\ improving = 0 /\ undone = FALSE /\ turn = 0 /\ pending = {}
    BY Zenon DEF Init
  <2>6. improving \in 0 .. 2 /\ turn \in Nat /\ pending \in SUBSET Bands
    BY <2>5
  <2>7. undone \in BOOLEAN /\ pc \in {"step", "read", "move", "done"}
    BY <2>5, Zenon
  <2> QED
    BY <2>1, <2>2, <2>3, <2>4, <2>5, <2>6, <2>7, Zenon DEF TypeOK
<1>4. ReadInv /\ LeftWhereMeasured /\ ConvergedIsLocked
  BY DEF Init, ReadInv, LeftWhereMeasured, ConvergedIsLocked, Returned
<1>5. radio.atten = a /\ pc = "step"
  BY DEF Init
<1>6. \A b \in Bands : FloorMin[b] = floor[b]
  BY DEF Init
<1>7. \A b \in Bands : floor[b] \in Int /\ a[b] \in Int
  BY <1>1, <1>2, Ranges DEF Attens
<1>8. FloorInv
  BY <1>2, <1>5, <1>6, <1>7 DEF FloorInv
<1>9. LevelInv
  BY <1>1, <1>2, <1>5 DEF LevelInv
<1> QED
  BY <1>3, <1>4, <1>8, <1>9 DEF IInv

LEMMA TypedNumbers ==
  TypeOK => \A b \in Bands :
    /\ floor[b] \in Nat /\ a[b] \in Nat /\ radio.atten[b] \in Nat /\ FloorMin[b] \in Nat
    /\ a[b] <= AttenMax /\ g[b] \in Int
<1> SUFFICES ASSUME TypeOK PROVE \A b \in Bands :
    /\ floor[b] \in Nat /\ a[b] \in Nat /\ radio.atten[b] \in Nat /\ FloorMin[b] \in Nat
    /\ a[b] <= AttenMax /\ g[b] \in Int
  OBVIOUS
<1>1. /\ floor \in [Bands -> Attens] /\ a \in [Bands -> Attens]
      /\ radio.atten \in [Bands -> Attens] /\ g \in [Bands -> Gains]
  BY DEF TypeOK
<1>2. /\ FloorMin \in [Bands -> Attens] /\ AttenMax \in Nat
      /\ GainMin \in Int /\ GainMax \in Int
  BY SearchAssumption
<1> QED
  BY <1>1, <1>2 DEF Attens, Gains

LEMMA StartStepInv == IInv /\ StartStep => IInv'
<1> SUFFICES ASSUME IInv, StartStep PROVE IInv'
  OBVIOUS
<1>0. TypeOK /\ ReadInv /\ FloorInv /\ LevelInv
  BY DEF IInv
<1>1. TypeOK'
  <2>1. radio' \in [atten : [Bands -> Attens], gain : [Bands -> Gains]]
    BY <1>0 DEF TypeOK, StartStep
  <2>2. attempt' \in 0 .. MaxRelevel + 1 /\ empties' \in [Bands -> 0 .. EmptyRetakes]
    BY Ranges DEF StartStep
  <2> QED
    BY <1>0, <2>1, <2>2 DEF TypeOK, StartStep
<1>2. ReadInv'
  BY <1>0 DEF ReadInv, Kept, StartStep
<1>3. LeftWhereMeasured' /\ ConvergedIsLocked'
  BY DEF LeftWhereMeasured, ConvergedIsLocked, Returned, StartStep
<1>4. FloorInv'
  <2>1. \A b \in Bands : FloorMin[b] <= floor[b] /\ floor[b] <= a[b]
    BY <1>0 DEF FloorInv, StartStep
  <2>2. \A b \in Bands : FloorMin[b] <= a[b]
    BY <1>0, <2>1, TypedNumbers
  <2> QED
    BY <2>1, <2>2 DEF FloorInv, StartStep
<1>5. LevelInv'
  BY <1>0 DEF LevelInv, Room, Leveled, StartStep
<1> QED
  BY <1>1, <1>2, <1>3, <1>4, <1>5 DEF IInv

-----------------------------------------------------------------------------
(* Reading a step                                                          *)

LEMMA SightSays ==
  ASSUME TypeOK, NEW b \in Bands, NEW s \in Sights(b)
  PROVE  /\ s.reading \in ReadingType /\ s.reading.shot = [atten |-> radio.atten, gain |-> radio.gain[b]]
         /\ s.reading.counts => s.kind = "counts"
<1>1. radio.atten \in [Bands -> Attens] /\ radio.gain[b] \in Gains
  BY DEF TypeOK
<1>2. Shot(b) \in ShotType
  BY <1>1 DEF Shot, ShotType
<1>3. Errors(b, radio.atten) \subseteq Int /\ Slopes(b, radio.atten) \subseteq BOOLEAN
  BY <1>1, SearchAssumption
<1>4. NotCounted(b) \in ReadingType
  BY <1>2 DEF NotCounted, ReadingType
<1>5. \A e \in Errors(b, radio.atten), c \in Slopes(b, radio.atten) :
        Counted(b, e, c) \in ReadingType
  BY <1>2, <1>3 DEF Counted, ReadingType
<1>6. CASE s.kind = "counts" /\ \E e \in Errors(b, radio.atten), c \in Slopes(b, radio.atten) :
             s.reading = Counted(b, e, c)
  BY <1>5, <1>6 DEF Counted, Shot
<1>7. CASE s.reading = NotCounted(b)
  BY <1>4, <1>7 DEF NotCounted, Shot
<1> QED
  BY <1>6, <1>7 DEF Sights

Sighted(seen) == \A b \in pending : seen[b] \in Sights(b)
CaptureKeeps == UNCHANGED <<mode, guard, floor, step, before, trustVars, turnVars, idle, best>>

LEMMA RelevelType ==
  ASSUME TypeOK, NEW seen, NEW b \in Bands
  PROVE  Relevels(seen, b) \subseteq Gains
<1>1. /\ GainMin \in Int /\ GainMax \in Int /\ GainMin <= GainMax /\ EmptyStep \in Nat
  BY SearchAssumption
<1>2. g[b] \in Gains /\ g[b] \in Int
  <2>1. g \in [Bands -> Gains]
    BY DEF TypeOK
  <2> QED
    BY <2>1, Ranges
<1>3. ClampGain(g[b] - EmptyStep) \in Gains
  BY <1>1, <1>2 DEF ClampGain, Within, Smaller, Larger, Gains
<1> QED
  BY <1>2, <1>3 DEF Relevels

LEMMA ReadsInv ==
  ASSUME IInv, pc = "read", NEW seen, Sighted(seen), CaptureReads(seen), CaptureKeeps
  PROVE  IInv'
<1>0. TypeOK /\ ReadInv /\ FloorInv /\ LevelInv
  BY DEF IInv
<1> USE DEF CaptureKeeps
<1>1. /\ g' \in [Bands -> Gains] /\ a' = a /\ result' = result
      /\ \A b \in Bands : IF b \in pending THEN g'[b] \in Relevels(seen, b) ELSE g'[b] = g[b]
      /\ radio' = [radio EXCEPT !.gain = g']
      /\ pending' \subseteq pending
      /\ pc' = IF pending' = {} THEN "move" ELSE "read"
      /\ reading' = [b \in Bands |->
           IF b \in pending' THEN None ELSE IF b \in pending THEN seen[b].reading ELSE reading[b]]
  BY DEF CaptureReads
<1>2. radio = [atten |-> a, gain |-> g]
  BY <1>0 DEF ReadInv
<1>3. radio' = [atten |-> a', gain |-> g'] /\ radio'.atten = radio.atten
  BY <1>1, <1>2
<1>4. \A b \in Bands \ pending' : Reads(b)'
  <2> TAKE b \in Bands \ pending'
  <2>1. CASE b \in pending
    <3>1. seen[b] \in Sights(b)
      BY <2>1 DEF Sighted
    <3>2. /\ seen[b].reading \in ReadingType
          /\ seen[b].reading.shot = [atten |-> a, gain |-> g[b]]
          /\ seen[b].reading.counts => seen[b].kind = "counts"
      BY <1>0, <1>2, <3>1, SightSays
    <3>3. seen[b].kind = "counts" => g'[b] = g[b]
      BY <1>1, <2>1 DEF Relevels
    <3>4. reading'[b] = seen[b].reading
      BY <1>1, <2>1
    <3> QED
      BY <1>1, <3>2, <3>3, <3>4 DEF Reads
  <2>2. CASE b \notin pending
    BY <1>0, <1>1, <2>2 DEF ReadInv, Reads
  <2> QED
    BY <2>1, <2>2
<1>5. ReadInv'
  BY <1>0, <1>1, <1>3, <1>4 DEF ReadInv, Kept
<1>6. TypeOK'
  <2>1. reading' \in ReadingsType
    <3>1. \A b \in Bands : b \in pending' \/ reading'[b] \in ReadingType
      BY <1>4 DEF Reads
    <3>2. \A b \in Bands : reading'[b] \in ReadingType \cup {None}
      BY <1>1, <3>1
    <3> QED
      BY <1>1, <3>2 DEF ReadingsType
  <2>2. empties' \in [Bands -> 0 .. EmptyRetakes]
    <3>1. empties' = [b \in Bands |->
            IF b \in pending /\ seen[b].kind = "empty" THEN empties[b] + 1 ELSE 0]
      BY DEF CaptureReads
    <3>2. \A b \in pending : seen[b].kind = "empty" => ~ (empties[b] >= EmptyRetakes)
      BY DEF CaptureReads, OutOfData
    <3>3. \A b \in Bands : empties[b] \in 0 .. EmptyRetakes
      BY <1>0 DEF TypeOK
    <3>4. \A b \in Bands : empties'[b] \in 0 .. EmptyRetakes
      BY <3>1, <3>2, <3>3, Ranges
    <3> QED
      BY <3>1, <3>4
  <2>3. attempt' \in 0 .. MaxRelevel + 1
    <3>1. attempt \in 0 .. MaxRelevel + 1 /\ MaxRelevel \in Nat
      BY <1>0, Ranges DEF TypeOK
    <3>2. attempt' \in {Smaller(attempt + 1, MaxRelevel + 1), attempt, 0}
      BY DEF CaptureReads
    <3> QED
      BY <3>1, <3>2 DEF Smaller
  <2>4. radio' \in [atten : [Bands -> Attens], gain : [Bands -> Gains]]
    BY <1>0, <1>1, <1>3 DEF TypeOK
  <2>5. pending' \in SUBSET Bands /\ pc' \in {"step", "read", "move", "done"}
    BY <1>0, <1>1 DEF TypeOK
  <2> QED
    BY <1>0, <1>1, <2>1, <2>2, <2>3, <2>4, <2>5, Zenon DEF TypeOK
<1>7. LeftWhereMeasured' /\ ConvergedIsLocked'
  BY <1>1 DEF LeftWhereMeasured, ConvergedIsLocked, Returned
<1>8. FloorInv'
  BY <1>0, <1>1, <1>3 DEF FloorInv
<1>9. LevelInv'
  BY <1>0, <1>1, <1>3 DEF LevelInv, Leveled, Room
<1> QED
  BY <1>5, <1>6, <1>7, <1>8, <1>9 DEF IInv

(* A capture that ends the search leaves the radio no lower.               *)
LEMMA CaptureEnds ==
  ASSUME IInv, pc = "read", CaptureKeeps,
         pc' = "done", reading' = NoReadings, pending' = {}, UNCHANGED <<empties, attempt>>,
         result' \in {[why |-> w, reading |-> NoReadings] : w \in {"fatal", "no data"}},
         g' \in [Bands -> Gains], radio' = [atten |-> a', gain |-> g'],
         a' \in [Bands -> Attens], \A b \in Bands : a[b] <= a'[b],
         mode = "joint" => Leveled(a')
  PROVE  IInv'
<1>0. TypeOK /\ ReadInv /\ FloorInv /\ LevelInv
  BY DEF IInv
<1> USE DEF CaptureKeeps
<1>1. NoReadings \in ReadingsType
  BY DEF NoReadings, ReadingsType
<1>2. TypeOK'
  <2>1. radio' \in [atten : [Bands -> Attens], gain : [Bands -> Gains]]
    OBVIOUS
  <2>2. result' \in [why : {"converged", "limited", "max steps", "idle", "no move",
                            "fatal", "no data"},
                     reading : ReadingsType]
    <3>1. PICK w \in {"fatal", "no data"} : result' = [why |-> w, reading |-> NoReadings]
      OBVIOUS
    <3> QED
      BY <1>1, <3>1
  <2>3. pending' \in SUBSET Bands /\ pc' \in {"step", "read", "move", "done"}
    OBVIOUS
  <2> QED
    BY <1>0, <1>1, <2>1, <2>2, <2>3, Zenon DEF TypeOK
<1>3. ReadInv'
  BY <1>0 DEF ReadInv, Kept
<1>4. FloorInv'
  <2>1. \A b \in Bands : FloorMin[b] <= floor[b] /\ floor[b] <= a[b] /\ a[b] <= a'[b]
    BY <1>0 DEF FloorInv
  <2>2. \A b \in Bands : a'[b] \in Nat
    BY Ranges
  <2>3. \A b \in Bands : floor[b] \in Nat /\ a[b] \in Nat /\ FloorMin[b] \in Nat
    BY <1>0, TypedNumbers
  <2>4. \A b \in Bands : FloorMin[b] <= a'[b] /\ floor[b] <= a'[b] /\ ~(a'[b] < floor[b])
    <3> TAKE b \in Bands
    <3>1. FloorMin[b] <= floor[b] /\ floor[b] <= a[b] /\ a[b] <= a'[b]
      BY <2>1
    <3>2. floor[b] \in Nat /\ a[b] \in Nat /\ FloorMin[b] \in Nat /\ a'[b] \in Nat
      BY <2>2, <2>3
    <3> QED
      BY <3>1, <3>2, Rising
  <2> QED
    BY <2>1, <2>4 DEF FloorInv
<1>5. LevelInv'
  BY <1>0 DEF LevelInv, Leveled, Room
<1>6. LeftWhereMeasured' /\ ConvergedIsLocked'
  <2>1. PICK w \in {"fatal", "no data"} : result' = [why |-> w, reading |-> NoReadings]
    OBVIOUS
  <2>2. ~Returned'
    BY <2>1 DEF Returned
  <2> QED
    BY <2>2 DEF LeftWhereMeasured, ConvergedIsLocked
<1> QED
  BY <1>2, <1>3, <1>4, <1>5, <1>6 DEF IInv

LEMMA CaptureInv == IInv /\ Capture => IInv'
<1> SUFFICES ASSUME IInv, Capture PROVE IInv'
  OBVIOUS
<1>0. TypeOK /\ ReadInv /\ FloorInv /\ LevelInv /\ pc = "read" /\ CaptureKeeps
  BY DEF IInv, Capture, CaptureKeeps
<1>1. PICK seen : /\ Sighted(seen)
                  /\ CaptureReads(seen) \/ CaptureFails(seen) \/ CaptureStops(seen)
  BY DEF Capture, Sighted
<1>2. radio = [atten |-> a, gain |-> g]
  BY <1>0 DEF ReadInv
<1>3. CASE CaptureReads(seen)
  BY <1>0, <1>1, <1>3, ReadsInv
<1>4. a \in [Bands -> Attens] /\ g \in [Bands -> Gains] /\ \A b \in Bands : a[b] <= a[b]
  <2>1. \A b \in Bands : a[b] \in Nat
    BY <1>0, TypedNumbers
  <2>2. a \in [Bands -> Attens] /\ g \in [Bands -> Gains]
    BY <1>0 DEF TypeOK
  <2> QED
    BY <2>1, <2>2
<1>5. CASE CaptureFails(seen)
  <2>1. /\ g' \in [Bands -> Gains] /\ radio' = [radio EXCEPT !.gain = g']
        /\ pc' = "done" /\ reading' = NoReadings /\ pending' = {}
        /\ result' = [why |-> "no data", reading |-> NoReadings]
        /\ UNCHANGED <<a, empties, attempt>>
    BY <1>5 DEF CaptureFails
  <2>2. radio' = [atten |-> a', gain |-> g'] /\ a' = a
    BY <1>2, <2>1
  <2>3. mode = "joint" => Leveled(a')
    BY <1>0, <2>2 DEF LevelInv
  <2> QED
    BY <1>0, <1>4, <2>1, <2>2, <2>3, CaptureEnds
<1>6. CASE CaptureStops(seen)
  <2>1. PICK b \in pending : a' = FatalAttens(b)
    BY <1>6 DEF CaptureStops
  <2>2. /\ g' = g /\ radio' = [atten |-> a', gain |-> g']
        /\ pc' = "done" /\ reading' = NoReadings /\ pending' = {}
        /\ result' = [why |-> "fatal", reading |-> NoReadings]
        /\ UNCHANGED <<empties, attempt>>
    BY <1>6 DEF CaptureStops
  <2>3. CASE mode = "joint"
    <3>1. Leveled(a) /\ ClipStep \in Nat
      BY <1>0, <2>3, Ranges DEF LevelInv
    <3>2. a' = AttensAt(Smaller(OffsetMax, a[Strongest] + ClipStep))
      BY <2>1, <2>3 DEF FatalAttens
    <3>3. /\ a' \in [Bands -> Attens] /\ Leveled(a')
          /\ \A d \in Bands : a[d] <= a'[d]
      BY <1>4, <3>1, <3>2, OffsetUp
    <3> QED
      BY <1>0, <1>4, <2>2, <3>3, CaptureEnds
  <2>4. CASE mode # "joint"
    <3>1. b \in Bands /\ a' = [a EXCEPT ![b] = Smaller(AttenMax, a[b] + ClipStep)]
      BY <1>0, <2>1, <2>4 DEF FatalAttens, TypeOK
    <3>2. /\ a' \in [Bands -> Attens] /\ \A d \in Bands : a[d] <= a'[d]
      <4>1. a[b] \in Nat /\ a[b] <= AttenMax /\ ClipStep \in Nat /\ AttenMax \in Nat
        BY <1>0, <3>1, Ranges, TypedNumbers
      <4>2. Smaller(AttenMax, a[b] + ClipStep) \in Attens /\ a[b] <= Smaller(AttenMax, a[b] + ClipStep)
        BY <4>1 DEF Smaller, Attens
      <4> QED
        BY <1>4, <3>1, <4>2
    <3> QED
      BY <1>0, <1>4, <2>2, <2>4, <3>2, CaptureEnds
  <2> QED
    BY <2>3, <2>4
<1> QED
  BY <1>1, <1>3, <1>5, <1>6

-----------------------------------------------------------------------------
(* What a move keeps                                                       *)

(* A plan keeps the best step, if the step is read whole, and may only     *)
(* raise floors; the joint lock leaves the offset its room.                *)
Plans ==
  /\ UNCHANGED <<mode, guard>>
  /\ best' = best \/ (Trusted /\ \E w \in Nat : best' = Keep(w))
  /\ cap' \in 1 .. MaxMove /\ improving' \in 0 .. 2 /\ undone' \in BOOLEAN
  /\ prevWorst' \in Nat \cup {None}
  /\ active' \in Bands \cup {None} /\ turn' \in Nat
  /\ floor' \in [Bands -> Attens] /\ \A b \in Bands : floor[b] <= floor'[b]
  /\ mode = "joint" => Room(floor')

LEMMA AtMove ==
  ASSUME IInv, pc = "move"
  PROVE  /\ radio = [atten |-> a, gain |-> g]
         /\ a \in [Bands -> Attens] /\ g \in [Bands -> Gains] /\ reading \in ReadingsType
         /\ \A b \in Bands :
              /\ Reads(b) /\ reading[b] \in ReadingType /\ Err(b) \in Int
              /\ reading[b].shot \in ShotType
              /\ reading[b].shot.atten = a /\ reading[b].shot.gain \in Gains
              /\ reading[b].counts => reading[b].shot = [atten |-> a, gain |-> g[b]]
              /\ FloorMin[b] <= floor[b] /\ floor[b] <= a[b] /\ FloorMin[b] <= a[b]
<1>1. TypeOK /\ ReadInv /\ FloorInv
  BY DEF IInv
<1>2. radio = [atten |-> a, gain |-> g] /\ \A b \in Bands : Reads(b)
  BY <1>1 DEF ReadInv
<1>3. a \in [Bands -> Attens] /\ g \in [Bands -> Gains] /\ reading \in ReadingsType
  BY <1>1 DEF TypeOK
<1>4. ASSUME NEW b \in Bands
      PROVE  /\ Reads(b) /\ reading[b] \in ReadingType /\ Err(b) \in Int
             /\ reading[b].shot \in ShotType
             /\ reading[b].shot.atten = a /\ reading[b].shot.gain \in Gains
             /\ reading[b].counts => reading[b].shot = [atten |-> a, gain |-> g[b]]
  <2>1. /\ reading[b] \in ReadingType /\ reading[b].shot.atten = a
        /\ reading[b].counts => reading[b].shot.gain = g[b]
    BY <1>2 DEF Reads
  <2>2. reading[b].shot \in ShotType /\ Err(b) \in Int
    BY <2>1 DEF ReadingType, Err
  <2>3. /\ reading[b].shot.gain \in Gains
        /\ reading[b].shot = [atten |-> reading[b].shot.atten, gain |-> reading[b].shot.gain]
    BY <2>2 DEF ShotType
  <2>4. reading[b].counts => reading[b].shot = [atten |-> a, gain |-> g[b]]
    BY <2>1, <2>3
  <2> QED
    BY <1>2, <2>1, <2>2, <2>3, <2>4
<1>5. \A b \in Bands : FloorMin[b] <= floor[b] /\ floor[b] <= a[b] /\ FloorMin[b] <= a[b]
  <2> TAKE b \in Bands
  <2>1. FloorMin[b] <= floor[b] /\ floor[b] <= a[b]
    BY <1>1 DEF FloorInv
  <2>2. FloorMin[b] \in Nat /\ floor[b] \in Nat /\ a[b] \in Nat
    BY <1>1, TypedNumbers
  <2> QED
    BY <2>1, <2>2
<1> QED
  BY <1>2, <1>3, <1>4, <1>5

BestType ==
  [worst : Nat, a : [Bands -> Attens], g : [Bands -> Gains], reading : ReadingsType]

LEMMA PlanKeeps ==
  ASSUME IInv, pc = "move", Plans
  PROVE  /\ best' \in BestType \cup {None}
         /\ best' # None => Kept(best)'
         /\ \A b \in Bands : FloorMin[b] <= floor'[b] /\ floor'[b] \in Nat
<1>1. TypeOK /\ ReadInv /\ LevelInv
  BY DEF IInv
<1>2. ASSUME NEW w \in Nat, Trusted, best' = Keep(w)
      PROVE  best' \in BestType /\ Kept(best)'
  <2>1. best' = [worst |-> w, a |-> a, g |-> g, reading |-> reading]
    BY <1>2 DEF Keep
  <2>2. best' \in BestType
    BY <2>1, AtMove DEF BestType
  <2>3. \A b \in Bands : reading[b].counts
    BY <1>2 DEF Trusted, Ok
  <2>4. mode' = "joint" => Leveled(a)
    BY <1>1 DEF LevelInv, Plans
  <2>5. /\ best'.a = a /\ best'.g = g /\ best'.reading = reading
    BY <2>1
  <2>6. \A b \in Bands : /\ reading[b] \in ReadingType
                         /\ reading[b].shot = [atten |-> a, gain |-> g[b]]
                         /\ FloorMin[b] <= a[b]
    BY <2>3, AtMove
  <2> QED
    BY <2>2, <2>3, <2>4, <2>5, <2>6 DEF Kept
<1>3. ASSUME best' = best
      PROVE  best' \in BestType \cup {None} /\ (best' # None => Kept(best)')
  <2>1. best' \in BestType \cup {None}
    BY <1>1, <1>3 DEF TypeOK, BestType
  <2>2. best' # None => Kept(best)'
    BY <1>1, <1>3 DEF ReadInv, Kept, Plans
  <2> QED
    BY <2>1, <2>2
<1>4. \A b \in Bands : FloorMin[b] <= floor'[b] /\ floor'[b] \in Nat
  <2> TAKE b \in Bands
  <2>1. FloorMin[b] <= floor[b] /\ floor[b] <= floor'[b] /\ floor'[b] \in Nat
    BY AtMove, Ranges DEF Plans
  <2>2. FloorMin[b] \in Nat /\ floor[b] \in Nat
    BY <1>1, TypedNumbers
  <2> QED
    BY <2>1, <2>2
<1> QED
  BY <1>2, <1>3, <1>4 DEF Plans

(* The search goes on with attenuations above every floor.                 *)
LEMMA NextInv ==
  ASSUME IInv, pc = "move", Plans, NEW to \in [Bands -> Attens], NextStep(to),
         \A b \in Bands : floor'[b] <= to[b], mode = "joint" => Leveled(to),
         step # MaxSteps - 1, idle' \in 0 .. IdleSteps
  PROVE  IInv'
<1>1. TypeOK /\ ReadInv /\ FloorInv /\ LevelInv /\ LeftWhereMeasured /\ ConvergedIsLocked
  BY DEF IInv
<1>2. /\ pc' = "step" /\ step' = step + 1 /\ a' = to /\ g' \in [Bands -> Gains]
      /\ lastMove' = Moved(to) /\ reading' = NoReadings /\ before' = g'
      /\ UNCHANGED <<radio, result, pending, attempt, empties>>
  BY DEF NextStep
<1>3. TypeOK'
  <2>1. lastMove' \in [Bands -> -AttenMax .. AttenMax]
    <3>1. \A b \in Bands : to[b] \in 0 .. AttenMax /\ a[b] \in 0 .. AttenMax /\ AttenMax \in Nat
      BY AtMove, Ranges DEF Attens
    <3>2. \A b \in Bands : to[b] - a[b] \in -AttenMax .. AttenMax
      BY <3>1
    <3> QED
      BY <1>2, <3>2 DEF Moved
  <2>2. step' \in 0 .. MaxSteps - 1
    <3>1. step \in 0 .. MaxSteps - 1 /\ MaxSteps \in Nat
      BY <1>1, Ranges DEF TypeOK
    <3> QED
      BY <1>2, <3>1
  <2>3. reading' \in ReadingsType
    BY <1>2 DEF NoReadings, ReadingsType
  <2>4. best' \in BestType \cup {None}
    BY PlanKeeps
  <2>5. a' \in [Bands -> Attens] /\ pc' \in {"step", "read", "move", "done"}
    BY <1>2
  <2> QED
    BY <1>1, <1>2, <2>1, <2>2, <2>3, <2>4, <2>5, Zenon DEF TypeOK, Plans, BestType
<1>4. ReadInv'
  BY <1>2, PlanKeeps DEF ReadInv
<1>5. FloorInv'
  BY <1>1, <1>2, PlanKeeps DEF FloorInv
<1>6. LevelInv'
  BY <1>1, <1>2 DEF LevelInv, Leveled, Room, Plans
<1>7. LeftWhereMeasured' /\ ConvergedIsLocked'
  BY <1>2 DEF LeftWhereMeasured, ConvergedIsLocked, Returned
<1> QED
  BY <1>3, <1>4, <1>5, <1>6, <1>7 DEF IInv

Reasons == {"converged", "limited", "max steps", "idle", "no move"}

LEMMA FinishType ==
  ASSUME IInv, pc = "move", Plans, UNCHANGED lastMove,
         NEW why \in Reasons, NEW at \in [Bands -> Attens], NEW ga \in [Bands -> Gains],
         NEW rs \in ReadingsType, Finish(why, at, ga, rs)
  PROVE  TypeOK'
<1>1. TypeOK
  BY DEF IInv
<1>2. /\ pc' = "done" /\ a' = at /\ g' = ga /\ radio' = [atten |-> at, gain |-> ga]
      /\ result' = [why |-> why, reading |-> rs]
      /\ UNCHANGED <<step, idle, readVars>>
  BY DEF Finish
<1>3. radio' \in [atten : [Bands -> Attens], gain : [Bands -> Gains]]
  BY <1>2
<1>4. result' \in [why : {"converged", "limited", "max steps", "idle", "no move",
                          "fatal", "no data"},
                   reading : ReadingsType]
  BY <1>2 DEF Reasons
<1>5. pc' \in {"step", "read", "move", "done"} /\ a' \in [Bands -> Attens] /\ g' \in [Bands -> Gains]
  BY <1>2
<1>6. best' \in BestType \cup {None}
  BY PlanKeeps
<1> QED
  BY <1>1, <1>2, <1>3, <1>4, <1>5, <1>6, Zenon DEF TypeOK, Plans, BestType

(* The search ends at a step that was read whole.                          *)
LEMMA HereInv ==
  ASSUME IInv, pc = "move", Plans, UNCHANGED lastMove,
         NEW why \in {"converged", "limited", "no move"}, FinishHere(why),
         Trusted, \A b \in Bands : floor'[b] <= a[b],
         why = "converged" =>
           \A b \in Bands : ~Clips(b) /\ (mode # "joint" => Abs(Err(b)) <= Tol)
  PROVE  IInv'
<1>1. TypeOK /\ ReadInv /\ FloorInv /\ LevelInv
  BY DEF IInv
<1>2. /\ pc' = "done" /\ a' = a /\ g' = g /\ radio' = [atten |-> a, gain |-> g]
      /\ result' = [why |-> why, reading |-> reading] /\ mode' = mode
  BY DEF FinishHere, Finish, Plans
<1>3. /\ a \in [Bands -> Attens] /\ g \in [Bands -> Gains] /\ reading \in ReadingsType
      /\ \A b \in Bands : reading[b].shot = [atten |-> a, gain |-> g[b]]
  <2>1. \A b \in Bands : reading[b].counts
    BY DEF Trusted, Ok
  <2> QED
    BY <2>1, AtMove
<1>4. TypeOK'
  BY <1>3, FinishType DEF FinishHere, Reasons
<1>5. ReadInv'
  BY <1>2, PlanKeeps DEF ReadInv
<1>6. FloorInv'
  <2>1. \A b \in Bands : FloorMin[b] <= floor'[b] /\ FloorMin[b] <= a[b]
    BY AtMove, PlanKeeps
  <2>2. \A b \in Bands : ~(a[b] < floor'[b])
    <3> TAKE b \in Bands
    <3>1. a[b] \in Nat /\ floor'[b] \in Nat /\ floor'[b] <= a[b]
      BY <1>1, PlanKeeps, TypedNumbers
    <3> QED
      BY <3>1, NotBelow
  <2> QED
    BY <1>2, <2>1, <2>2 DEF FloorInv
<1>7. LevelInv'
  BY <1>1, <1>2 DEF LevelInv, Leveled, Room, Plans
<1>8. LeftWhereMeasured'
  <2>1. result'.reading = reading /\ radio'.atten = a /\ radio'.gain = g
    BY <1>2
  <2>2. \A b \in Bands : reading[b].shot.atten = a /\ reading[b].shot.gain = g[b]
    BY <1>3, ShotAt
  <2> QED
    BY <2>1, <2>2 DEF LeftWhereMeasured
<1>9. ConvergedIsLocked'
  <2>1. \A b \in Bands : reading[b].counts
    BY DEF Trusted, Ok
  <2> QED
    BY <1>2, <2>1 DEF ConvergedIsLocked, Clips, Ok, Err
<1> QED
  BY <1>4, <1>5, <1>6, <1>7, <1>8, <1>9 DEF IInv

(* The search ends at its best step, or at the last one if there is none.  *)
LEMMA BestInv ==
  ASSUME IInv, pc = "move", Plans, UNCHANGED lastMove,
         NEW why \in {"max steps", "idle"}, LeaveAtBest(why)
  PROVE  IInv'
<1>1. TypeOK /\ ReadInv /\ FloorInv /\ LevelInv
  BY DEF IInv
<1>2. CASE best' # None
  <2>1. best' \in BestType /\ Kept(best)'
    BY <1>2, PlanKeeps
  <2>2. PICK at \in [Bands -> Attens], ga \in [Bands -> Gains], rs \in ReadingsType :
          at = best'.a /\ ga = best'.g /\ rs = best'.reading
    BY <2>1 DEF BestType
  <2>3. Finish(why, at, ga, rs)
    BY <1>2, <2>2 DEF LeaveAtBest
  <2>4. /\ pc' = "done" /\ a' = at /\ g' = ga /\ radio' = [atten |-> at, gain |-> ga]
        /\ result' = [why |-> why, reading |-> rs] /\ mode' = mode
    BY <2>3 DEF Finish, Plans
  <2>5. TypeOK'
    BY <2>3, FinishType DEF Reasons
  <2>6. /\ mode = "joint" => Leveled(at)
        /\ \A b \in Bands : rs[b].shot = [atten |-> at, gain |-> ga[b]] /\ FloorMin[b] <= at[b]
    BY <2>1, <2>2, <2>4 DEF Kept
  <2>7. ReadInv'
    BY <2>1, <2>4 DEF ReadInv
  <2>8. FloorInv'
    BY <2>4, <2>6, PlanKeeps DEF FloorInv
  <2>9. LevelInv'
    BY <2>4, <2>6 DEF LevelInv, Leveled, Room, Plans
  <2>10. LeftWhereMeasured' /\ ConvergedIsLocked'
    <3>1. /\ result'.reading = rs /\ result'.why # "converged"
          /\ radio'.atten = at /\ radio'.gain = ga
      BY <2>4
    <3>2. \A b \in Bands : rs[b].shot.atten = at /\ rs[b].shot.gain = ga[b]
      BY <2>6, ShotAt
    <3> QED
      BY <3>1, <3>2 DEF LeftWhereMeasured, ConvergedIsLocked
  <2> QED
    BY <2>5, <2>7, <2>8, <2>9, <2>10 DEF IInv
<1>3. CASE best' = None
  <2>1. PICK ga : ga = GainsOfLast
    OBVIOUS
  <2>2. ga \in [Bands -> Gains]
    BY <2>1, AtMove DEF GainsOfLast
  <2>3. Finish(why, a, ga, reading)
    BY <1>3, <2>1 DEF LeaveAtBest
  <2>4. /\ pc' = "done" /\ a' = a /\ g' = ga /\ radio' = [atten |-> a, gain |-> ga]
        /\ result' = [why |-> why, reading |-> reading] /\ mode' = mode
    BY <2>3 DEF Finish, Plans
  <2>5. TypeOK'
    BY <2>2, <2>3, AtMove, FinishType DEF Reasons
  <2>6. ReadInv'
    BY <1>3, <2>4 DEF ReadInv
  <2>7. FloorInv'
    BY <2>4, AtMove, PlanKeeps DEF FloorInv
  <2>8. LevelInv'
    BY <1>1, <2>4 DEF LevelInv, Leveled, Room, Plans
  <2>9. \A b \in Bands : /\ reading[b].shot.atten = a
                         /\ reading[b].shot.gain = ga[b] \/ (mode = "joint" /\ ~reading[b].counts)
    <3> TAKE b \in Bands
    <3>1. /\ reading[b].shot.atten = a
          /\ reading[b].counts => reading[b].shot.gain = g[b]
      BY AtMove DEF Reads
    <3> QED
      BY <2>1, <3>1 DEF GainsOfLast
  <2>10. LeftWhereMeasured' /\ ConvergedIsLocked'
    BY <2>4, <2>9 DEF LeftWhereMeasured, ConvergedIsLocked
  <2> QED
    BY <2>5, <2>6, <2>7, <2>8, <2>10 DEF IInv
<1> QED
  BY <1>2, <1>3

(* Where a plan goes, the search goes on or ends in order.                 *)
LEMMA GoInv ==
  ASSUME IInv, pc = "move", Plans, step # MaxSteps - 1,
         NEW to \in [Bands -> Attens], NEW counts \in BOOLEAN, NEW idles \in BOOLEAN,
         Go(to, counts, idles),
         \A b \in Bands : floor'[b] <= to[b], mode = "joint" => Leveled(to),
         counts => Trusted
  PROVE  IInv'
<1>1. CASE to = a /\ counts
  <2>1. FinishHere("no move") /\ UNCHANGED lastMove
    BY <1>1 DEF Go
  <2> QED
    BY <1>1, <2>1, HereInv
<1>2. CASE ~(to = a /\ counts)
  <2> DEFINE n == IF to = a /\ idles THEN idle + 1 ELSE 0
  <2>1. n \in Nat
    <3>1. idle \in 0 .. IdleSteps
      BY DEF IInv, TypeOK
    <3> QED
      BY <3>1, Ranges
  <2>2. \/ n >= IdleSteps /\ LeaveAtBest("idle") /\ UNCHANGED lastMove
        \/ n < IdleSteps /\ NextStep(to) /\ idle' = n
    <3>1. n >= IdleSteps \/ n < IdleSteps
      BY <2>1, Ranges
    <3>2. IF n >= IdleSteps THEN LeaveAtBest("idle") /\ UNCHANGED lastMove
          ELSE NextStep(to) /\ idle' = n
      BY <1>2 DEF Go
    <3> HIDE DEF n
    <3> QED
      BY <3>1, <3>2
  <2>3. CASE LeaveAtBest("idle") /\ UNCHANGED lastMove
    BY <2>3, BestInv
  <2>4. CASE n < IdleSteps /\ NextStep(to) /\ idle' = n
    <3>1. idle' \in 0 .. IdleSteps
      BY <2>1, <2>4, Ranges
    <3> QED
      BY <2>4, <3>1, NextInv
  <2> QED
    BY <2>2, <2>3, <2>4
<1> QED
  BY <1>1, <1>2

-----------------------------------------------------------------------------
(* The numbers of a plan                                                   *)

LEMMA Halved ==
  ASSUME NEW c \in Nat \ {0}, NEW lim \in Nat, c <= lim
  PROVE  Larger((c + 1) \div 2, 1) \in 1 .. lim
  BY DEF Larger

LEMMA Counted2 ==
  ASSUME NEW n \in 0 .. 2
  PROVE  Smaller(n + 1, 2) \in 0 .. 2 /\ Smaller(0, 2) \in 0 .. 2
  BY DEF Smaller

LEMMA Times ==
  ASSUME NEW v \in Nat \ {0}, NEW w \in Nat \ {0}
  PROVE  v * w \in Nat \ {0}
<1>1. v * w \in Int /\ v >= 1 /\ w >= 1
  OBVIOUS
<1>2. v * w >= 1
  BY Z3
<1> QED
  BY <1>1, <1>2

LEMMA AbsNat ==
  ASSUME NEW x \in Int
  PROVE  Abs(x) \in Nat
  BY DEF Abs

LEMMA ClipUpType ==
  ASSUME NEW over \in Int
  PROVE  ClipUp(over) \in Nat \ {0}
<1>1. MaxMove \in Nat \ {0} /\ ClipStep \in Nat \ {0}
  BY Ranges
<1> DEFINE q == over \div ClipStep
           k == Larger(1, q)
<1>2. q \in Int
  BY <1>1
<1> HIDE DEF q
<1>3. k \in Nat \ {0}
  BY <1>2 DEF Larger
<1> HIDE DEF k
<1>4. ClipStep * k \in Nat \ {0}
  BY <1>1, <1>3, Times
<1>5. Smaller(MaxMove, ClipStep * k) \in Nat \ {0}
  BY <1>1, <1>4 DEF Smaller
<1>6. FineStep(over) = Smaller(MaxMove, ClipStep * k)
  BY DEF FineStep, k, q
<1> QED
  BY <1>1, <1>5, <1>6 DEF ClipUp

LEMMA TrustType ==
  ASSUME TypeOK, NEW worst \in Nat \cup {None}, Trust(worst)
  PROVE  cap' \in 1 .. MaxMove /\ improving' \in 0 .. 2 /\ undone' \in BOOLEAN
<1>1. cap \in 1 .. MaxMove /\ improving \in 0 .. 2 /\ MaxMove \in Nat \ {0}
  BY Ranges DEF TypeOK
<1> DEFINE better == IF worst < prevWorst THEN improving + 1 ELSE 0
<1>2. Smaller(better, 2) \in 0 .. 2
  BY <1>1, Counted2
<1>3. Larger((cap + 1) \div 2, 1) \in 1 .. MaxMove
  BY <1>1, Halved
<1>4. MaxMove \in 1 .. MaxMove
  BY <1>1
<1>5. \/ undone' = FALSE /\ UNCHANGED <<cap, improving>>
      \/ cap' = Larger((cap + 1) \div 2, 1) /\ improving' = 0 /\ undone' = TRUE
      \/ /\ undone' = FALSE /\ improving' = Smaller(better, 2)
         /\ cap' = IF better >= 2 THEN MaxMove ELSE cap
  BY DEF Trust
<1> HIDE DEF better
<1>6. 0 \in 0 .. 2
  OBVIOUS
<1> QED
  BY <1>1, <1>2, <1>3, <1>4, <1>5, <1>6

(* The worst error of any bands.                                           *)
LEMMA WorstType ==
  ASSUME IInv, pc = "move", NEW B \in SUBSET Bands, B # {}
  PROVE  LargestOf({Abs(Err(b)) : b \in B}) \in Nat
<1> DEFINE f == [b \in Bands |-> Abs(Err(b))]
<1>1. \A b \in Bands : Abs(Err(b)) \in Nat
  BY AtMove, AbsNat
<1>2. f \in [Bands -> Int] /\ \A b \in Bands : f[b] \in Nat /\ f[b] = Abs(Err(b))
  BY <1>1
<1>3. {Abs(Err(b)) : b \in B} = {f[b] : b \in B}
  BY <1>2
<1> HIDE DEF f
<1>4. \E d \in B : LargestOf({f[b] : b \in B}) = f[d]
  BY <1>2, LargestIs
<1> QED
  BY <1>2, <1>3, <1>4

LEMMA Remembers ==
  ASSUME NEW clean \in BOOLEAN, NEW w, Remember(clean, w), clean => Trusted /\ w \in Nat
  PROVE  best' = best \/ (Trusted /\ \E v \in Nat : best' = Keep(v))
  BY DEF Remember

LEMMA PlansHere ==
  ASSUME IInv, UNCHANGED <<mode, guard, floor, trustVars, turnVars>>,
         best' = best \/ (Trusted /\ \E v \in Nat : best' = Keep(v))
  PROVE  Plans
<1>1. TypeOK /\ LevelInv
  BY DEF IInv
<1>2. \A b \in Bands : floor[b] \in Nat
  BY <1>1, TypedNumbers
<1>3. \A b \in Bands : floor[b] <= floor'[b]
  BY <1>2
<1>4. mode = "joint" => Room(floor')
  BY <1>1 DEF LevelInv, Room
<1> QED
  BY <1>1, <1>3, <1>4 DEF Plans, TypeOK

LEMMA RaisedFloors ==
  ASSUME IInv, pc = "move", NEW jointClips \in BOOLEAN, RaiseFloors(jointClips)
  PROVE  /\ floor' \in [Bands -> Attens]
         /\ \A b \in Bands : floor[b] <= floor'[b]
<1>1. TypeOK
  BY DEF IInv
<1>2. ASSUME NEW b \in Bands
      PROVE  /\ RaiseTo(b, jointClips) \in Attens /\ floor[b] \in Attens
             /\ Larger(floor[b], RaiseTo(b, jointClips)) \in Attens
             /\ floor[b] <= Larger(floor[b], RaiseTo(b, jointClips)) /\ floor[b] <= floor[b]
  <2>1. ClipUp(-Err(b)) \in Nat \ {0} /\ ClipStep \in Nat \ {0} /\ AttenMax \in Nat
    <3>1. Err(b) \in Int
      BY AtMove
    <3>2. -Err(b) \in Int
      BY <3>1
    <3> QED
      BY <3>2, ClipUpType, Ranges
  <2>2. a[b] \in Nat /\ floor[b] \in Nat
    BY <1>1, TypedNumbers
  <2> DEFINE up == IF ~jointClips THEN ClipUp(-Err(b))
                   ELSE IF Clips(b) THEN Larger(ClipStep, ClipUp(-Err(b))) ELSE ClipStep
  <2>3. up \in Nat
    BY <2>1 DEF Larger
  <2>4. RaiseTo(b, jointClips) = Smaller(AttenMax, a[b] + up)
    BY DEF RaiseTo
  <2> HIDE DEF up
  <2>5. RaiseTo(b, jointClips) \in Attens
    BY <2>1, <2>2, <2>3, <2>4 DEF Smaller, Attens
  <2>6. floor[b] \in Attens
    BY <1>1 DEF TypeOK
  <2>7. /\ Larger(floor[b], RaiseTo(b, jointClips)) \in {floor[b], RaiseTo(b, jointClips)}
        /\ floor[b] <= Larger(floor[b], RaiseTo(b, jointClips)) /\ floor[b] <= floor[b]
    <3>1. PICK r : r = RaiseTo(b, jointClips)
      OBVIOUS
    <3>2. r \in Nat
      BY <2>5, <3>1, Ranges
    <3>3. Larger(floor[b], r) \in {floor[b], r} /\ floor[b] <= Larger(floor[b], r) /\ floor[b] <= floor[b]
      BY <2>2, <3>2 DEF Larger
    <3> QED
      BY <3>1, <3>3
  <2> QED
    BY <2>5, <2>6, <2>7
<1>3. floor' = [b \in Bands |-> IF b \in Raised(jointClips)
                                THEN Larger(floor[b], RaiseTo(b, jointClips)) ELSE floor[b]]
  BY DEF RaiseFloors
<1> QED
  BY <1>2, <1>3

LEMMA NewAttensType ==
  ASSUME floor' \in [Bands -> Attens], a \in [Bands -> Attens], NEW mv \in [Bands -> Int]
  PROVE  /\ NewAttens(mv) \in [Bands -> Attens]
         /\ \A b \in Bands : floor'[b] <= NewAttens(mv)[b]
<1>1. ASSUME NEW b \in Bands
      PROVE  /\ Within(a[b] + mv[b], floor'[b], AttenMax) \in Attens
             /\ floor'[b] <= Within(a[b] + mv[b], floor'[b], AttenMax)
  <2>1. a[b] \in 0 .. AttenMax /\ floor'[b] \in 0 .. AttenMax /\ mv[b] \in Int /\ AttenMax \in Nat
    BY Ranges DEF Attens
  <2> QED
    BY <2>1 DEF Within, Smaller, Larger, Attens
<1> QED
  BY <1>1 DEF NewAttens

LEMMA PlanType ==
  ASSUME IInv, pc = "move", NEW mv, NEW jointClips \in BOOLEAN, Plan(mv, jointClips)
  PROVE  /\ cap' \in 1 .. MaxMove /\ improving' \in 0 .. 2 /\ undone' \in BOOLEAN
         /\ prevWorst' \in Nat \cup {None}
         /\ active' \in Bands \cup {None} /\ turn' \in Nat
<1>1. TypeOK
  BY DEF IInv
<1> DEFINE fixed == Fixed(jointClips)
           worst == WorstOf(fixed)
<1>2. worst \in Nat \cup {None}
  <2>1. Helpable(fixed) \in SUBSET Bands
    BY DEF Helpable
  <2>2. Helpable(fixed) # {} => LargestOf({Abs(Err(b)) : b \in Helpable(fixed)}) \in Nat
    BY <2>1, WorstType
  <2> QED
    BY <2>2 DEF WorstOf
<1>3. Trust(worst)
  BY DEF Plan
<1>4. cap' \in 1 .. MaxMove /\ improving' \in 0 .. 2 /\ undone' \in BOOLEAN
  BY <1>1, <1>2, <1>3, TrustType
<1>5. active \in Bands \cup {None} /\ turn \in Nat /\ TurnSteps \in Nat
  BY <1>1, SearchAssumption DEF TypeOK
<1>6. CASE prevWorst' = worst /\ UNCHANGED turnVars
  BY <1>2, <1>4, <1>5, <1>6
<1>7. CASE Pingpong(mv, fixed, worst)
  <2>1. PICK aimed \in SUBSET (Bands \ fixed) :
          \E b \in IF Nexts(Bands \ fixed, aimed) = {} THEN {None} ELSE Nexts(Bands \ fixed, aimed) :
            TakeTurn(b) /\ Baseline(b, worst)
    BY <1>7 DEF Pingpong
  <2>2. PICK b \in IF Nexts(Bands \ fixed, aimed) = {} THEN {None} ELSE Nexts(Bands \ fixed, aimed) :
          TakeTurn(b) /\ Baseline(b, worst)
    BY <2>1
  <2>3. Nexts(Bands \ fixed, aimed) \subseteq Bands
    BY DEF Nexts
  <2>4. b \in Bands \cup {None}
    BY <2>2, <2>3
  <2>5. b # None => Abs(Err(b)) \in Nat
    BY <2>4, AtMove, AbsNat
  <2>6. prevWorst' \in Nat \cup {None}
    BY <1>2, <2>2, <2>5 DEF Baseline
  <2>7. active' = b
    BY <2>2 DEF TakeTurn
  <2>8. turn' \in {turn, 0, Smaller(turn + 1, TurnSteps), Smaller(1, TurnSteps)}
    BY <2>2 DEF TakeTurn
  <2>9. turn' \in Nat
    BY <1>5, <2>8 DEF Smaller
  <2> QED
    BY <1>4, <2>4, <2>6, <2>7, <2>9
<1>8. (prevWorst' = worst /\ UNCHANGED turnVars) \/ Pingpong(mv, fixed, worst)
  BY DEF Plan
<1> QED
  BY <1>6, <1>7, <1>8

-----------------------------------------------------------------------------
(* The moves                                                               *)

LEMMA MoveBandsInv == IInv /\ MoveBands => IInv'
<1> SUFFICES ASSUME IInv, MoveBands PROVE IInv'
  OBVIOUS
<1>0. pc = "move" /\ mode # "joint" /\ UNCHANGED <<mode, guard>> /\ TypeOK
  BY DEF MoveBands, IInv
<1>1. PICK jointClips \in JointGuardReads :
        /\ Remember(Trusted /\ Clean(jointClips), Worst)
        /\ IF Clean(jointClips) /\ \A b \in Bands : In(b) \/ Stuck(b)
           THEN Stop(IF \A b \in Bands : In(b) THEN "converged" ELSE "limited")
           ELSE IF step = MaxSteps - 1 THEN LastStep
           ELSE \E mv \in [Bands -> -MaxMove - ClipStep .. MaxMove + ClipStep] :
                  /\ RaiseFloors(jointClips)
                  /\ Plan(mv, jointClips)
                  /\ Go(NewAttens(mv), Trusted, IdleBands)
  BY DEF MoveBands
<1>2. jointClips \in BOOLEAN
  <2>1. JointSlopes(radio.atten) \subseteq BOOLEAN
    BY <1>0, SearchAssumption DEF TypeOK
  <2> QED
    BY <2>1 DEF JointGuardReads
<1>3. best' = best \/ (Trusted /\ \E v \in Nat : best' = Keep(v))
  <2>1. Worst \in Nat
    BY <1>0, WorstType, Ranges DEF Worst
  <2>2. (Trusted /\ Clean(jointClips)) \in BOOLEAN
    OBVIOUS
  <2> QED
    BY <1>1, <2>1, <2>2, Remembers
<1>4. CASE Clean(jointClips) /\ \A b \in Bands : In(b) \/ Stuck(b)
  <2>1. PICK why : why = IF \A b \in Bands : In(b) THEN "converged" ELSE "limited"
    OBVIOUS
  <2>2. FinishHere(why) /\ UNCHANGED <<floor, trustVars, turnVars>>
    BY <1>1, <1>4, <2>1 DEF Stop
  <2>3. Plans
    BY <1>0, <1>3, <2>2, PlansHere
  <2>4. Trusted
    BY <1>4 DEF Trusted, In, Stuck
  <2>5. why = "converged" => \A b \in Bands : ~Clips(b) /\ Abs(Err(b)) <= Tol
    BY <1>4, <2>1 DEF Clean, In
  <2>6. \A b \in Bands : floor'[b] <= a[b]
    BY <1>0, <2>2, AtMove
  <2>7. why \in {"converged", "limited", "no move"} /\ UNCHANGED lastMove
    BY <2>1, <2>2
  <2> QED
    BY <1>0, <2>2, <2>3, <2>4, <2>5, <2>6, <2>7, HereInv
<1>5. CASE LastStep
  <2>1. LeaveAtBest("max steps") /\ UNCHANGED <<floor, trustVars, turnVars>>
    BY <1>5 DEF LastStep
  <2>2. Plans
    BY <1>0, <1>3, <2>1, PlansHere
  <2> QED
    BY <1>0, <2>1, <2>2, BestInv
<1>6. ASSUME step # MaxSteps - 1,
             NEW mv \in [Bands -> -MaxMove - ClipStep .. MaxMove + ClipStep],
             RaiseFloors(jointClips), Plan(mv, jointClips), Go(NewAttens(mv), Trusted, IdleBands)
      PROVE  IInv'
  <2>1. /\ floor' \in [Bands -> Attens]
        /\ \A b \in Bands : floor[b] <= floor'[b]
    BY <1>0, <1>2, <1>6, RaisedFloors
  <2>2. Plans
    BY <1>0, <1>2, <1>3, <1>6, <2>1, PlanType DEF Plans
  <2>3. mv \in [Bands -> Int]
    BY Ranges
  <2>4. /\ NewAttens(mv) \in [Bands -> Attens]
        /\ \A b \in Bands : floor'[b] <= NewAttens(mv)[b]
    BY <1>0, <2>1, <2>3, NewAttensType DEF TypeOK
  <2>5. Trusted \in BOOLEAN /\ IdleBands \in BOOLEAN
    BY DEF Trusted, IdleBands
  <2> QED
    BY <1>0, <1>6, <2>2, <2>4, <2>5, GoInv
<1> QED
  BY <1>1, <1>4, <1>5, <1>6

LEMMA MoveJointInv == IInv /\ MoveJoint => IInv'
<1> SUFFICES ASSUME IInv, MoveJoint PROVE IInv'
  OBVIOUS
<1>0. /\ pc = "move" /\ mode = "joint" /\ UNCHANGED <<mode, guard>> /\ TypeOK
      /\ Leveled(a) /\ Room(floor)
  BY DEF MoveJoint, IInv, LevelInv
<1>1. PICK err \in JointReads, jointClips \in JointGuardReads :
        /\ Remember(err # None /\ ~JointClipped(jointClips), Abs(err))
        /\ IF err # None /\ ~JointClipped(jointClips) /\ Abs(err) <= Tol THEN Stop("converged")
           ELSE IF step = MaxSteps - 1 THEN LastStep
           ELSE IF err # None /\ ~JointClipped(jointClips) /\ err > Tol /\ AtOffsetFloor
                THEN Stop("limited")
           ELSE JointMove(err, jointClips) /\ UNCHANGED turnVars
  BY DEF MoveJoint
<1>2. err # None => Trusted /\ err \in Int /\ Abs(err) \in Nat
  <2>1. JointErrors(radio.atten) \subseteq Int
    BY <1>0, SearchAssumption DEF TypeOK
  <2>2. err # None => Trusted /\ err \in Int
    BY <2>1 DEF JointReads
  <2> QED
    BY <2>2, AbsNat
<1>3. best' = best \/ (Trusted /\ \E v \in Nat : best' = Keep(v))
  <2>1. (err # None /\ ~JointClipped(jointClips)) \in BOOLEAN
    OBVIOUS
  <2> QED
    BY <1>1, <1>2, <2>1, Remembers
<1>4. \A b \in Bands : floor[b] <= a[b]
  BY <1>0, AtMove
<1>5. ASSUME NEW why \in {"converged", "limited"}, Stop(why),
             err # None, ~JointClipped(jointClips)
      PROVE  IInv'
  <2>1. FinishHere(why) /\ UNCHANGED <<floor, trustVars, turnVars>> /\ UNCHANGED lastMove
    BY <1>5 DEF Stop
  <2>2. Plans
    BY <1>0, <1>3, <2>1, PlansHere
  <2>3. \A b \in Bands : ~Clips(b)
    BY <1>5 DEF JointClipped
  <2>4. \A b \in Bands : floor'[b] <= a[b]
    BY <1>4, <2>1
  <2>5. Trusted
    BY <1>2, <1>5
  <2> QED
    BY <1>0, <2>1, <2>2, <2>3, <2>4, <2>5, HereInv
<1>6. CASE LastStep
  <2>1. LeaveAtBest("max steps") /\ UNCHANGED <<floor, trustVars, turnVars>>
    BY <1>6 DEF LastStep
  <2>2. Plans
    BY <1>0, <1>3, <2>1, PlansHere
  <2> QED
    BY <1>0, <2>1, <2>2, BestInv
<1>7. /\ cap \in 1 .. MaxMove /\ improving \in 0 .. 2 /\ undone \in BOOLEAN
      /\ prevWorst \in Nat \cup {None} /\ active \in Bands \cup {None} /\ turn \in Nat
      /\ floor \in [Bands -> Attens] /\ a \in [Bands -> Attens]
      /\ lastMove \in [Bands -> -AttenMax .. AttenMax] \cup {None}
      /\ \A b \in Bands : floor[b] <= floor[b]
  <2>1. \A b \in Bands : floor[b] \in Nat
    BY <1>0, TypedNumbers
  <2>2. \A b \in Bands : floor[b] <= floor[b]
    BY <2>1
  <2>3. undone \in BOOLEAN
    BY <1>0, Zenon DEF TypeOK
  <2>4. /\ cap \in 1 .. MaxMove /\ improving \in 0 .. 2
        /\ prevWorst \in Nat \cup {None} /\ active \in Bands \cup {None} /\ turn \in Nat
        /\ floor \in [Bands -> Attens] /\ a \in [Bands -> Attens]
        /\ lastMove \in [Bands -> -AttenMax .. AttenMax] \cup {None}
    BY <1>0, Zenon DEF TypeOK
  <2> QED
    BY <2>2, <2>3, <2>4
<1>8. (g = before) \in BOOLEAN
  OBVIOUS
<1>9. ASSUME step # MaxSteps - 1, JointHold, UNCHANGED turnVars
      PROVE  IInv'
  <2>1. /\ UNCHANGED <<floor, cap, improving, undone, prevWorst>>
        /\ Go(a, FALSE, g = before)
    BY <1>9 DEF JointHold
  <2>2. Plans
    BY <1>0, <1>3, <1>7, <1>9, <2>1 DEF Plans, Room
  <2>3. \A b \in Bands : floor'[b] <= a[b]
    BY <1>4, <2>1
  <2> QED
    BY <1>0, <1>7, <1>8, <1>9, <2>1, <2>2, <2>3, GoInv
<1>10. ASSUME step # MaxSteps - 1, err # None, JointBackOff(err), UNCHANGED turnVars
       PROVE  IInv'
  <2>1. PICK o : o = Smaller(OffsetMax, a[Strongest] + ClipUp(-err))
    OBVIOUS
  <2>2. PICK to : to = AttensAt(o)
    OBVIOUS
  <2>3. /\ floor' = [b \in Bands |-> Larger(floor[b], to[b])]
        /\ prevWorst' = None /\ undone' = FALSE /\ UNCHANGED <<cap, improving>>
        /\ Go(to, TRUE, g = before)
    BY <1>10, <2>1, <2>2 DEF JointBackOff
  <2>4. ClipUp(-err) \in Nat
    BY <1>2, <1>10, ClipUpType
  <2>5. /\ to \in [Bands -> Attens] /\ Leveled(to) /\ Room(to)
        /\ \A b \in Bands : a[b] <= to[b]
    BY <1>0, <1>7, <2>1, <2>2, <2>4, OffsetUp
  <2>6. \A b \in Bands : /\ floor[b] \in Nat /\ a[b] \in Nat /\ to[b] \in Nat
                         /\ floor[b] <= a[b] /\ a[b] <= to[b]
    BY <1>0, <1>4, <2>5, TypedNumbers, Ranges
  <2>7. \A b \in Bands : floor'[b] = to[b] /\ floor[b] <= to[b] /\ to[b] <= to[b]
    <3> TAKE b \in Bands
    <3>1. Larger(floor[b], to[b]) = to[b] /\ floor[b] <= to[b] /\ to[b] <= to[b]
      BY <2>6 DEF Larger
    <3> QED
      BY <2>3, <3>1
  <2>8. floor' = to
    BY <2>3, <2>5, <2>7
  <2>9. Plans
    BY <1>0, <1>3, <1>7, <1>10, <2>3, <2>5, <2>7, <2>8 DEF Plans
  <2>10. \A b \in Bands : floor'[b] <= to[b]
    BY <2>7, <2>8
  <2>11. Trusted
    BY <1>2, <1>10
  <2> QED
    BY <1>0, <1>8, <1>10, <2>3, <2>5, <2>9, <2>10, <2>11, GoInv
<1>11. ASSUME step # MaxSteps - 1, err # None, JointSecant(err), UNCHANGED turnVars
       PROVE  IInv'
  <2>1. /\ Trust(Abs(err)) /\ prevWorst' = Abs(err) /\ UNCHANGED floor
    BY <1>11 DEF JointSecant
  <2>2. Abs(err) \in Nat
    BY <1>2, <1>11
  <2>3. cap' \in 1 .. MaxMove /\ improving' \in 0 .. 2 /\ undone' \in BOOLEAN
    BY <1>0, <2>1, <2>2, TrustType
  <2>4. PICK m \in IF Grew(Abs(err)) THEN HalfBack(lastMove[Strongest])
                   ELSE (-cap' .. cap') \ {0} :
          Go(AttensAt(OffsetWithin(a[Strongest] + m)), TRUE, g = before)
    BY <1>11 DEF JointSecant
  <2>5. m \in Int
    <3>1. CASE Grew(Abs(err))
      <4>1. lastMove[Strongest] \in Int
        BY <1>7, <3>1, Ranges DEF Grew
      <4>2. m \in -Abs(lastMove[Strongest]) .. Abs(lastMove[Strongest])
        BY <2>4, <3>1 DEF HalfBack
      <4> QED
        BY <4>1, <4>2, AbsNat
    <3>2. CASE ~Grew(Abs(err))
      BY <2>3, <2>4, <3>2
    <3> QED
      BY <3>1, <3>2
  <2>6. a[Strongest] + m \in Int
    <3>1. a[Strongest] \in Int
      BY <1>0, TypedNumbers, Ranges
    <3> QED
      BY <2>5, <3>1
  <2>7. PICK o : o = OffsetWithin(a[Strongest] + m)
    OBVIOUS
  <2>8. /\ AttensAt(o) \in [Bands -> Attens] /\ Leveled(AttensAt(o))
        /\ \A b \in Bands : floor[b] <= AttensAt(o)[b]
    BY <1>0, <1>7, <2>6, <2>7, OffsetAttens DEF OffsetWithin
  <2>9. Plans
    BY <1>0, <1>3, <1>7, <1>11, <2>1, <2>2, <2>3 DEF Plans, Room
  <2>10. \A b \in Bands : floor'[b] <= AttensAt(o)[b]
    BY <2>1, <2>8
  <2>11. Trusted /\ Go(AttensAt(o), TRUE, g = before)
    BY <1>2, <1>11, <2>4, <2>7
  <2> QED
    BY <1>0, <1>8, <1>11, <2>8, <2>9, <2>10, <2>11, GoInv
<1>12. ASSUME step # MaxSteps - 1, JointMove(err, jointClips), UNCHANGED turnVars
       PROVE  IInv'
  <2>1. \/ JointHold
        \/ err # None /\ JointBackOff(err)
        \/ err # None /\ JointSecant(err)
    BY <1>12 DEF JointMove
  <2> QED
    BY <1>9, <1>10, <1>11, <1>12, <2>1
<1> QED
  BY <1>1, <1>5, <1>6, <1>12

LEMMA StutterInv == IInv /\ UNCHANGED vars => IInv'
<1> SUFFICES ASSUME IInv, UNCHANGED vars PROVE IInv'
  OBVIOUS
<1> USE DEF vars
<1>1. TypeOK'
  BY DEF IInv, TypeOK
<1>2. ReadInv'
  BY DEF IInv, ReadInv, Reads, Kept
<1>3. FloorInv'
  BY DEF IInv, FloorInv
<1>4. LevelInv'
  BY DEF IInv, LevelInv, Leveled, Room
<1>5. LeftWhereMeasured' /\ ConvergedIsLocked'
  BY DEF IInv, LeftWhereMeasured, ConvergedIsLocked, Returned
<1> QED
  BY <1>1, <1>2, <1>3, <1>4, <1>5 DEF IInv

-----------------------------------------------------------------------------
(* IInv holds of every search.                                             *)
THEOREM IInvAlways == Spec => []IInv
<1>1. IInv /\ [Next]_vars => IInv'
  BY StartStepInv, CaptureInv, MoveBandsInv, MoveJointInv, StutterInv DEF Next, Ended
<1> QED
  BY InitInv, <1>1, PTL DEF Spec

(* Every variable of the search keeps its type, so that no attenuation or  *)
(* gain the radio is given is out of its range.                            *)
THEOREM TypeCorrect == Spec => []TypeOK
<1>1. IInv => TypeOK
  BY DEF IInv
<1> QED
  BY IInvAlways, <1>1, PTL

(* No capture is made below a limit or a floor a clip guard raised, and    *)
(* only the return to the best step may leave the radio below one.         *)
THEOREM FloorsAreHeld == Spec => []FloorsHold
<1>1. IInv => FloorsHold
  <2> SUFFICES ASSUME IInv, NEW b \in Bands
               PROVE  /\ radio.atten[b] >= FloorMin[b]
                      /\ pc \in {"read", "move"} => radio.atten[b] >= floor[b]
                      /\ pc = "done" /\ radio.atten[b] < floor[b] =>
                           result.why \in {"max steps", "idle"}
    BY DEF FloorsHold
  <2>1. TypeOK /\ ReadInv /\ FloorInv
    BY DEF IInv
  <2>2. radio.atten[b] \in Nat /\ FloorMin[b] \in Nat /\ floor[b] \in Nat
    BY <2>1, TypedNumbers
  <2>3. FloorMin[b] <= radio.atten[b]
    BY <2>1 DEF FloorInv
  <2>4. pc \in {"read", "move"} => floor[b] <= radio.atten[b]
    <3>1. pc \in {"read", "move"} => radio.atten = a
      BY <2>1 DEF ReadInv
    <3>2. pc # "done" => floor[b] <= a[b]
      BY <2>1 DEF FloorInv
    <3> QED
      BY <3>1, <3>2
  <2>5. pc = "done" /\ radio.atten[b] < floor[b] => result.why \in {"max steps", "idle"}
    BY <2>1 DEF FloorInv
  <2> QED
    BY <2>2, <2>3, <2>4, <2>5
<1> QED
  BY IInvAlways, <1>1, PTL

(* The joint lock never changes the level difference of the bands.         *)
THEOREM LevelsAreKept == Spec => []LevelsKept
<1>1. IInv => LevelsKept
  BY DEF IInv, LevelInv, Leveled, LevelsKept
<1> QED
  BY IInvAlways, <1>1, PTL

(* A search that converged did so on readings that count and do not clip.  *)
THEOREM ConvergedAreLocked == Spec => []ConvergedIsLocked
<1>1. IInv => ConvergedIsLocked
  BY DEF IInv
<1> QED
  BY IInvAlways, <1>1, PTL

(* What a search returns was measured where it leaves the radio.           *)
THEOREM LeftAtMeasured == Spec => []LeftWhereMeasured
<1>1. IInv => LeftWhereMeasured
  BY DEF IInv
<1> QED
  BY IInvAlways, <1>1, PTL
=============================================================================
