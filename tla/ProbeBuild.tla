---------------------------- MODULE ProbeBuild -----------------------------
(***************************************************************************)
(* The probe of a lock: select_windows and build_probe of                  *)
(* src/adrvtrx/probe.py.  A window is kept around the peaks of every       *)
(* signal, the gaps between are dropped, and each join is crossfaded over  *)
(* samples outside every window; the length is padded to a whole unit.     *)
(*                                                                         *)
(* A signal is one period of a loop of NFull samples, of which the model   *)
(* keeps the peak_events, highest first.  Where a join is cut (the         *)
(* smallest jump) depends on the samples: any cut in reach is chosen.      *)
(* Positions are integers; OnLoop gives the sample at a position.          *)
(***************************************************************************)
EXTENDS Integers, Sequences, FiniteSets

CONSTANTS
  NFull,        \* n_full: samples of the signals
  Signals,
  SignalOrder,  \* the signals in the order of the call
  Window, Crossfade,
  Unit,         \* lcm of multiple and block
  Budgets,      \* budgets to try, NoBudget among them
  NoBudget,
  MaxPeaks,     \* the most peaks a signal gives to the selection
  PeakCount     \* bound: peaks of each signal

Cells == 0 .. NFull - 1

ASSUME ProbeAssumption ==
  /\ NFull \in Nat /\ Window \in 1 .. NFull /\ Crossfade \in 0 .. Window \div 4
  /\ Unit \in Nat \ {0} /\ MaxPeaks \in Nat \ {0} /\ PeakCount \in [Signals -> Nat]
  /\ IsFiniteSet(Signals) /\ SignalOrder \in Seq(Signals)
  /\ NoBudget \notin Nat /\ \A b \in Budgets : b = NoBudget \/ b >= Window

VARIABLES
  stage,
  budget,
  peaks,     \* peak_events of each signal, highest first
  ranked,    \* the peaks still to be looked at
  taken,     \* the peaks whose window was kept, or was covered already
  mask,      \* the samples kept
  range,     \* the start of the range at hand, NFull behind the last
  moves,     \* per range: how far its cut and the next one's resume are moved
  total,     \* the length of the ranges cut so far with their joins
  probe      \* the full-signal index of each probe sample, -1 in a crossfade

probeVars == <<stage, budget, peaks, ranked, taken, mask, range, moves, total, probe>>

OnLoop(x) == x % NFull

(* Local maxima of a loop: no two of them next to each other.              *)
PeakSeqs(count) ==
  {s \in UNION {[1 .. n -> Cells] : n \in 0 .. count} :
     \A i, j \in 1 .. Len(s) : i # j => OnLoop(s[i] - s[j]) \notin {0, 1, NFull - 1}}

(* The peaks of every signal ranked together, each against the maximum of  *)
(* its own signal, of which it gives at most its MaxPeaks highest.  The    *)
(* sort is stable: a signal's peaks stay in order, and its maximum is      *)
(* behind peaks as high as theirs (equal ones, the maxima) of the signals  *)
(* before it alone.                                                        *)
Candidates(p) == {c \in Signals \X (1 .. MaxPeaks) : c[2] <= Len(p[c[1]])}

Rankings(p) ==
  LET place(b) == CHOOSE k \in 1 .. Len(SignalOrder) : SignalOrder[k] = b
  IN  {r \in [1 .. Cardinality(Candidates(p)) -> Candidates(p)] :
         /\ \A c \in Candidates(p) : \E i \in DOMAIN r : r[i] = c
         /\ \A i, j \in DOMAIN r : i < j =>
              /\ r[i][1] = r[j][1] => r[i][2] < r[j][2]
              /\ r[j][2] = 1 => place(r[i][1]) < place(r[j][1])}

NoMoves == [c \in Cells |-> [d |-> 0, e |-> 0]]

ProbeInit ==
  /\ stage = "select" /\ budget \in Budgets
  /\ peaks \in {p \in [Signals -> UNION {PeakSeqs(PeakCount[b]) : b \in Signals}] :
                \A b \in Signals : Len(p[b]) <= PeakCount[b]}
  /\ ranked \in Rankings(peaks)
  /\ taken = {} /\ mask = {}
  /\ range = 0 /\ moves = NoMoves /\ total = 0 /\ probe = <<>>

-----------------------------------------------------------------------------
(* _select: the window of the next peak, unless its whole window is kept   *)
(* already; the first that would take the coverage past the budget ends it.*)
WindowOf(i) == {OnLoop(i - Window \div 2 + k) : k \in 0 .. Window - 1}

(* Mutant of Covered: a peak inside another's window is skipped.           *)
CoveredAtPeak(i) == i \in mask
Covered(i) == WindowOf(i) \subseteq mask

OverBudget(i) == budget # NoBudget /\ Cardinality(mask \cup WindowOf(i)) > budget

NextPeak == peaks[ranked[1][1]][ranked[1][2]]

TakePeak ==
  /\ stage = "select" /\ ranked # <<>>
  /\ IF Covered(NextPeak) \/ ~OverBudget(NextPeak)
     THEN /\ taken' = taken \cup {NextPeak} /\ ranked' = Tail(ranked)
          /\ mask' = IF Covered(NextPeak) THEN mask ELSE mask \cup WindowOf(NextPeak)
          /\ UNCHANGED stage
     ELSE stage' = "fill" /\ UNCHANGED <<taken, ranked, mask>>
  /\ UNCHANGED <<budget, peaks, range, moves, total, probe>>

AllTaken ==
  /\ stage = "select" /\ ranked = <<>> /\ stage' = "fill"
  /\ UNCHANGED <<budget, peaks, ranked, taken, mask, range, moves, total, probe>>

-----------------------------------------------------------------------------
(* The first of S from lo on in index order, NFull if there is none.       *)
FirstFrom(lo, S) ==
  CHOOSE c \in lo .. NFull : (c = NFull \/ c \in S) /\ \A x \in lo .. c - 1 : x \notin S

(* The ranges [s, Stop(s)) in index order; each joins the one After it,    *)
(* the last the first, unless they touch across the period's end.          *)
Starts == {c \in mask : c = 0 \/ c - 1 \notin mask}
Stop(s) == FirstFrom(s + 1, Cells \ mask)
First == FirstFrom(0, Starts)
Following(s) == FirstFrom(s + 1, Starts)
After(s) == IF Following(s) = NFull THEN First ELSE Following(s)
Previous(s) == CHOOSE t \in Starts : After(t) = s
Joined(s) == mask # Cells /\ OnLoop(Stop(s)) # After(s)

(* _fill_gaps: a gap shorter than the room of a join is kept.              *)
(* Mutant of Room: without the pad of the last join.                       *)
RoomUnpadded == 3 * Crossfade
Room == 3 * Crossfade + Unit

Narrow(c) ==
  \E b, f \in 1 .. Room :
    b + f <= Room /\ OnLoop(c - b) \in mask /\ OnLoop(c + f) \in mask

(* Without a peak there is nothing to join: ValueError.                    *)
FillGaps ==
  /\ stage = "fill"
  /\ IF mask = {} THEN stage' = "refused" /\ UNCHANGED <<mask, range>>
     ELSE /\ stage' = "cut"
          /\ mask' = mask \cup {c \in Cells : Narrow(c)}
          /\ range' = First'
  /\ UNCHANGED <<budget, peaks, ranked, taken, moves, total, probe>>

-----------------------------------------------------------------------------
(* What a range adds to the length: itself, and if it joins the next one   *)
(* its cut d samples later, the resume e samples earlier, the crossfade.   *)
Piece(s, m) == Stop(s) - s + m.d + m.e + (IF Joined(s) THEN Crossfade ELSE 0)

(* _cut for the range at hand, then the length.                            *)
Cut ==
  /\ stage = "cut"
  /\ \E d, e \in 0 .. Crossfade :
       /\ ~Joined(range) => d = 0 /\ e = 0
       /\ moves' = [moves EXCEPT ![range] = [d |-> d, e |-> e]]
       /\ total' = total + Piece(range, [d |-> d, e |-> e])
  /\ range' = Following(range)
  /\ stage' = IF Following(range) = NFull THEN "pad" ELSE "cut"
  /\ UNCHANGED <<budget, peaks, ranked, taken, mask, probe>>

(* The last join takes what is missing to a whole unit.                    *)
Joins == {s \in Starts : Joined(s)}

Pad ==
  /\ stage = "pad" /\ stage' = "join" /\ range' = First
  /\ LET pad  == (-total) % Unit
         last == CHOOSE s \in Joins : \A t \in Joins : t <= s
     IN  IF pad = 0 \/ Joins = {} THEN UNCHANGED moves
         ELSE \E d \in 0 .. Crossfade + Unit, e \in 0 .. Crossfade :
                /\ d + e = moves[last].d + moves[last].e + pad
                /\ moves' = [moves EXCEPT ![last] = [d |-> d, e |-> e]]
  /\ UNCHANGED <<budget, peaks, ranked, taken, mask, total, probe>>

(* The segments of real signal with a crossfade behind each join.          *)
SegStart(s) == s - moves[Previous(s)].e
SegStop(s) == Stop(s) + moves[s].d

Segment(s) == [i \in 1 .. SegStop(s) - SegStart(s) |-> OnLoop(SegStart(s) + i - 1)]
Fade(s) == [i \in 1 .. IF Joined(s) THEN Crossfade ELSE 0 |-> -1]

Join ==
  /\ stage = "join" /\ probe' = probe \o Segment(range) \o Fade(range)
  /\ range' = Following(range)
  /\ stage' = IF Following(range) = NFull THEN "built" ELSE "join"
  /\ UNCHANGED <<budget, peaks, ranked, taken, mask, moves, total>>

ProbeDone == stage \in {"built", "refused"} /\ UNCHANGED probeVars

ProbeNext == TakePeak \/ AllTaken \/ FillGaps \/ Cut \/ Pad \/ Join \/ ProbeDone

ProbeSpec == ProbeInit /\ [][ProbeNext]_probeVars

-----------------------------------------------------------------------------
(* What a crossfade is mixed of: the real signal that follows the cut and  *)
(* the real signal that leads into the resume.                             *)
Mixed(s) ==
  {OnLoop(SegStop(s) + i) : i \in 0 .. Crossfade - 1}
  \cup {OnLoop(SegStart(After(s)) - i) : i \in 1 .. Crossfade}

Kept == {probe[i] : i \in 1 .. Len(probe)} \ {-1}

ProbeTypeOK ==
  /\ stage \in {"select", "fill", "cut", "pad", "join", "built", "refused"}
  /\ budget \in Budgets /\ ranked \in Seq(Signals \X (1 .. MaxPeaks))
  /\ taken \subseteq Cells /\ mask \subseteq Cells /\ range \in 0 .. NFull
  /\ moves \in [Cells -> [d : 0 .. Crossfade + Unit, e : 0 .. Crossfade]]
  /\ total \in Nat /\ probe \in Seq(Cells \cup {-1})

(* Every peak that was taken, each signal's maximum among them when there  *)
(* is no budget, keeps its whole window of real signal in the probe, and   *)
(* nothing that is crossfaded lies in any of those windows (build_probe's  *)
(* joins outside the windows, _select's skip of a covered window, _cut     *)
(* moved by the padding).                                                  *)
WindowsStayReal ==
  stage = "built" =>
    /\ budget = NoBudget => \A b \in Signals : Len(peaks[b]) > 0 => peaks[b][1] \in taken
    /\ \A i \in taken :
         /\ WindowOf(i) \subseteq Kept
         /\ \A s \in Starts : Joined(s) => Mixed(s) \cap WindowOf(i) = {}

(* The probe goes once round the loop: no sample of the signal is in it    *)
(* twice, they are in the loop's order, and its length is a whole unit     *)
(* unless the whole signal was kept (build_probe, the pad in the last      *)
(* join's room).                                                           *)
OnceRound ==
  stage = "built" =>
    /\ \A i, j \in 1 .. Len(probe) :
         i < j /\ probe[i] # -1 /\ probe[j] # -1
           => OnLoop(probe[i] - probe[1]) < OnLoop(probe[j] - probe[1])
    /\ mask # Cells => Len(probe) % Unit = 0
=============================================================================
