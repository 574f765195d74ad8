----------------------------- MODULE SweepPlan -----------------------------
(***************************************************************************)
(* The points of a declarative sweep: src/adrvtrx/sweep_plan.py.           *)
(*                                                                         *)
(* A setting is named by a pair: <<"lo", l>>, <<"power", band>>,           *)
(* <<"power", "shared">> or <<"signal", band>>.  A partial point is a      *)
(* function from some settings to values; a block is                       *)
(*   [mode |-> "zip" | "grid", axes |-> <<[key |-> setting,                *)
(*                                         values |-> <<...>>], ...>>].    *)
(***************************************************************************)
EXTENDS Naturals, Sequences, Functions

Nothing == <<>>
NoSignal == ""

Items(s) == {s[i] : i \in 1 .. Len(s)}

(* The defaults a caller of the notebooks takes from the configuration:    *)
(* every band's attenuation, and the signals the bands name.               *)
DefaultsFromConfig(config, own) ==
  [lo |-> config.lo, power |-> config.power, signal |-> own.signal]

(* Dictionaries: get, and the entries of f with those of g it has not.     *)
Get(f, x, default) == IF x \in DOMAIN f THEN f[x] ELSE default
Over(f, g) == [x \in DOMAIN f \cup DOMAIN g |-> Get(f, x, g[x])]

(* given: the defaults of the caller, own: what the bands name themselves. *)
(* The caller's win, an LO without one (0) is left alone, and a band       *)
(* without a power is refused (ValueError).                                *)
HasPower(given, own, bands) == bands \subseteq DOMAIN given.power \cup DOMAIN own.power

ResolveDefaults(given, own, los, bands) ==
  [lo     |-> Over(given.lo, [l \in los |-> 0]),
   power  |-> Over(given.power, own.power),
   signal |-> Over(Over(given.signal, own.signal), [b \in bands |-> NoSignal])]

Sizes(block) == [a \in 1 .. Len(block.axes) |-> Len(block.axes[a].values)]

(* A zip block of lists of different lengths is refused (ValueError).      *)
WellFormed(block) ==
  block.mode = "zip" => \A a, c \in 1 .. Len(block.axes) : Sizes(block)[a] = Sizes(block)[c]

(* np_product.                                                             *)
ProductOf(sizes) ==
  LET upto[n \in 0 .. Len(sizes)] == IF n = 0 THEN 1 ELSE upto[n - 1] * sizes[n]
  IN  upto[Len(sizes)]

(* itertools.product: every choice of an index per list, in order, the     *)
(* last list's index turning fastest.                                      *)
Extended(choices, m) ==
  [i \in 1 .. Len(choices) * m |->
     Append(choices[((i - 1) \div m) + 1], ((i - 1) % m) + 1)]

Combos(sizes) ==
  LET upto[n \in 0 .. Len(sizes)] == IF n = 0 THEN <<Nothing>> ELSE Extended(upto[n - 1], sizes[n])
  IN  upto[Len(sizes)]

Zipped(block) == block.mode = "zip" /\ block.axes # <<>>

BlockSize(block) == IF Zipped(block) THEN Sizes(block)[1] ELSE ProductOf(Sizes(block))

(* Which value of each axis a block's partial points take.                 *)
BlockChoices(block) ==
  IF Zipped(block)
  THEN [i \in 1 .. Sizes(block)[1] |-> [a \in 1 .. Len(block.axes) |-> i]]
  ELSE Combos(Sizes(block))

Keys(block) == {block.axes[a].key : a \in 1 .. Len(block.axes)}

PartialPoints(block) ==
  LET axis(key) == CHOOSE a \in 1 .. Len(block.axes) : block.axes[a].key = key
      value(key, choice) == block.axes[axis(key)].values[choice[axis(key)]]
  IN  [i \in 1 .. Len(BlockChoices(block)) |->
         [key \in Keys(block) |-> value(key, BlockChoices(block)[i])]]

(* _merge_partials: of partial points with a setting in common the last    *)
(* wins.                                                                   *)
Merged(partials) ==
  [key \in UNION {DOMAIN partials[b] : b \in DOMAIN partials} |->
     LET b == CHOOSE b \in DOMAIN partials :
                /\ key \in DOMAIN partials[b]
                /\ \A c \in DOMAIN partials : key \in DOMAIN partials[c] => c <= b
     IN  partials[b][key]]

FinalizeShared(p, defaults, bands) ==
  [lo     |-> [l \in DOMAIN defaults.lo |-> Get(p, <<"lo", l>>, defaults.lo[l])],
   power  |-> [b \in bands |->
                 Get(p, <<"power", "shared">>, Get(p, <<"power", b>>, defaults.power[b]))],
   signal |-> [b \in bands |-> Get(p, <<"signal", b>>, defaults.signal[b])]]

(* A band's power: its own, else the shared one, else the default.         *)
FinalizePoint(p, defaults, bands) ==
  [lo     |-> [l \in DOMAIN defaults.lo |-> Get(p, <<"lo", l>>, defaults.lo[l])],
   power  |-> [b \in bands |->
                 Get(p, <<"power", b>>, Get(p, <<"power", "shared">>, defaults.power[b]))],
   signal |-> [b \in bands |-> Get(p, <<"signal", b>>, defaults.signal[b])]]

SweepPoints(blocks, defaults, bands) ==
  LET partials == [b \in 1 .. Len(blocks) |-> PartialPoints(blocks[b])]
      choices  == Combos([b \in 1 .. Len(blocks) |-> Len(partials[b])])
  IN  [i \in 1 .. Len(choices) |->
         FinalizePoint(Merged([b \in 1 .. Len(blocks) |-> partials[b][choices[i][b]]]),
                       defaults, bands)]

(* summarize_sweep_plan: the block sizes multiply.                         *)
PlanSize(blocks) == ProductOf([b \in 1 .. Len(blocks) |-> BlockSize(blocks[b])])
=============================================================================
