------------------------------ MODULE Readback ------------------------------
(***************************************************************************)
(* Which position of a capture's readback is read for a channel:           *)
(* src/adrvtrx/capture.py.  PerformRx returns every channel of             *)
(* rxInitChannelMask, in the order of the mask's bits; four ORx inputs     *)
(* share two converters, whose samples lie at the first two ORx positions. *)
(*                                                                         *)
(* A channel is its bit: 0 .. 3 the main Rx, 4 .. 7 the ORx, above them    *)
(* the internal ones.  An I and a Q array are one position here.           *)
(***************************************************************************)
EXTENDS Naturals, Sequences, FiniteSets

MainRx == 0 .. 3
Orx == 4 .. 7
AdcIndex(ch) == (ch - 4) \div 2

Bits == 10

ReturnedOrder(mask) == SelectSeq([n \in 1 .. Bits |-> n - 1], LAMBDA bit : bit \in mask)

OrxSlots(order) == {p \in DOMAIN order : order[p] \in Orx}

(* The slot with as many before it as the converter's index; 0 when the    *)
(* readback has no slot of this input's converter.                         *)
OrxSlotFor(ch, order) ==
  LET slots == OrxSlots(order)
      slot == {p \in slots : Cardinality({q \in slots : q < p}) = AdcIndex(ch)}
  IN  IF slot = {} THEN 0 ELSE CHOOSE p \in slot : TRUE

ChannelSlot(ch, order) ==
  IF ch \in Orx THEN OrxSlotFor(ch, order)
  ELSE IF \E p \in DOMAIN order : order[p] = ch
    THEN CHOOSE p \in DOMAIN order : order[p] = ch
  ELSE 0

(* What each position holds: the inputs whose samples are there.  A        *)
(* converter reads every enabled input that shares it.                     *)
Snapshot(order, enabled) ==
  [p \in DOMAIN order |->
     IF order[p] \in Orx THEN {ch \in enabled \cap Orx : OrxSlotFor(ch, order) = p}
     ELSE {order[p]} \cap enabled]

(* Through the server only the positions asked for travel.                 *)
CaptureArrays(raw, keep) == [p \in DOMAIN raw |-> IF p \in keep THEN raw[p] ELSE {}]
=============================================================================
