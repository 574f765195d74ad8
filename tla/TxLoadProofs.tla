---------------------------- MODULE TxLoadProofs ----------------------------
(***************************************************************************)
(* The skipped load is a load: for all sets of channels, signals and       *)
(* modes, with any DLL call failing at any time, perform_tx leaves the     *)
(* channels of its mask playing its buffers, unless a program() that       *)
(* raised left the record behind.                                          *)
(***************************************************************************)
EXTENDS TxLoad, TLAPS

-----------------------------------------------------------------------------
(* Types *)

LEMMA TypeInit == Init => TypeOK
BY TxLoadAssumption
DEF Init, TypeOK, Empty, Blank

LEMMA TypeStep == TypeOK /\ [Next]_vars => TypeOK'
<1> SUFFICES ASSUME TypeOK, [Next]_vars PROVE TypeOK'
  OBVIOUS
<1> USE DEF TypeOK, boardVars, histVars, recordVars, Enabled, Rejected
<1>1. ASSUME NEW mask \in SUBSET Channel, EnableTx(mask) \/ RxTxEnable(mask) PROVE TypeOK'
  BY <1>1 DEF EnableTx, RxTxEnable, Switch
<1>2. CASE DisableTx
  BY <1>2 DEF DisableTx, Switch
<1>3. ASSUME NEW mask \in SUBSET Channel, NEW data \in [Channel -> Wave], NEW md \in Mode,
             PerformTx(mask, data, md)
      PROVE  TypeOK'
  <2>1. [mask |-> mask, data |-> data, mode |-> md] \in Request
    BY DEF Request
  <2>2. CASE Restart(mask, data, md)
    BY <2>1, <2>2 DEF Restart, Plays, DisableFails, EnableFails
  <2>3. ASSUME NEW hashed \in BOOLEAN, Load(mask, data, md, hashed) PROVE TypeOK'
    BY <2>1, <2>3 DEF Load, Plays, Empty, Loaded
  <2>4. ASSUME NEW hashed \in BOOLEAN, LoadFails(mask, data, md, hashed) PROVE TypeOK'
    BY <2>4 DEF LoadFails, DisableFails, EnableFails, Forget, Empty, Blank
  <2> QED BY <1>3, <2>2, <2>3, <2>4 DEF PerformTx
<1>4. CASE SetRxEnable \/ SafeState \/ RunInitCals \/ Read
  BY <1>4 DEF SetRxEnable, SafeState, RunInitCals, Read
<1>5. CASE Program \/ ProgramFails \/ Connect
  BY <1>5 DEF Program, ProgramFails, Connect, Forget, Empty, Blank
<1>6. CASE LinkLost \/ NewProcess
  BY <1>6 DEF LinkLost, NewProcess, Forget, Empty, Blank
<1>7. CASE UNCHANGED vars
  BY <1>7 DEF vars
<1> QED BY <1>1, <1>2, <1>3, <1>4, <1>5, <1>6, <1>7 DEF Next, TxCalls, OtherCalls

(* The state fits its types. *)
THEOREM TypeCorrect == Spec => []TypeOK
BY TypeInit, TypeStep, PTL DEF Spec

-----------------------------------------------------------------------------
(* What is loaded.  A promise is kept as long as the radio's own mask is   *)
(* the promised one: the Rx calls send it out again.                       *)

PlayInv ==
  /\ RecordTrue
  /\ PlaysWhatWasAsked
  /\ want # Nothing => enTx = want.mask

LEMMA PlayInit == Init => PlayInv
BY DEF Init, PlayInv, RecordTrue, PlaysWhatWasAsked, Empty

(* A skipped load finds in RAM what it was asked to load, if no program()  *)
(* raised since the record was written.                                    *)
LEMMA SkipFindsIt ==
  ASSUME NEW mask \in SUBSET Channel, NEW data \in [Channel -> Wave], NEW md \in Mode,
         TypeOK, RecordTrue, link, ~halfway, Skips(mask, data, md, TRUE)
  PROVE  mode = md /\ \A c \in mask : ram[c] = data[c]
<1>1. \A c \in mask : [wave |-> data[c], mode |-> md] \in Loaded
  BY DEF Loaded
<1>2. \A c \in mask : record[c] = [wave |-> data[c], mode |-> md] /\ record[c] # Nothing
  BY <1>1, TxLoadAssumption DEF Skips, Same, Loaded
<1>3. ASSUME NEW c \in mask PROVE ram[c] = data[c] /\ mode = md
  <2>1. c \in Channel /\ record[c] = [wave |-> data[c], mode |-> md] /\ record[c] # Nothing
    BY <1>2
  <2>2. ram[c] = record[c].wave /\ mode = record[c].mode
    BY <2>1 DEF RecordTrue
  <2> QED BY <2>1, <2>2
<1> QED BY <1>3 DEF Skips

LEMMA PlayPerform ==
  ASSUME NEW mask \in SUBSET Channel, NEW data \in [Channel -> Wave], NEW md \in Mode,
         TypeOK, PlayInv, PerformTx(mask, data, md)
  PROVE  PlayInv'
<1> USE DEF PlayInv
<1>1. CASE Restart(mask, data, md)
  <2>1. RecordTrue'
    BY <1>1 DEF Restart, RecordTrue, recordVars
  <2>2. CASE DisableFails \/ EnableFails(mask)
    BY <2>1, <2>2 DEF DisableFails, EnableFails, PlaysWhatWasAsked
  <2>3. CASE Plays(mask, data, md)
    <3>1. link /\ tx' = mask /\ enTx' = mask
          /\ want' = [mask |-> mask, data |-> data, mode |-> md]
      BY <2>3 DEF Plays, Enabled
    <3>2. UNCHANGED <<ram, mode, halfway>> /\ Skips(mask, data, md, TRUE)
      BY <1>1 DEF Restart, recordVars
    <3>3. ~halfway => mode = md /\ \A c \in mask : ram[c] = data[c]
      BY <3>1, <3>2, SkipFindsIt
    <3>4. PlaysWhatWasAsked'
      BY <3>1, <3>2, <3>3 DEF PlaysWhatWasAsked
    <3> QED BY <2>1, <3>1, <3>4
  <2> QED BY <1>1, <2>2, <2>3 DEF Restart
<1>2. ASSUME NEW hashed \in BOOLEAN, Load(mask, data, md, hashed) PROVE PlayInv'
  <2>1. /\ ram' = data /\ mode' = md /\ tx' = mask /\ enTx' = mask
        /\ want' = [mask |-> mask, data |-> data, mode |-> md]
    BY <1>2 DEF Load, Plays, Enabled
  <2>2. RecordTrue'
    BY <1>2, <2>1 DEF Load, RecordTrue, Empty
  <2>3. PlaysWhatWasAsked'
    BY <2>1 DEF PlaysWhatWasAsked
  <2> QED BY <2>1, <2>2, <2>3
<1>3. ASSUME NEW hashed \in BOOLEAN, LoadFails(mask, data, md, hashed) PROVE PlayInv'
  <2>1. record' = Empty /\ want' = Nothing
    BY <1>3 DEF LoadFails, Forget, DisableFails, EnableFails
  <2> QED BY <2>1 DEF RecordTrue, PlaysWhatWasAsked, Empty
<1> QED BY <1>1, <1>2, <1>3 DEF PerformTx

LEMMA PlayStep ==
  TypeOK /\ PlayInv /\ [Next]_vars => PlayInv'
<1> SUFFICES ASSUME TypeOK, PlayInv, [Next]_vars PROVE PlayInv'
  OBVIOUS
<1> USE DEF PlayInv, RecordTrue, PlaysWhatWasAsked, boardVars, histVars, recordVars
<1>1. ASSUME NEW mask \in SUBSET Channel, EnableTx(mask) \/ RxTxEnable(mask) PROVE PlayInv'
  BY <1>1 DEF EnableTx, RxTxEnable, Switch
<1>2. CASE DisableTx \/ SafeState \/ RunInitCals
  BY <1>2 DEF DisableTx, Switch, SafeState, RunInitCals
<1>3. CASE SetRxEnable
  <2>1. enTx' = enTx /\ UNCHANGED <<link, ram, mode, record, halfway, want>> /\ tx' \in {tx, enTx}
    BY <1>3 DEF SetRxEnable, Enabled, Rejected, recordVars
  <2> QED BY <2>1
<1>4. CASE Read
  BY <1>4 DEF Read
<1>5. CASE Program \/ ProgramFails
  BY <1>5 DEF Program, ProgramFails, Forget, Empty
<1>6. CASE Connect \/ LinkLost \/ NewProcess
  BY <1>6 DEF Connect, LinkLost, NewProcess, Forget, Empty
<1>7. CASE UNCHANGED vars
  BY <1>7 DEF vars
<1> QED BY <1>1, <1>2, <1>3, <1>4, <1>5, <1>6, <1>7, PlayPerform DEF Next, TxCalls, OtherCalls

(* The record never says of a channel what its RAM does not hold, and      *)
(* perform_tx, loaded or skipped, leaves its buffers playing.              *)
THEOREM RecordIsTrue == Spec => []RecordTrue
<1>1. PlayInv => RecordTrue
  BY DEF PlayInv
<1> QED BY <1>1, PlayInit, PlayStep, TypeCorrect, PTL DEF Spec

THEOREM SkippedLoadIsALoad == Spec => []PlaysWhatWasAsked
<1>1. PlayInv => PlaysWhatWasAsked
  BY DEF PlayInv
<1> QED BY <1>1, PlayInit, PlayStep, TypeCorrect, PTL DEF Spec

-----------------------------------------------------------------------------
(* Who transmits.  The radio's own mask holds only what was asked for, and *)
(* covers what the device has enabled unless a call did not reach it.      *)

MaskInv ==
  /\ enTx \subseteq asked
  /\ ~faulted => tx \subseteq enTx
  /\ OnlyAskedTransmits
  /\ MonitorSeesTx

LEMMA MaskInit == Init => MaskInv
BY DEF Init, MaskInv, OnlyAskedTransmits, MonitorSeesTx

LEMMA MaskStep == TypeOK /\ MaskInv /\ [Next]_vars => MaskInv'
<1> SUFFICES ASSUME TypeOK, MaskInv, [Next]_vars PROVE MaskInv'
  OBVIOUS
<1> USE DEF MaskInv, OnlyAskedTransmits, MonitorSeesTx, Enabled, Rejected, boardVars, histVars, recordVars
<1>1. ASSUME NEW mask \in SUBSET Channel, EnableTx(mask) \/ RxTxEnable(mask) PROVE MaskInv'
  BY <1>1 DEF EnableTx, RxTxEnable, Switch
<1>2. CASE DisableTx
  BY <1>2 DEF DisableTx, Switch
<1>3. ASSUME NEW mask \in SUBSET Channel, NEW data \in [Channel -> Wave], NEW md \in Mode,
             PerformTx(mask, data, md)
      PROVE  MaskInv'
  <2>1. CASE Restart(mask, data, md)
    BY <2>1 DEF Restart, Plays, DisableFails, EnableFails
  <2>2. ASSUME NEW hashed \in BOOLEAN, Load(mask, data, md, hashed) PROVE MaskInv'
    BY <2>2 DEF Load, Plays
  <2>3. ASSUME NEW hashed \in BOOLEAN, LoadFails(mask, data, md, hashed) PROVE MaskInv'
    BY <2>3 DEF LoadFails, DisableFails, EnableFails
  <2> QED BY <1>3, <2>1, <2>2, <2>3 DEF PerformTx
<1>4. CASE SetRxEnable \/ SafeState \/ RunInitCals \/ Read
  BY <1>4 DEF SetRxEnable, SafeState, RunInitCals, Read
<1>5. CASE Program \/ ProgramFails \/ Connect
  BY <1>5 DEF Program, ProgramFails, Connect
<1>6. CASE LinkLost \/ NewProcess
  BY <1>6 DEF LinkLost, NewProcess
<1>7. CASE UNCHANGED vars
  BY <1>7 DEF vars
<1> QED BY <1>1, <1>2, <1>3, <1>4, <1>5, <1>6, <1>7 DEF Next, TxCalls, OtherCalls

(* Nothing transmits but what the holder of the board enabled.             *)
THEOREM OnlyAskedFor == Spec => []OnlyAskedTransmits
<1>1. MaskInv => OnlyAskedTransmits
  BY DEF MaskInv
<1> QED BY <1>1, MaskInit, MaskStep, TypeCorrect, PTL DEF Spec

(* Unless a call never reached the device, the monitor does not take a     *)
(* transmitting board for a silent one.                                    *)
THEOREM MaskIsTrusted == Spec => []MonitorSeesTx
<1>1. MaskInv => MonitorSeesTx
  BY DEF MaskInv
<1> QED BY <1>1, MaskInit, MaskStep, TypeCorrect, PTL DEF Spec
=============================================================================
