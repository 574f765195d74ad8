------------------------------- MODULE TxLoad -------------------------------
(***************************************************************************)
(* What plays on the TX channels: the calls of src/adrvtrx/radio.py that   *)
(* change it, the server's record of what each channel's RAM holds, and    *)
(* the load that _perform_tx skips when the record says the same buffers   *)
(* are there already (src/adrvtrx/server.py).  Every call runs on the one  *)
(* hardware thread, so a call is one step; the DLL calls inside it may     *)
(* fail one by one.                                                        *)
(*                                                                         *)
(* The Rx side of the enable masks, the attenuations and the levels are    *)
(* left out: no call decides on them what plays.                           *)
(***************************************************************************)
CONSTANTS
  Channel,         \* TX_SINGLE
  Wave,            \* buffers, the zeros of an unused channel among them
  Unknown,         \* what RAM holds after programming or a load cut short
  Mode,            \* trigger and continuous
  Nothing,         \* no record, no request
  SkipIdentical,   \* skip_identical_tx_load
  DllCanFail       \* may an enable or load call raise with the link up?

ASSUME TxLoadAssumption ==
  /\ Unknown \notin Wave /\ Mode # {}
  /\ Nothing \notin [mask : SUBSET Channel, data : [Channel -> Wave], mode : Mode]
  /\ Nothing \notin [wave : Wave, mode : Mode]
  /\ SkipIdentical \in BOOLEAN /\ DllCanFail \in BOOLEAN

VARIABLES
  link,          \* the board answers this process
  ram, mode,     \* TX RAM, and the trigger mode of the last load
  tx,            \* the channels the device has enabled
  enTx,          \* Radio._en_tx, what was last commanded
  record,        \* server.tx_ram
  halfway,       \* history: a program() raised since the record was written
  cache,         \* _BoardCache.tx_mask
  want,          \* history: what the last perform_tx promised to be playing
  asked,         \* history: channels the holder of the board switched on
  faulted        \* history: the last enable call did not reach the device

boardVars == <<link, ram, mode, tx>>
recordVars == <<record, halfway>>
histVars  == <<want, asked, faulted>>
vars == <<boardVars, enTx, recordVars, cache, histVars>>

Request == [mask : SUBSET Channel, data : [Channel -> Wave], mode : Mode]
Loaded  == [wave : Wave, mode : Mode]
Empty   == [c \in Channel |-> Nothing]
Blank   == [c \in Channel |-> Unknown]

TypeOK ==
  /\ link \in BOOLEAN /\ mode \in Mode
  /\ ram \in [Channel -> Wave \cup {Unknown}]
  /\ tx \subseteq Channel /\ enTx \subseteq Channel /\ cache \subseteq Channel
  /\ record \in [Channel -> Loaded \cup {Nothing}]
  /\ want \in Request \cup {Nothing}
  /\ asked \subseteq Channel
  /\ faulted \in BOOLEAN /\ halfway \in BOOLEAN

(* A new process that has connected, forced TX safe and programmed.        *)
Init ==
  /\ link = TRUE /\ ram = Blank /\ mode \in Mode /\ tx = {}
  /\ enTx = {} /\ record = Empty /\ halfway = FALSE /\ cache = {}
  /\ want = Nothing /\ asked = {} /\ faulted = FALSE

-----------------------------------------------------------------------------
(* Radio.rx_tx_enable: the mask is noted first, the DLL is called then. *)

Enabled(mask)  == link /\ enTx' = mask /\ tx' = mask /\ faulted' = FALSE
Rejected(mask) == (DllCanFail \/ ~link) /\ enTx' = mask /\ faulted' = TRUE /\ UNCHANGED tx

(* A forwarded call that names the TX mask: it works, and the cache is     *)
(* refreshed, or it raises.                                                *)
Switch(mask) ==
  /\ \/ Enabled(mask) /\ cache' = enTx' /\ asked' = mask
     \/ Rejected(mask) /\ UNCHANGED cache /\ asked' = asked \cup mask
  /\ want' = Nothing
  /\ UNCHANGED <<link, ram, mode, recordVars>>

EnableTx(mask) == Switch(enTx \cup mask)
DisableTx      == Switch({})
RxTxEnable(mask) == Switch(mask)

(* enable_rx, set_rx_enable: both masks go out in one call. *)
SetRxEnable ==
  /\ \/ Enabled(enTx) /\ cache' = enTx'
     \/ Rejected(enTx) /\ UNCHANGED cache
  /\ UNCHANGED <<link, ram, mode, recordVars, want, asked>>

-----------------------------------------------------------------------------
(* perform_tx *)

Same(mask, data, md) ==
  \A c \in mask : record[c] = [wave |-> data[c], mode |-> md]

(* ids is None for buffers that cannot be hashed. *)
Skips(mask, data, md, hashed) ==
  SkipIdentical /\ hashed /\ mask # {} /\ Same(mask, data, md)

Plays(mask, data, md) ==
  /\ Enabled(mask) /\ cache' = mask
  /\ want' = [mask |-> mask, data |-> data, mode |-> md]
  /\ asked' = mask

(* A call inside raises, and perform_tx with it: the cache is not touched. *)
DisableFails ==
  /\ Rejected({})
  /\ UNCHANGED <<asked, cache>> /\ want' = Nothing
EnableFails(mask) ==
  /\ link /\ DllCanFail
  /\ enTx' = mask /\ tx' = {} /\ faulted' = TRUE
  /\ asked' = mask /\ want' = Nothing
  /\ UNCHANGED cache

(* Mutant of Restart: a skipped load enables on top of what plays. *)
RestartOnTop(mask, data, md) ==
  /\ Skips(mask, data, md, TRUE)
  /\ link /\ enTx' = enTx \cup mask /\ tx' = enTx' /\ faulted' = FALSE /\ cache' = enTx'
  /\ want' = [mask |-> mask, data |-> data, mode |-> md]
  /\ asked' = asked \cup mask
  /\ UNCHANGED <<link, ram, mode, recordVars>>

(* Mutant of Restart: it returns before the cache is refreshed. *)
RestartUncached(mask, data, md) ==
  /\ Skips(mask, data, md, TRUE)
  /\ Enabled(mask) /\ UNCHANGED cache
  /\ want' = [mask |-> mask, data |-> data, mode |-> md]
  /\ asked' = mask
  /\ UNCHANGED <<link, ram, mode, recordVars>>

(* The skipped load: TX disabled, then enabled for the mask. *)
Restart(mask, data, md) ==
  /\ Skips(mask, data, md, TRUE)
  /\ Plays(mask, data, md) \/ DisableFails \/ EnableFails(mask)
  /\ UNCHANGED <<link, ram, mode, recordVars>>

Load(mask, data, md, hashed) ==
  /\ ~Skips(mask, data, md, hashed)
  /\ Plays(mask, data, md)
  /\ ram' = data /\ mode' = md
  /\ record' = IF hashed THEN [c \in Channel |-> [wave |-> data[c], mode |-> md]] ELSE Empty
  /\ halfway' = FALSE /\ UNCHANGED link

(* _clear_tx_ram *)
Forget == record' = Empty /\ halfway' = FALSE

(* A load that raises: in the conversion, or in one of the three calls. *)
LoadFails(mask, data, md, hashed) ==
  /\ ~Skips(mask, data, md, hashed)
  /\ \/ UNCHANGED <<boardVars, enTx, cache, asked, faulted>> /\ want' = Nothing
     \/ DisableFails /\ UNCHANGED <<ram, mode>>
     \/ /\ link /\ DllCanFail
        /\ enTx' = {} /\ tx' = {} /\ faulted' = FALSE
        /\ ram' \in {ram, Blank} /\ mode' \in {mode, md}
        /\ asked' = {} /\ want' = Nothing /\ UNCHANGED cache
     \/ EnableFails(mask) /\ ram' = data /\ mode' = md
  /\ Forget /\ UNCHANGED link

PerformTx(mask, data, md) ==
  \/ Restart(mask, data, md)
  \/ \E hashed \in BOOLEAN : Load(mask, data, md, hashed) \/ LoadFails(mask, data, md, hashed)

-----------------------------------------------------------------------------
(* The other calls that change what plays *)

(* Mutant of SafeState: it asks the device and leaves _en_tx as it was. *)
SafeStateKeepsMask ==
  /\ link /\ tx' = {} /\ faulted' = FALSE /\ cache' = enTx
  /\ want' = Nothing /\ asked' = {}
  /\ UNCHANGED <<link, ram, mode, enTx, recordVars>>

(* safe_state, at every lease end and on disconnect: errors are swallowed. *)
SafeState ==
  /\ Enabled({}) \/ Rejected({})
  /\ cache' = enTx'
  /\ want' = Nothing /\ asked' = {}
  /\ UNCHANGED <<link, ram, mode, recordVars>>

(* run_init_cals: radio off, calibrate, Rx as it was.  The first call, to  *)
(* the attenuators, may raise before anything happened.                    *)
RunInitCals ==
  /\ \/ Enabled({}) /\ cache' = {} /\ asked' = {}
     \/ Rejected({}) /\ UNCHANGED <<cache, asked>>
  /\ want' = Nothing
  /\ UNCHANGED <<link, ram, mode, recordVars>>

(* program: the device starts anew; the record is cleared afterwards.  The *)
(* radio's own mask stays as it is.                                        *)
Program ==
  /\ link /\ tx' = {} /\ ram' = Blank
  /\ cache' = enTx /\ Forget
  /\ want' = Nothing
  /\ UNCHANGED <<link, mode, enTx, asked, faulted>>

(* It raises halfway: neither the cache nor the record is touched. *)
ProgramFails ==
  /\ link
  /\ tx' \in {tx, {}} /\ ram' \in {ram, Blank}
  /\ want' = Nothing /\ halfway' = TRUE
  /\ UNCHANGED <<link, mode, enTx, record, cache, asked, faulted>>

(* Every call that only reads refreshes the cache too. *)
Read ==
  /\ link /\ cache' = enTx
  /\ UNCHANGED <<boardVars, enTx, recordVars, histVars>>

(* The link drops; the board may have lost its power. *)
LinkLost ==
  /\ link /\ link' = FALSE
  /\ tx' \in {tx, {}} /\ ram' \in {ram, Blank}
  /\ UNCHANGED <<mode, enTx, recordVars, cache, histVars>>

(* A client's connect on a lost link: the record is cleared, the radio     *)
(* connects, or raises, and forces TX safe as well as it can.              *)
Connect ==
  /\ ~link /\ Forget /\ want' = Nothing
  /\ \/ /\ link' = TRUE /\ enTx' = {} /\ cache' = {} /\ asked' = {}
        /\ \/ tx' = {} /\ faulted' = FALSE
           \/ DllCanFail /\ UNCHANGED tx /\ faulted' = TRUE
     \/ UNCHANGED <<link, tx, enTx, cache, asked, faulted>>
  /\ UNCHANGED <<ram, mode>>

(* The server process is replaced (watchdog, restart).  It knows nothing,  *)
(* forces TX safe as well as it can, and programs the board unless it was  *)
(* started with --no-program.                                              *)
NewProcess ==
  /\ link' = TRUE /\ enTx' = {} /\ Forget /\ cache' = {}
  /\ want' = Nothing /\ asked' = {}
  /\ \/ tx' = {} /\ ram' = Blank /\ faulted' = FALSE
     \/ tx' = {} /\ UNCHANGED ram /\ faulted' = FALSE
     \/ DllCanFail /\ UNCHANGED <<tx, ram>> /\ faulted' = TRUE
  /\ UNCHANGED mode

TxCalls ==
  \/ \E mask \in SUBSET Channel : EnableTx(mask) \/ RxTxEnable(mask)
  \/ DisableTx
  \/ \E mask \in SUBSET Channel, data \in [Channel -> Wave], md \in Mode :
       PerformTx(mask, data, md)
OtherCalls == SetRxEnable \/ SafeState \/ RunInitCals \/ Program \/ ProgramFails
              \/ Read \/ Connect

Next == TxCalls \/ OtherCalls \/ LinkLost \/ NewProcess

Spec == Init /\ [][Next]_vars

-----------------------------------------------------------------------------
(* Safety *)

(* While the board answers, what the record says of a channel is what its  *)
(* RAM holds, unless a program() raised since it was written: _perform_tx  *)
(* decides on it.                                                          *)
RecordTrue ==
  link /\ ~halfway => \A c \in Channel : record[c] # Nothing =>
            ram[c] = record[c].wave /\ mode = record[c].mode

(* After perform_tx, loaded or skipped, exactly the channels of its mask   *)
(* are on and play exactly its buffers, also while Rx channels are         *)
(* switched and whatever was loaded, programmed or lost before.            *)
(* (A load skipped after a program() that raised is left out: server.py    *)
(* clears the record only after one that returned.)                        *)
PlaysWhatWasAsked ==
  want # Nothing /\ link =>
    /\ tx = want.mask
    /\ ~halfway => mode = want.mode /\ \A c \in want.mask : ram[c] = want.data[c]

(* No call of a job that does not name TX brings back what an earlier job  *)
(* had switched on: only what its own TX calls enabled can be on.          *)
OnlyAskedTransmits == ~faulted => tx \subseteq asked

(* The monitor looks for a silent client only while the cache says that TX *)
(* is on: it never says off while a channel is on.                         *)
MonitorSeesTx == ~faulted => tx \subseteq cache

=============================================================================
