----------------------------- MODULE BoardLease -----------------------------
(***************************************************************************)
(* What the hardware server promises to its jobs (module docstring of      *)
(* src/adrvtrx/server.py): the board has one holder at a time, a holder    *)
(* gets it with TX off and no call in progress, the calls of an ended      *)
(* holder do not start, and the board leaves an ended holder only TX-safe. *)
(* How the queue, the threads and the stop paths bring this about is left  *)
(* to HardwareServer.                                                      *)
(***************************************************************************)
CONSTANTS Lease, NoLease

VARIABLES
  open,    \* the server may still give the board to a job
  holder,  \* the job that holds the board, or NoLease
  ended,   \* the holder's lease has ended; the board is not free yet
  busy,    \* a call of a job runs on the board
  live     \* TX is on

vars == <<open, holder, ended, busy, live>>

TypeOK ==
  /\ open \in BOOLEAN /\ ended \in BOOLEAN /\ busy \in BOOLEAN /\ live \in BOOLEAN
  /\ holder \in Lease \cup {NoLease}

(* A previous process may have left TX on. *)
Init ==
  /\ open = TRUE /\ holder = NoLease /\ ended = FALSE /\ busy = FALSE
  /\ live \in BOOLEAN

Grant(l) ==
  /\ open /\ holder = NoLease /\ ~busy /\ ~live
  /\ holder' = l
  /\ UNCHANGED <<open, ended, busy, live>>

StartCall ==
  /\ holder # NoLease /\ ~ended /\ ~busy
  /\ busy' = TRUE
  /\ UNCHANGED <<open, holder, ended, live>>

FinishCall ==
  /\ busy
  /\ busy' = FALSE
  /\ live' \in BOOLEAN
  /\ UNCHANGED <<open, holder, ended>>

(* Released, revoked, or its client is gone *)
EndLease ==
  /\ holder # NoLease /\ ~ended
  /\ ended' = TRUE
  /\ UNCHANGED <<open, holder, busy, live>>

(* safe_state may come at any time, but never in the middle of a call. *)
MakeSafe ==
  /\ ~busy
  /\ live' = FALSE
  /\ UNCHANGED <<open, holder, ended, busy>>

(* The board leaves an ended holder, TX off. *)
Free ==
  /\ holder # NoLease /\ ended /\ ~busy
  /\ holder' = NoLease /\ ended' = FALSE
  /\ live' = FALSE
  /\ UNCHANGED <<open, busy>>

(* The server stops granting; a failed start-up may do so TX-safe. *)
Close ==
  /\ open' = FALSE
  /\ live' = live \/ (~busy /\ live' = FALSE)
  /\ UNCHANGED <<holder, ended, busy>>

(* A closed server owes nobody the board: the last holder is dropped. *)
Drop ==
  /\ ~open
  /\ holder' = NoLease /\ ended' = FALSE
  /\ UNCHANGED <<open, busy, live>>

Next ==
  \/ \E l \in Lease : Grant(l)
  \/ StartCall \/ FinishCall \/ EndLease \/ MakeSafe \/ Free \/ Close \/ Drop

Spec == Init /\ [][Next]_vars
=============================================================================
