----------------------------- MODULE CaseStore -----------------------------
(***************************************************************************)
(* What a case folder promises whoever reads it: it is written by one run, *)
(* file by file, each file once; case.json is the last; what is there      *)
(* never changes until someone moves the folder aside.  A run that dies or *)
(* fails leaves the folder as far as it came, and no later run adds to it. *)
(***************************************************************************)
EXTENDS Naturals

CONSTANTS
  Files,      \* every file of the case but case.json
  Json

VARIABLES
  writer,     \* the run that writes the folder, 0 when nobody does
  folder      \* what each file holds: the run that wrote it, 0 when absent

vars == <<writer, folder>>

Names == Files \cup {Json}
Empty == \A f \in Names : folder[f] = 0

TypeOK == writer \in Nat /\ folder \in [Names -> Nat]

Init == writer = 0 /\ folder = [f \in Names |-> 0]

(* A run is let in only while the folder is empty.                         *)
Enter == writer = 0 /\ Empty /\ writer' \in Nat \ {0} /\ UNCHANGED folder

Write(f) ==
  /\ writer # 0 /\ folder[f] = 0 /\ folder[Json] = 0
  /\ folder' = [folder EXCEPT ![f] = writer]
  /\ UNCHANGED writer

Leave == writer # 0 /\ writer' = 0 /\ UNCHANGED folder

MoveAside == writer = 0 /\ folder' = [f \in Names |-> 0] /\ UNCHANGED writer

Next ==
  \/ Enter
  \/ \E f \in Names : Write(f)
  \/ Leave
  \/ MoveAside

Spec == Init /\ [][Next]_vars
=============================================================================
