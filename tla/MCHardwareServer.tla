-------------------------- MODULE MCHardwareServer --------------------------
(* Instances of HardwareServer for TLC. *)
EXTENDS HardwareServer, TLC

CONSTANTS
  Operators,         \* the connections that send operator commands
  JobCommands,       \* what every other connection sends
  OperatorCommands,
  Outside            \* what reaches the server from outside any connection

(* Jobs and operators send different requests. *)
MCCommands ==
  [t \in Conn \cup {Monitor} |->
     IF t = Monitor THEN Outside
     ELSE IF t \in Operators THEN OperatorCommands ELSE JobCommands]

Symmetry == Permutations(Conn \ Operators) \cup Permutations(Lease)
=============================================================================
