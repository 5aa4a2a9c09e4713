---- MODULE MCMotorBoard ----
(* The directions in different registers, one of them with the enable port.  *)
EXTENDS MotorBoard
Wiring == [left |-> "a", right |-> "b", enable |-> "a"]
====
