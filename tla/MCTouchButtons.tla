---- MODULE MCTouchButtons ----
(* Two buttons of menu 1 that overlap at a, and one of menu 2 at b.          *)
EXTENDS TouchButtons
CONSTANTS a, b
Table == << [area |-> {a}, menu |-> 1, callback |-> TRUE],
            [area |-> {a, b}, menu |-> 1, callback |-> TRUE],
            [area |-> {b}, menu |-> 2, callback |-> FALSE] >>
====
