---- MODULE MCGpsReceiver ----
(* Two positions, no position, another type, a wrong checksum, noise.        *)
EXTENDS GpsReceiver
Line == { <<"$", "R", "1", "*", "0", "0">>, <<"$", "R", "2", "*", "1", "1">>,
          <<"$", "R", "0", "*", "0", "1">>, <<"$", "G", "1", "*", "1", "1">>,
          <<"$", "R", "1", "*", "0", "1">>, <<"$", "R", "1">>,
          <<"*">>, <<"0", "0">> }
====
