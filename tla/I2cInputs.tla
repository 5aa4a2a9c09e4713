----------------------------- MODULE I2cInputs ------------------------------
(* i2c_rpi/i2c_rpi.cpp: what the bus thread reads.  Each cycle it reads the  *)
(* two input registers of a port expander into inputs[], then converts the   *)
(* ADC channels that somebody has requested.  A register that cannot be read *)
(* reads as 0.                                                               *)
EXTENDS Integers, FiniteSets

CONSTANTS
    Askers,        \* threads that call getADCvoltage
    Channels,      \* 0 .. NUMADCINPUTS - 1
    Polls,         \* polls before getADCvoltage gives up (100)
    MaxFaults      \* bound: transfers that fail in one behaviour

ASSUME InputsAssumption ==
    /\ Channels \subseteq Nat /\ 0 \in Channels
    /\ Polls \in Nat \ {0} /\ MaxFaults \in Nat

VARIABLES
    inputs,        \* the image: one bit of either register
    bus, u2,       \* i2cproc: where it is; the bits read
    adcinputs,     \* per channel: Requested, or a conversion
    apc, to,       \* the askers: the channel they wait for, polls left
    asks, faults,  \* questions asked; transfers that failed
    (* ghost *)
    answer         \* what each asker was told last

busvars == <<bus, u2, inputs>>
adcvars == <<adcinputs, apc, to, asks, answer>>

(* 0xffff.  A conversion stands for the askers that waited when it began.    *)
Requested == [asked |-> TRUE, waiting |-> {}]
Conversion(ws) == [asked |-> FALSE, waiting |-> ws]
Idle == -1

InitInputs ==
    /\ inputs = [a |-> 0, b |-> 0]
    /\ bus = [at |-> "a", channel |-> 0, began |-> {}] /\ u2 = [a |-> 0, b |-> 0]
    /\ adcinputs = [c \in Channels |-> Conversion({})]
    /\ apc = [u \in Askers |-> Idle] /\ to = [u \in Askers |-> 0]
    /\ asks = 0 /\ faults = [gpio |-> 0, adc |-> 0]
    /\ answer = [u \in Askers |-> "none"]

-----------------------------------------------------------------------------
(* getADCvoltage                                                             *)

(* Mutant: the last conversion is taken if there is one.                     *)
AskUsesOld(u, c) ==
    /\ apc[u] = Idle
    /\ asks' = asks + 1
    /\ apc' = [apc EXCEPT ![u] = c]
    /\ to' = [to EXCEPT ![u] = Polls]
    /\ answer' = [answer EXCEPT ![u] = "none"]
    /\ bus' = [bus EXCEPT !.began = @ \ {u}]
    /\ UNCHANGED <<u2, inputs, adcinputs, faults>>

Ask(u, c) ==
    /\ apc[u] = Idle
    /\ asks' = asks + 1
    /\ adcinputs' = [adcinputs EXCEPT ![c] = Requested]
    /\ apc' = [apc EXCEPT ![u] = c]
    /\ to' = [to EXCEPT ![u] = Polls]
    /\ answer' = [answer EXCEPT ![u] = "none"]
    /\ bus' = [bus EXCEPT !.began = @ \ {u}]
    /\ UNCHANGED <<u2, inputs, faults>>

(* The answer is fresh if its conversion began after the question, under way *)
(* if it ended after it, and 0xffff volts if the polls are used up.          *)
Look(u) ==
    /\ apc[u] # Idle
    /\ LET v == adcinputs[apc[u]]
       IN  \/ /\ v # Requested
              /\ apc' = [apc EXCEPT ![u] = Idle] /\ UNCHANGED to
              /\ answer' = [answer EXCEPT ![u] = IF u \in v.waiting THEN "fresh" ELSE "under way"]
           \/ /\ v = Requested
              /\ to' = [to EXCEPT ![u] = @ - 1]
              /\ IF to[u] = 1
                 THEN /\ apc' = [apc EXCEPT ![u] = Idle]
                      /\ answer' = [answer EXCEPT ![u] = "0xffff"]
                 ELSE UNCHANGED <<apc, answer>>
    /\ UNCHANGED <<busvars, adcinputs, asks, faults>>

-----------------------------------------------------------------------------
(* i2cproc                                                                   *)

Fault(kind) ==
    /\ faults.gpio + faults.adc < MaxFaults
    /\ faults' = [faults EXCEPT ![kind] = @ + 1]

Goto(place) == bus' = [bus EXCEPT !.at = place]

(* One register: the level on the wire, or 0 after a fault.                  *)
ReadRegister(r, next, level) ==
    /\ bus.at = r
    /\ \/ u2' = [u2 EXCEPT ![r] = level] /\ UNCHANGED faults
       \/ Fault("gpio") /\ u2' = [u2 EXCEPT ![r] = 0]
    /\ Goto(next)
    /\ UNCHANGED <<inputs, adcvars>>

StoreInputs ==
    /\ bus.at = "store"
    /\ inputs' = u2
    /\ bus' = [at |-> "adc", channel |-> 0, began |-> {}]
    /\ UNCHANGED <<u2, adcvars, faults>>

NextChannel ==
    bus' = IF bus.channel + 1 \in Channels
           THEN [at |-> "adc", channel |-> bus.channel + 1, began |-> {}]
           ELSE [at |-> "a", channel |-> 0, began |-> {}]

SkipChannel ==
    /\ bus.at = "adc"
    /\ adcinputs[bus.channel] # Requested
    /\ NextChannel
    /\ UNCHANGED <<u2, inputs, adcvars, faults>>

BeginConversion ==
    /\ bus.at = "adc"
    /\ adcinputs[bus.channel] = Requested
    /\ bus' = [bus EXCEPT !.at = "convert", !.began = {u \in Askers : apc[u] = bus.channel}]
    /\ UNCHANGED <<u2, inputs, adcvars, faults>>

(* Mutant: a conversion that nobody waits for any more is not stored.        *)
EndConversionIfAwaited ==
    /\ bus.at = "convert"
    /\ IF \E u \in Askers : apc[u] = bus.channel
       THEN adcinputs' = [adcinputs EXCEPT ![bus.channel] = Conversion(bus.began)]
       ELSE UNCHANGED adcinputs
    /\ NextChannel
    /\ UNCHANGED <<u2, inputs, apc, to, asks, answer, faults>>

(* read_adc16 returns -1, which is 0xffff, if the channel cannot be selected.*)
EndConversion ==
    /\ bus.at = "convert"
    /\ \/ adcinputs' = [adcinputs EXCEPT ![bus.channel] = Conversion(bus.began)] /\ UNCHANGED faults
       \/ Fault("adc") /\ adcinputs' = [adcinputs EXCEPT ![bus.channel] = Requested]
    /\ NextChannel
    /\ UNCHANGED <<u2, inputs, apc, to, asks, answer>>

read_adc == SkipChannel \/ BeginConversion \/ EndConversion
=============================================================================
