---------------------------- MODULE SampleStream ----------------------------
(***************************************************************************)
(* What the sound output promises: the loudspeaker gets the samples that   *)
(* the engine mixes, each once and in their order, whatever the threads    *)
(* and messages between the two; and the engine mixes at most Capacity     *)
(* samples ahead.  A sample is its number in the stream.                   *)
(***************************************************************************)
EXTENDS Integers, Sequences

CONSTANT Capacity

VARIABLES
  mixed,   \* how many samples the engine has mixed
  heard,   \* how many of them have been played
  speaker  \* the samples played last

vars == <<mixed, heard, speaker>>

Init ==
  /\ mixed = Capacity
  /\ heard = 0
  /\ speaker = <<>>

Mix(n) ==
  /\ mixed + n - heard <= Capacity
  /\ mixed' = mixed + n
  /\ UNCHANGED <<heard, speaker>>

Play(n) ==
  /\ n <= mixed - heard
  /\ speaker' = [i \in 1..n |-> heard + i - 1]
  /\ heard' = heard + n
  /\ UNCHANGED mixed

Next == \E n \in 1..Capacity : Mix(n) \/ Play(n)

Spec == Init /\ [][Next]_vars
=============================================================================
