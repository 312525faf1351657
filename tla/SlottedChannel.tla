---------------------------- MODULE SlottedChannel ----------------------------
(***************************************************************************)
(* What the controller, the MACs and their queues promise together,        *)
(* whatever the packets, the times and the order of the events: the        *)
(* channel goes round the slots of the frame, each MAC has it for the      *)
(* whole of its run of consecutive slots, and it is passed on only when    *)
(* nobody is transmitting.                                                 *)
(***************************************************************************)
EXTENDS Integers

CONSTANTS
  TotalSlots,
  Owner        \* the MAC of each slot

VARIABLES
  next,        \* first slot of the next turn, Off before the frame has started
  sending      \* MACs that are transmitting

Off == -1

(* The owner of slot k has the n slots from k on, and not the one after them. *)
Turn(k, n) ==
  /\ k + n <= TotalSlots
  /\ \A j \in k..(k + n - 1) : Owner[j] = Owner[k]
  /\ k + n < TotalSlots => Owner[k + n] # Owner[k]

Init == next = Off /\ sending = {}

Start ==
  /\ next = Off
  /\ next' = 0
  /\ UNCHANGED sending

(* The channel is silent when it is passed on; the MAC it is given to may transmit. *)
PassOn ==
  /\ next # Off /\ sending = {}
  /\ \E n \in 1..TotalSlots : Turn(next, n) /\ next' = (next + n) % TotalSlots
  /\ sending' \in {{}, {Owner[next]}}

(* The owner has nothing left that fits its slots. *)
FallSilent ==
  /\ sending' = {}
  /\ UNCHANGED next

Next == Start \/ PassOn \/ FallSilent

Spec == Init /\ [][Next]_<<next, sending>>
=============================================================================
