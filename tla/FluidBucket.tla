----------------------------- MODULE FluidBucket -----------------------------
(***************************************************************************)
(* What a token bucket promises, without its integer bookkeeping: a level  *)
(* of credit that rises at exactly Rate and is capped at Burst, and from   *)
(* which bytes are taken.  Credit is counted in byte / NanosPerSecond, so  *)
(* Rate units are earned per nanosecond and a byte costs NanosPerSecond.   *)
(* A window is opened at an arbitrary moment, to state what may be spent   *)
(* over any interval and not only since the start.                         *)
(***************************************************************************)
EXTENDS Integers

CONSTANTS Rate, Burst, NanosPerSecond

VARIABLES
  credit,  \* what may be spent
  clock,   \* the time up to which credit has been earned
  window   \* [opened, spent]: since when bytes are counted, and how many

vars == <<credit, clock, window>>

Full == Burst * NanosPerSecond

Init ==
  /\ clock \in Nat
  /\ credit = Full
  /\ window = [opened |-> clock, spent |-> 0]

\* Time passes: the credit earned meanwhile is added, up to the cap.
Earn ==
  /\ clock' \in Nat
  /\ clock' > clock
  /\ credit' = IF credit + (clock' - clock) * Rate <= Full
               THEN credit + (clock' - clock) * Rate ELSE Full
  /\ UNCHANGED window

Spend(bytes) ==
  /\ bytes * NanosPerSecond <= credit
  /\ credit' = credit - bytes * NanosPerSecond
  /\ window' = [window EXCEPT !.spent = @ + bytes]
  /\ UNCHANGED clock

OpenWindow ==
  /\ window' = [opened |-> clock, spent |-> 0]
  /\ UNCHANGED <<credit, clock>>

Next == Earn \/ (\E bytes \in 1 .. Burst : Spend(bytes)) \/ OpenWindow

Spec == Init /\ [][Next]_vars
=============================================================================
