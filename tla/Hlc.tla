--------------------------------- MODULE Hlc ---------------------------------
(***************************************************************************)
(* Hybrid logical clocks.  A timestamp is one integer: the physical        *)
(* millisecond in the high bits, a logical counter in the low ones, so     *)
(* that comparing two timestamps compares the pairs lexicographically.     *)
(***************************************************************************)
EXTENDS Integers

CONSTANT LogicalSize    \* how many logical values a millisecond has (2^16)

ASSUME LogicalSizeAssumption == LogicalSize \in Nat \ {0}

(* Wrong: packed in a signed machine word, here one of 3 bits. *)
packHlcShifted(ms, logical) == ((ms * LogicalSize + logical + 4) % 8) - 4

packHlc(ms, logical) == ms * LogicalSize + logical

physicalMs(hlc) == hlc \div LogicalSize

Clock == [lastMs: Nat, logical: Nat]

NewClock == [lastMs |-> 0, logical |-> 0]

(* Wrong: follows the wall clock when it is set back. *)
AdvanceWithWall(clock, phys) ==
    IF phys # clock.lastMs
    THEN [lastMs |-> phys, logical |-> 0]
    ELSE [clock EXCEPT !.logical = @ + 1]

(* The clock after a local event at wall-clock time phys. *)
Advance(clock, phys) ==
    IF phys > clock.lastMs
    THEN [lastMs |-> phys, logical |-> 0]
    ELSE [clock EXCEPT !.logical = @ + 1]

(* packHlc throws once the counter leaves its 16 bits: now() returns no     *)
(* timestamp, and the caller never gets to save the clock.                  *)
Exhausted(clock) == clock.logical >= LogicalSize

HlcOf(clock) == packHlc(clock.lastMs, clock.logical)
==============================================================================
