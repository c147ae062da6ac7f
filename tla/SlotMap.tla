------------------------------ MODULE SlotMap ------------------------------
(***************************************************************************)
(* Arithmetic of the ring buffer of PA2/queue.h: how many slots it has for *)
(* a requested size, and which slot a ticket uses.  AtomicQueue takes from *)
(* here that tickets less than the size apart never share a slot.          *)
(*                                                                         *)
(* The machine walks through the tickets of each ring, one per state, so   *)
(* that the properties are checked for every ticket of a whole turn.       *)
(***************************************************************************)
EXTENDS Integers, Bitwise

CONSTANTS
  ShuffleBits,    \* SHUFFLE_BITS: log2 of the states on a cache line (6 in the code)
  Requests        \* the sizes asked for (100 in the code)

ASSUME ShuffleAssumption == ShuffleBits \in Nat \ {0}
ASSUME RequestsAssumption == Requests \subseteq Nat \ {0}

\* or_equal(x, 1, 2, 4, 8, 16): every bit below the highest one is set.
OrEqual(x, u) == x | (x \div 2 ^ u)
Smeared(x) == OrEqual(OrEqual(OrEqual(OrEqual(OrEqual(x, 1), 2), 4), 8), 16)

RoundUpToPowerOf2(a) == Smeared(a - 1) + 1

SizeFor(request) ==
  LET rounded == RoundUpToPowerOf2(request)
      least   == 2 ^ (2 * ShuffleBits)
  IN  IF rounded >= least THEN rounded ELSE least

\* remap_index: the lowest ShuffleBits bits change places with the next ones.
Mask == 2 ^ ShuffleBits - 1
Unmasked(index) == index ^^ (index \div 2 ^ ShuffleBits)    \* mutant of Mix: the mask is forgotten
Mix(index) == (index ^^ (index \div 2 ^ ShuffleBits)) & Mask
RemapIndex(index) == (index ^^ Mix(index)) ^^ (Mix(index) * 2 ^ ShuffleBits)

SlotOf(k, size) == RemapIndex(k & (size - 1))

VARIABLES request, ticket
vars == <<request, ticket>>

Init == request \in Requests /\ ticket = 0

\* push and try_pop go through the tickets one by one; one turn and a little more.
NextTicket ==
  /\ ticket < SizeFor(request) + 2 ^ ShuffleBits
  /\ ticket' = ticket + 1
  /\ UNCHANGED request

Spec == Init /\ [][NextTicket]_vars

-----------------------------------------------------------------------------
(* Properties *)

\* The ring is the smallest power of two that holds the requested number of items and
\* a square of cache lines: the masking of tickets relies on it.
SizeIsLeastPower ==
  LET size == SizeFor(request)
      Enough(n) == n >= request /\ n >= 2 ^ (2 * ShuffleBits)
  IN  /\ \E w \in 0 .. 30 : size = 2 ^ w
      /\ Enough(size)
      /\ ~ Enough(size \div 2)

\* Different tickets of one turn have different slots of the ring: the remapping is
\* its own inverse, and stays within the ring.
OneSlotPerTicket ==
  LET size == SizeFor(request)
      slot == SlotOf(ticket, size)
  IN  SizeIsLeastPower /\ slot \in 0 .. size - 1 /\ RemapIndex(slot) = ticket % size
=============================================================================
