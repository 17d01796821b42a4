------------------------------- MODULE NoiseGate -------------------------------
(***************************************************************************)
(* What the noise cleaner of src/firmware/main.c does to the samples, said   *)
(* without its instructions: exact integers, the last four levels as a list *)
(* with the newest first, no predictor and no compression.  A sample comes  *)
(* out silent while the mean level is too low or its energy is within twice *)
(* the noise floor, and as the mix times a gain that grows with the energy  *)
(* otherwise.                                                               *)
(***************************************************************************)
EXTENDS AudioOps, Sequences

CONSTANT NoiseShift    \* the noise floor moves by 2^-NoiseShift of the difference

VARIABLES input,       \* the samples as they were before the cleaning
          cleaned,     \* the samples cleaned so far
          last,        \* the limited sample before this one
          levels,      \* the levels of the last four samples, the newest first
          floor        \* the estimated energy of the noise
vars == <<input, cleaned, last, levels, floor>>

Within(x, lowest, highest) == IF x < lowest THEN lowest ELSE IF x > highest THEN highest ELSE x
(* The multiple of unit nearest to x, in units, away from zero between two.  *)
Rounded(x, unit) == IF x >= 0 THEN (2 * x + unit) \div (2 * unit) ELSE -((unit - 2 * x) \div (2 * unit))

Limit == (30000 * LaneHalf) \div 32768
Limited(x) == Within(x, -Limit, Limit)
Level(x) == (IF x < 0 THEN -x ELSE x) \div (2 * ByteHalf)
MeanLevel(l) == Rounded(l[1] + l[2] + l[3] + l[4], 4)
MovedFloor(energy) == Within(floor + Rounded(energy - floor, 2^NoiseShift), 0, WordHalf \div 2)
Gain(energy, noise) ==
  IF energy <= 2 * noise THEN 0
  ELSE IF energy <= 4 * noise THEN LaneHalf \div 4
  ELSE IF energy <= 8 * noise THEN 3 * (LaneHalf \div 4)
  ELSE MaxLane
(* The high-passed sample and the sum, each cut to a lane, and weighted.     *)
Mix(x, p) == LET hp == Lo(Bits(x - p, WordHalf))
                 dc == Lo(Bits(x + p, WordHalf))
             IN Within(3 * (LaneHalf \div 4) * hp + (LaneHalf \div 4) * dc, MinLane, MaxLane)

Init == cleaned = <<>> /\ last = 0 /\ levels = <<0, 0, 0, 0>> /\ floor = 0

Take(x) ==
  LET energy == x * x
  IN /\ last' = x
     /\ levels' = <<Level(x), levels[1], levels[2], levels[3]>>
     /\ floor' = MovedFloor(energy)
     /\ cleaned' = Append(cleaned, IF MeanLevel(levels') = 0 THEN 0
                                   ELSE Rounded(Mix(x, last) * Gain(energy, floor'), LaneHalf))
     /\ UNCHANGED input

Next == Len(cleaned) < Len(input) /\ Take(Limited(input[Len(cleaned) + 1]))
Spec == Init /\ [][Next]_vars
=============================================================================
