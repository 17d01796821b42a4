------------------------------ MODULE NoiseClean ------------------------------
(***************************************************************************)
(* noise_clean_samples of src/firmware/main.c: the loop over the samples,   *)
(* one iteration per step, in place.  The constants of the code are scaled   *)
(* with the width of a lane; with ByteHalf = 128, WordBits = 32 and          *)
(* NoiseShift = 6 they are the code's.  A product that overflows 32 bits     *)
(* wraps, as the machine's mul does.                                         *)
(***************************************************************************)
EXTENDS AuxOps, Sequences

CONSTANT NoiseShift       \* the shift of the noise estimate, 6 in the code
ASSUME ShiftAssumption == NoiseShift \in 1..(WordBits - 1)

(* A word has two lanes of half its bits, and a signed byte can hold a one.   *)
ASSUME LanesAssumption == 2^(WordBits \div 2) = 2 * LaneHalf /\ ByteHalf >= 2

VARIABLES
  samples,                \* the buffer
  num_samples,            \* how many of them to clean
  i,                      \* how many are done
  noise_energy_est, env_hist, env_idx, prev_x,
  prev_diff, prev2_diff, lms_c0, lms_c1
lms == <<prev_diff, prev2_diff, lms_c0, lms_c1>>
filter == <<noise_energy_est, env_hist, env_idx, prev_x, lms>>

Int16(x) == Signed(Bits(x, LaneHalf), LaneHalf)
pack16(lo, hi) == Pack(hi, lo)
ShiftRight(x, shamt) == Signed(aux_shiftn(Bits(x, WordHalf), shamt), WordHalf)

clip_limit == (30000 * LaneHalf) \div 32768
max_energy == WordHalf \div 2
h_conv == 1 + 2 * ByteHalf + (2 * ByteHalf)^2 + (2 * ByteHalf)^3
quarter == LaneHalf \div 4                 \* 0x2000

FilterStart ==
  /\ i = 0 /\ noise_energy_est = 0 /\ env_idx = 0 /\ prev_x = 0
  /\ env_hist = [k \in 0..3 |-> 0]
  /\ prev_diff = 0 /\ prev2_diff = 0 /\ lms_c0 = 0 /\ lms_c1 = 0

(* Steps 1 to 4, common to every sample: the sample after the soft clip, its *)
(* energy, the noise estimate and the envelope that follow from it.          *)
x_clip_pack == aux_clip16(pack16(samples[i + 1], 0), clip_limit)
x_clipped == Lo(x_clip_pack)
abs_x == Lo(aux_abs16(x_clip_pack))
energy == Signed(aux_abs2(pack16(x_clipped, 0)), WordHalf)

new_noise ==
  LET moved == Int32(noise_energy_est + ShiftRight(energy - noise_energy_est, NoiseShift))
  IN IF moved < 0 THEN 0 ELSE IF moved > max_energy THEN max_energy ELSE moved

new_env == [env_hist EXCEPT ![env_idx] = (abs_x \div (2 * ByteHalf)) % (2 * ByteHalf)]
env_avg ==
  LET env == new_env
      packed == env[0] + env[1] * 2 * ByteHalf + env[2] * (2 * ByteHalf)^2 + env[3] * (2 * ByteHalf)^3
      env_sum == Int32(aux_conv4(packed, h_conv) + aux_conv8(packed, h_conv))
      mean == ShiftRight(env_sum, 3)
  IN IF mean < 0 THEN 0 ELSE mean

Track ==
  /\ i < num_samples
  /\ i' = i + 1
  /\ noise_energy_est' = new_noise
  /\ env_hist' = new_env
  /\ env_idx' = (env_idx + 1) % 4
  /\ prev_x' = x_clipped
  /\ UNCHANGED num_samples

(* The early-out gate.                                                       *)
Gate ==
  /\ Track /\ env_avg = 0
  /\ samples' = [samples EXCEPT ![i + 1] = 0]
  /\ prev_diff' = 0 /\ prev2_diff' = 0 /\ lms_c0' = 0 /\ lms_c1' = 0

(* Steps 5 and 6.                                                            *)
hp_x_pack == pack16(x_clipped, prev_x)
hp_out == Signed(aux_mac16(hp_x_pack, pack16(1, -1)), WordHalf)
sum_dc == Signed(aux_msub16(hp_x_pack, pack16(1, -1)), WordHalf)

(* Step 7: the predictor and the update of its coefficients.                 *)
delta_c ==
  LET pred == Signed(aux_lmsstep(pack16(prev_diff, prev2_diff), pack16(lms_c0, lms_c1)), WordHalf)
      grad == Int32(Int32(hp_out - pred) * prev_diff)
  IN Int16(ShiftRight(grad, (3 * WordBits) \div 8))
Predict ==
  /\ lms_c0' = Int16(lms_c0 + delta_c)
  /\ lms_c1' = lms_c0'
  /\ prev2_diff' = prev_diff
  /\ prev_diff' = Int16(hp_out)

(* Step 8.                                                                   *)
mixed == Lo(aux_cmac(pack16(Int16(hp_out), Int16(sum_dc)), pack16(3 * quarter, -quarter)))

(* Step 9: the thresholds are kept in 32 bits; one that wraps below the       *)
(* estimate is taken as the largest number.                                  *)
Threshold(noise_u, shift) ==
  LET thr == Bits(noise_u * 2^shift, WordHalf) IN IF thr < noise_u THEN 2 * WordHalf - 1 ELSE thr
(* Mutant: the thresholds of the two middle gains are swapped. *)
GatedGain_swapped(noise_u) ==
  IF energy <= Threshold(noise_u, 1) THEN 0
  ELSE IF energy <= Threshold(noise_u, 3) THEN quarter
  ELSE IF energy <= Threshold(noise_u, 2) THEN 3 * quarter
  ELSE MaxLane
GatedGain(noise_u) ==
  IF energy <= Threshold(noise_u, 1) THEN 0
  ELSE IF energy <= Threshold(noise_u, 2) THEN quarter
  ELSE IF energy <= Threshold(noise_u, 3) THEN 3 * quarter
  ELSE MaxLane
gain_q15 ==
  LET gain == GatedGain(new_noise)
  IN IF env_avg > (200 * ByteHalf) \div 128 /\ gain > 3 * quarter THEN 3 * quarter ELSE gain

(* Step 10.                                                                  *)
y_clip(gain) ==
  LET scaled == aux_mac16(pack16(mixed, 0), pack16(gain, 0))
      y == Int16(aux_shiftn(scaled, WordBits \div 2 - 1))
  IN Lo(aux_clip16(pack16(y, 0), MaxLane))

Filter ==
  /\ Track /\ env_avg # 0
  /\ Predict
  /\ samples' = [samples EXCEPT ![i + 1] = IF gain_q15 = 0 THEN 0 ELSE y_clip(gain_q15)]

noise_clean_samples == Gate \/ Filter
=============================================================================
