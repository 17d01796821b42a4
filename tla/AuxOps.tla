-------------------------------- MODULE AuxOps --------------------------------
(***************************************************************************)
(* The wrappers of src/firmware/aux.c: each puts its operands in a0 and a1, *)
(* executes one audio instruction, named by its funct7, and returns a0.      *)
(***************************************************************************)
EXTENDS AudioOps

aux_mac16(a, b) == AudioResult("MAC16", a, b)
aux_abs16(x) == AudioResult("ABS16", x, 0)
aux_abs2(x) == AudioResult("ABS2", x, 0)
aux_msub16(a, b) == AudioResult("MSUB16", a, b)
aux_conv4(x_packed, h_packed) == AudioResult("CONV4", x_packed, h_packed)
aux_conv8(x_packed, h_packed) == AudioResult("CONV8", x_packed, h_packed)
aux_lmsstep(x_packed, h_packed) == AudioResult("LMSSTEP", x_packed, h_packed)
aux_cmac(x_complex, h_complex) == AudioResult("CMAC", x_complex, h_complex)
aux_clip16(x, limit) == AudioResult("CLIP16", x, Bits(limit, LaneHalf))
aux_shiftn(x, shamt) == AudioResult("SHIFTN", x, shamt)
=============================================================================
