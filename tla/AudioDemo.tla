------------------------------- MODULE AudioDemo -------------------------------
(***************************************************************************)
(* One run of the audio demo: the host program src/testbench.cc loads a WAV *)
(* file into the firmware's wav_buffer, runs the processor until the         *)
(* firmware src/firmware/main.c stops, and dumps the buffer into a file.     *)
(* The clock, the traces and the text on the console are left out; the       *)
(* buffer is zero when it was not loaded, as the memory of the simulation.   *)
(***************************************************************************)
EXTENDS NoiseClean

CONSTANTS
  EXAMPLE_NUM_SAMPLES,    \* the samples wav_buffer holds, 4096 in the code
  Runs                    \* the files and arguments considered, records of Run
ASSUME BufferAssumption == EXAMPLE_NUM_SAMPLES \in Nat

VARIABLES
  run,                    \* the input file and the arguments given
  pc,                     \* where the two programs are
  hdr,                    \* the header in wav_buffer
  console,                \* what the firmware reports
  output                  \* the output file
host == <<run, output>>
firmware == <<samples, num_samples, i, filter>>
vars == <<run, pc, hdr, console, output, firmware>>

Least(a, b) == IF a <= b THEN a ELSE b

HeaderBytes == 44
BufferBytes == HeaderBytes + 2 * EXAMPLE_NUM_SAMPLES
Header == [tags : BOOLEAN, pcm16mono : BOOLEAN, riff_size : Nat, data_size : Nat]
NoHeader == [tags |-> FALSE, pcm16mono |-> FALSE, riff_size |-> 0, data_size |-> 0]
(* whole: the file is as long as a header.  odd: a byte follows the payload. *)
Run == [whole : BOOLEAN, hdr : Header, payload : Seq(MinLane..MaxLane), odd : {0, 1},
        in_wav : BOOLEAN, out_wav : BOOLEAN, wav_base : BOOLEAN]
ASSUME RunAssumption == \A r \in Runs : r \in Run

Silent == [shown |-> <<>>, total |-> 0]
NoOutput == [hdr |-> NoHeader, bytes |-> 0, samples |-> <<>>]

Init ==
  /\ run \in Runs
  /\ pc = "load"
  /\ hdr = NoHeader /\ samples = [k \in 1..EXAMPLE_NUM_SAMPLES |-> 0] /\ num_samples = 0
  /\ FilterStart
  /\ console = Silent /\ output = NoOutput

-----------------------------------------------------------------------------
(* The host: load_wav_into_memory.                                           *)
fsize == HeaderBytes + 2 * Len(run.payload) + run.odd
to_read == Least(fsize, BufferBytes)
(* Mutant: the host takes a file the firmware will refuse. *)
Loadable_any_format == run.whole /\ run.hdr.tags
Loadable == run.whole /\ run.hdr.tags /\ run.hdr.pcm16mono

(* The bytes of the file over the buffer; a last odd byte, of value 1 here,   *)
(* is the low half of a sample.                                              *)
Loaded == [k \in 1..EXAMPLE_NUM_SAMPLES |->
             IF 2 * k <= to_read - HeaderBytes THEN run.payload[k]
             ELSE IF 2 * k = to_read - HeaderBytes + 1 THEN 1
             ELSE samples[k]]
(* Mutant: the size in the header is not cut to what was read. *)
LoadedHeader_uncut == run.hdr
LoadedHeader == [run.hdr EXCEPT !.data_size = Least(@, to_read - HeaderBytes)]

LoadInput ==
  /\ pc = "load" /\ run.in_wav /\ run.wav_base
  /\ Loadable
  /\ hdr' = LoadedHeader /\ samples' = Loaded
  /\ pc' = "check"
  /\ UNCHANGED <<run, console, output, num_samples, i, filter>>

(* No input, no base, a file of the wrong form, or a failure to open, seek,   *)
(* allocate or read: the program runs on without input.                      *)
RunWithoutInput ==
  /\ pc = "load"
  /\ pc' = "check"
  /\ UNCHANGED <<run, hdr, console, output, firmware>>

-----------------------------------------------------------------------------
(* The firmware: noise_clean_wav_inplace and main.                           *)
CheckHeader ==
  /\ pc = "check"
  /\ IF hdr.tags /\ hdr.pcm16mono
       THEN pc' = "clean" /\ num_samples' = hdr.data_size \div 2
       ELSE pc' = "report" /\ UNCHANGED num_samples
  /\ UNCHANGED <<run, hdr, console, output, samples, i, filter>>

Clean == pc = "clean" /\ noise_clean_samples /\ UNCHANGED <<run, pc, hdr, console, output>>
CleanDone == pc = "clean" /\ i = num_samples /\ pc' = "report" /\ UNCHANGED <<run, hdr, console, output, firmware>>

(* The firmware prints the first eight samples and their number, and traps,   *)
(* which ends the simulation.                                                *)
Report ==
  /\ pc = "report"
  /\ LET total == hdr.data_size \div 2
     IN console' = [shown |-> SubSeq(samples, 1, Least(8, total)), total |-> total]
  /\ pc' = "dump"
  /\ UNCHANGED <<run, hdr, output, firmware>>

-----------------------------------------------------------------------------
(* The host: dump_wav_from_memory.  A write may fail, which leaves a file cut *)
(* off: at its start, behind the header or before its last byte.             *)
total_bytes == Least(HeaderBytes + hdr.data_size, BufferBytes)
Dump ==
  /\ pc = "dump" /\ run.out_wav /\ run.wav_base /\ hdr.tags
  /\ \E bytes \in {0, HeaderBytes, total_bytes - 1, total_bytes} :
       output' = [hdr |-> hdr, bytes |-> bytes,
                  samples |-> SubSeq(samples, 1, (bytes - HeaderBytes) \div 2)]
  /\ pc' = "done"
  /\ UNCHANGED <<run, hdr, console, firmware>>

(* No output asked for, no header found, or the file cannot be opened.       *)
NoDump == pc = "dump" /\ pc' = "done" /\ UNCHANGED <<run, hdr, console, output, firmware>>

Next == LoadInput \/ RunWithoutInput \/ CheckHeader \/ Clean \/ CleanDone \/ Report \/ Dump \/ NoDump
Spec == Init /\ [][Next]_vars
-----------------------------------------------------------------------------
(* The samples are cleaned as NoiseGate says, from the samples of the file    *)
(* although they are overwritten on the way: the ring of levels is the list  *)
(* of the last four, the thresholds kept in 32 bits choose the gain exact     *)
(* ones would, and neither the predictor nor the compression has any effect. *)
Gated == INSTANCE NoiseGate WITH
  input <- run.payload, cleaned <- SubSeq(samples, 1, i), last <- prev_x, floor <- noise_energy_est,
  levels <- <<env_hist[(env_idx + 3) % 4], env_hist[(env_idx + 2) % 4],
              env_hist[(env_idx + 1) % 4], env_hist[env_idx]>>
ImplementsNoiseGate == Gated!Spec

(* The firmware never cleans beyond its buffer, whatever size the file states.*)
CleansWithinBuffer == num_samples <= EXAMPLE_NUM_SAMPLES

(* An output file, even one cut off, comes from a file that passed every      *)
(* check: its samples were all cleaned and are the ones reported, what lies   *)
(* behind them is still the input, and a file written to the end has the      *)
(* length its header states.                                                 *)
OutputIsCleanedInput ==
  output # NoOutput =>
    /\ Loadable /\ run.in_wav
    /\ i = output.hdr.data_size \div 2 /\ console.total = i
    /\ \A k \in 1..Least(8, Len(output.samples)) : console.shown[k] = output.samples[k]
    /\ \A k \in (i + 1)..Least(EXAMPLE_NUM_SAMPLES, Len(run.payload)) : samples[k] = run.payload[k]
    /\ HeaderBytes + output.hdr.data_size <= BufferBytes

(* The comment at main.c:175 and :177: step 8 "Mix high-passed signal and DC  *)
(* estimate with CMAC" with the weights "0.75 - j*0.25" in the Q1.15 format   *)
(* of the gains, so that the real part is 3/4 of the one and 1/4 of the other.*)
MixIsWeightedSum ==
  pc = "clean" /\ i < num_samples /\ env_avg # 0 =>
    LET error == 4 * mixed - 3 * hp_out - sum_dc
    IN hp_out \in MinLane..MaxLane /\ sum_dc \in MinLane..MaxLane => error \in -4..4
=============================================================================
