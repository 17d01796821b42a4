------------------------------ MODULE MCAudioDemo ------------------------------
(* Long files over a few samples, and short ones with every header and every  *)
(* choice of arguments.                                                      *)
EXTENDS AudioDemo

ShortSamples == {-70, 127}
Tuples(S, n) == [1..n -> S]

LongPayloads ==
  {p \o q : p \in Tuples({-128, 20, 127}, 4), q \in Tuples({-128, 20}, EXAMPLE_NUM_SAMPLES - 4)}
  \cup Tuples({-90, -30, 5, 64, 100}, 4)
Long == {[whole |-> TRUE, odd |-> 0, in_wav |-> TRUE, out_wav |-> TRUE, wav_base |-> TRUE, payload |-> p,
          hdr |-> [tags |-> TRUE, pcm16mono |-> TRUE, riff_size |-> 36 + 2 * Len(p), data_size |-> 2 * Len(p)]] :
         p \in LongPayloads}

Headers == [tags : BOOLEAN, pcm16mono : BOOLEAN, riff_size : {40}, data_size : {0, 1, 3, 4, 14, 17}]
Short == [whole : BOOLEAN, odd : {0, 1}, in_wav : BOOLEAN, out_wav : BOOLEAN, wav_base : BOOLEAN,
          payload : UNION {Tuples(ShortSamples, n) : n \in 0..1} \cup {[k \in 1..n |-> 127] : n \in {2, 8}},
          hdr : Headers]
AllRuns == Long \cup Short
=============================================================================
