---------------------------- MODULE MCEnvelopes ----------------------------
(* Constants for the run of Envelopes.                                     *)
EXTENDS Envelopes

\* The first key of tests/vectors/nostr-vectors.json and its npub.
VectorKey ==
    <<64, 46, 184, 229, 22, 20, 125, 127, 184, 226, 53, 62, 137, 91, 33,
      176, 99, 189, 160, 146, 17, 101, 246, 62, 23, 163, 64, 142, 112,
      26, 227, 235>>
VectorNpub ==
    <<"n", "p", "u", "b", "1", "g", "q", "h", "t", "3", "e", "g", "k",
      "z", "3", "7", "h", "l", "w", "8", "z", "x", "5", "l", "g", "j",
      "k", "e", "p", "k", "p", "3", "m", "m", "g", "y", "j", "z", "9",
      "j", "l", "v", "0", "s", "h", "5", "d", "q", "g", "u", "u", "q",
      "6", "u", "0", "4", "s", "x", "w", "k", "z", "9", "8">>

ASSUME VectorAssumption ==
    B32!encode_npub(VectorKey) = Ok(VectorNpub) /\ B32!decode(VectorNpub) = Ok(<<B32!npub, VectorKey>>)

MCEdgeLengths == {0, 1, 32, 33, 256, 257, 1024, 1025, 40598, 40599, 40682, 40683, 65535, 65536}
MCLengths     == 0..65537
MCKeyBytes    == {0, 255}
MCSymbols     == {0, 1, 16, 31}
=============================================================================
