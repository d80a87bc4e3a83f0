----------------------------- MODULE MCTunerData -----------------------------
(* Instances of TunerData for TLC. *)
EXTENDS TunerData

MCBandIII == <<
  174928, 176640, 178352, 180064, 181936, 183648, 185360, 187072, 188928,
  190640, 192352, 194064, 195936, 197648, 199360, 201072, 202928, 204640,
  206352, 208064, 209936, 210096, 211648, 213360, 215072, 216928, 217088,
  218640, 220352, 222064, 223936, 224096, 225648, 227360, 229072, 230784,
  232496, 234208, 235776, 237488, 239200>>

\* Another list, shorter and in another order.
MCDefaultList == <<227360, 174928, 239200>>

\* A service of 16 bits and one of 32.
MCService == {53776, 16909060}

MCProperty == {5904}
MCLeftover == {0, 9}
MCStation == {10800}

Plain(ds) == [minus |-> FALSE, prefix |-> FALSE, digits |-> ds]

\* 1, 41, 286, -1; 93104, 108001; the IDs in decimal; two properties, of
\* which the tuner has one, values of 16 bits and of 17.
MCNumeral ==
  {Plain(ds) : ds \in
     {<<1>>, <<4, 1>>, <<2, 8, 6>>, <<9, 3, 1, 0, 4>>, <<1, 0, 8, 0, 0, 1>>,
      <<5, 3, 7, 7, 6>>, <<1, 6, 9, 0, 9, 0, 6, 0>>,
      <<1, 7, 1, 0>>, <<15, 15, 15, 14>>}}
  \union {[minus |-> FALSE, prefix |-> TRUE, digits |-> <<1, 7, 1, 1>>],
          [minus |-> TRUE, prefix |-> FALSE, digits |-> <<1>>]}
=============================================================================
