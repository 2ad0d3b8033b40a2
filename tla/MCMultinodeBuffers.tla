-------------------------- MODULE MCMultinodeBuffers --------------------------
(***************************************************************************)
(* Two, three and four ranks and the multinode testcases.                  *)
(***************************************************************************)
EXTENDS MultinodeBuffers

Plan(size, keys, pairs, narrow) ==
  [size |-> size, keys |-> keys, pairs |-> pairs, narrow |-> narrow]

TwoPairs == <<<<1, 0>>, <<0, 1>>>>
SomePairs == <<<<2, 0>>, <<0, 1>>>>

\* Every testcase alone on three ranks, but the bisection on two and four.  On
\* two ranks: a bidirectional SM testcase whose width no GPU has, so that both
\* ranks throw in its first pair, between two others.
AllShapes ==
  {Plan(3, <<key>>, SomePairs, {}) : key \in DOMAIN Runs \ {"multinode_bisect_write_ce"}}
  \union {Plan(size, <<"multinode_bisect_write_ce">>, TwoPairs, {}) : size \in {2, 4}}
  \union {Plan(2, <<"multinode_device_to_device_memcpy_read_ce",
                    "multinode_device_to_device_bidirectional_memcpy_write_sm",
                    "multinode_device_to_device_bidirectional_memcpy_read_ce">>,
               TwoPairs, {0, 1})}

\* An SM write testcase with that element width: the rank that copies throws,
\* the others have no copy to make.
OneThrows ==
  {Plan(3, <<"multinode_device_to_device_memcpy_write_sm">>, TwoPairs, {0, 1, 2})}
===============================================================================
