------------------------------- MODULE MCFraming --------------------------------
EXTENDS Framing

\* Words of two bits, least significant first, as on the wire.
MCValue == [w \in [1..2 -> {0, 1}] |-> w[1] + 2 * w[2]]
MCMagic == <<0, 1>>

\* A short message, one that is the magic word, and one above the limit.
MCPayloads == {<<1>>, <<0, 1>>, <<1, 0, 1>>}
================================================================================
