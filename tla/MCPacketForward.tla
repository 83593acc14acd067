-------------------------- MODULE MCPacketForward --------------------------
(* Model-checking instance of PacketForward: two originals, one channel    *)
(* end downstream, directives with 0..1 retries and a default of 1.        *)
EXTENDS PacketForward

CONSTANTS o1, o2, c1, p1

MCOriginals == {o1, o2}
MCChannels == {c1}
MCPorts == {p1}

\* The downstream channel end whose channel may be closed (close runs), or
\* none (runs about the open channel).
MCClosableEnd == {<<c1, p1>>}
MCNoClosable == {}

\* Enough sequence numbers that no forward or retry is ever cut off: every
\* original is sent at most (max budget + 1) times, plus the app's own sends.
MCMaxSeq == 2 * (1 + 1) + 1

ASSUME MCMaxSeq >= Cardinality(MCOriginals) * (MaxRetries + 1) + MaxAppSends
ASSUME MCMaxSeq >= Cardinality(MCOriginals) * (RetriesOnTimeout + 1) + MaxAppSends

MCSymmetry == Permutations(MCOriginals)
=============================================================================
