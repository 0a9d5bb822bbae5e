---------------------------- MODULE MCSharedRing ----------------------------
(* Instances of SharedRing for TLC.                                        *)
EXTENDS SharedRing

\* Lengths 0, 1 and 3: with the prefix they leave every offset of an
\* eight-byte ring, so prefixes and payloads wrap in every way.
SomePayloads == {<<>>, <<7>>, <<9, 8, 7>>}
=============================================================================
