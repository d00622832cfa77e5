----------------------------- MODULE MCMemoryGraph -----------------------------
(* Small instances of MemoryGraph for TLC: two wordings of one fact, another    *)
(* fact that may expire, and a text without words.                              *)
EXTENDS MemoryGraph, TLC

CONSTANTS tea, Tea, cup, dots

ThreeFacts == {"drink", "cup", ""}
Wording == [c \in Contents |-> CASE c = cup -> "cup"
                                 [] c = dots -> ""
                                 [] OTHER -> "drink"]
NoWords == ""
DocSymmetry == Permutations(Docs)
=============================================================================
