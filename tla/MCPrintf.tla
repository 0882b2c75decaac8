------------------------------ MODULE MCPrintf -----------------------------
(***************************************************************************)
(* Printf with words of 2, 3, 4 and 6 bits: every conversion printf.c      *)
(* lists, and every format of at most four characters of nine kinds.       *)
(***************************************************************************)
EXTENDS Printf

MCBits == [hh |-> 2, h |-> 3, int |-> 4, long |-> 6]
MCStrings == {<<"s", "t">>}
MCArgs == {<<v, 1>> : v \in {0, 1, 11, 45, 63}} \cup {<<1, 45>>, <<45, 0>>}
Alphabet == {"%", "-", "0", "7", "l", "h", "d", "s", "y"}
MCFormats == {FormatOf(it) : it \in Items} \cup
    {<<"%", c, "%", d>> : c, d \in Conversions} \cup UNION {[1..n -> Alphabet] : n \in 0..4}
=============================================================================
