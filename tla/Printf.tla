------------------------------- MODULE Printf ------------------------------
(***************************************************************************)
(* The formatted output of printf.c: _do_vprintf as the machine it is, one *)
(* character of the format at a time.                                      *)
(*                                                                         *)
(* The code tests for the end of the format at the head of its loop only,  *)
(* and some states step over a character without going there: "head" says *)
(* whether the test comes next.  Integers have Bits bits each.             *)
(***************************************************************************)
EXTENDS Integers, Sequences, FiniteSets, SequencesExt

CONSTANTS
    Formats,     \* the formats given to printf: sequences of characters
    Args,        \* the arguments: sequences of 64-bit registers' values
    Strings,     \* what an argument that is a pointer points to
    Bits         \* widths of "hh", "h", "int" and "long"

Nul == "NUL"
Char == "@"    \* the character that a register holds, if it is not NUL

\* The character that ends a format is in none.
ASSUME PrintfAssumption ==
    /\ Formats \subseteq Seq(STRING \ {Nul})
    /\ Bits \in [{"hh", "h", "int", "long"} -> Nat \ {0}]
    /\ \A type \in DOMAIN Bits : 2^Bits[type] \in Nat \ {0}
    /\ Args \subseteq Seq(0..(2^Bits["long"] - 1))
    /\ Strings \subseteq Seq(STRING)

Num10 == <<"0", "1", "2", "3", "4", "5", "6", "7", "8", "9">>
HexDigits == Num10 \o <<"A", "B", "C", "D", "E", "F">> \o
             Num10 \o <<"a", "b", "c", "d", "e", "f">>

VARIABLES
    fmt, args, str,   \* what printf is called with
    used,             \* arguments that va_arg has taken
    i,                \* fmt: the next character
    head,             \* the loop condition is evaluated next
    state, flags,     \* locals of _do_vprintf
    wd,               \* given_wd
    out,              \* the characters output
    end               \* "running", "returned" or "overrun"

vars == <<fmt, args, str, used, i, head, state, flags, wd, out, end>>
call == <<fmt, args, str>>

----------------------------------------------------------------------------
(* Conversions.                                                            *)

Conversions == {"p", "x", "X", "d", "i", "u", "o", "c", "s"}

Low(v, width) == v % 2^Bits[width]
Signed(v, width) == LET n == Low(v, width)
                    IN  IF n < 2^(Bits[width] - 1) THEN n ELSE n - 2^Bits[width]

\* The type that the modifiers leave.
Width == IF "64" \in flags THEN "long"
         ELSE IF "16" \in flags THEN "h"
         ELSE IF "8" \in flags THEN "hh" ELSE "int"

\* An int that is not passed in full, then narrowed.
Arg == args[used + 1]
Fetch(conv) == IF conv \in {"d", "i"} THEN Signed(Arg, Width) ELSE Low(Arg, Width)

\* Digits of n, last one first produced; from is 16 for lower case.
DigitsOf(n, base, from) ==
    LET D[m \in 0..n] == IF m < base THEN <<HexDigits[from + m + 1]>>
                         ELSE Append(D[m \div base], HexDigits[from + (m % base) + 1])
    IN  D[n]

Absolute(n) == IF n < 0 THEN -n ELSE n

\* The string at "where", the sign or prefix before it, and whether zeroes
\* may pad it.  PRINT_UCP is not defined: pointers are in lower case.
Converted(conv) ==
    LET plain(s) == [body |-> s, sign |-> <<>>, zeros |-> FALSE]
        zeros    == "pad0" \in flags
        number(base, from) == DigitsOf(Absolute(Fetch(conv)), base, from)
    IN  CASE conv = "p" /\ Arg = 0 -> plain(<<"(", "n", "i", "l", ")">>)
          [] conv = "p" /\ Arg # 0 ->
                           [body |-> DigitsOf(Arg, 16, 16), sign |-> <<"0", "x">>,
                            zeros |-> zeros]
          [] conv = "x" -> [body |-> number(16, 16), sign |-> <<>>, zeros |-> zeros]
          [] conv = "X" -> [body |-> number(16, 0), sign |-> <<>>, zeros |-> zeros]
          [] conv = "o" -> [body |-> number(8, 0), sign |-> <<>>, zeros |-> zeros]
          [] conv = "u" -> [body |-> number(10, 0), sign |-> <<>>, zeros |-> zeros]
          [] conv \in {"d", "i"} -> [body |-> number(10, 0), zeros |-> zeros,
                                     sign |-> IF Fetch(conv) < 0 THEN <<"-">> ELSE <<>>]
          [] conv = "c" -> plain(IF Low(Arg, "hh") = 0 THEN <<>> ELSE <<Char>>)
          [] conv = "s" -> plain(IF Arg = 0 THEN <<"(", "n", "u", "l", "l", ")">>
                                 ELSE str)

Padding(c) == LET actual == Len(c.body) + Len(c.sign)
              IN  IF wd > actual THEN wd - actual ELSE 0

Times(n, ch) == [k \in 1..n |-> ch]

\* Mutant: zeroes pad before the sign.
Emitted_ZeroFirst(c) ==
    IF "left" \in flags THEN c.sign \o c.body \o Times(Padding(c), " ")
    ELSE Times(Padding(c), IF c.zeros THEN "0" ELSE " ") \o c.sign \o c.body

Emitted(c) ==
    LET pad == Padding(c)
    IN  IF "left" \in flags THEN c.sign \o c.body \o Times(pad, " ")
        ELSE IF c.zeros THEN c.sign \o Times(pad, "0") \o c.body
        ELSE Times(pad, " ") \o c.sign \o c.body
----------------------------------------------------------------------------
(* The machine.                                                            *)

Ch == IF i <= Len(fmt) THEN fmt[i] ELSE Nul
After == IF i < Len(fmt) THEN fmt[i + 1] ELSE Nul

\* The code is in state s, and looks at the next character.
In(s) == end = "running" /\ state = s /\ i <= Len(fmt) + 1 /\ ~(head /\ Ch = Nul)
Goto(skip, s, looping) ==
    i' = i + skip /\ state' = s /\ head' = looping /\ UNCHANGED <<call, end>>

Text ==
    /\ In(0)
    /\ IF Ch = "%" THEN Goto(1, 1, FALSE) /\ flags' = {} /\ out' = out
                   ELSE Goto(1, 0, TRUE) /\ flags' = flags /\ out' = Append(out, Ch)
    /\ UNCHANGED <<wd, used>>

Flag ==
    /\ In(1)
    /\ CASE Ch = "%" -> Goto(1, 0, TRUE) /\ out' = Append(out, Ch) /\ UNCHANGED <<flags, wd>>
         [] Ch = "-" -> Goto(1, 1, TRUE) /\ flags' = flags \cup {"left"} /\ UNCHANGED <<wd, out, used>>
         [] Ch = "0" -> Goto(1, 2, FALSE) /\ flags' = flags \cup {"pad0"} /\ wd' = 0 /\ out' = out
         [] OTHER    -> Goto(0, 2, FALSE) /\ wd' = 0 /\ UNCHANGED <<flags, out>>
    /\ UNCHANGED used

FieldWidth ==
    /\ In(2)
    /\ IF \E d \in 1..10 : Ch = Num10[d]
       THEN Goto(1, 2, TRUE) /\ wd' = 10 * wd + (CHOOSE d \in 1..10 : Ch = Num10[d]) - 1
       ELSE Goto(0, 3, FALSE) /\ wd' = wd
    /\ UNCHANGED <<flags, out, used>>

\* Mutant: a second letter is skipped unseen.
Modifier_Skip ==
    /\ In(3)
    /\ CASE Ch \in {"z", "t", "l", "L"} -> Goto(2, 3, TRUE) /\ flags' = flags \cup {"64"}
         [] Ch = "h" -> Goto(2, 3, TRUE) /\ flags' = flags \cup {"8"}
         [] OTHER    -> Goto(0, 4, FALSE) /\ flags' = flags
    /\ UNCHANGED <<wd, out, used>>

Modifier ==
    LET twice == Ch = After
        skip  == IF twice /\ Ch \in {"l", "h"} THEN 2 ELSE 1
    IN  /\ In(3)
        /\ CASE Ch \in {"z", "t", "l", "L"} -> Goto(skip, 3, TRUE) /\ flags' = flags \cup {"64"}
             [] Ch = "h" -> Goto(skip, 3, TRUE) /\ flags' = flags \cup {IF twice THEN "8" ELSE "16"}
             [] OTHER    -> Goto(0, 4, FALSE) /\ flags' = flags
        /\ UNCHANGED <<wd, out, used>>

\* A character that is no conversion is output, the end of the format too.
Conversion ==
    /\ In(4) /\ Goto(1, 0, TRUE) /\ flags' = {} /\ wd' = 0
    /\ out' = out \o (IF Ch \in Conversions THEN Emitted(Converted(Ch)) ELSE <<Ch>>)
    /\ used' = IF Ch \in Conversions THEN used + 1 ELSE used

Stop(how) == end' = how /\ UNCHANGED <<call, used, i, head, state, flags, wd, out>>

Return == end = "running" /\ head /\ Ch = Nul /\ i = Len(fmt) + 1 /\ Stop("returned")

\* The format is read behind its end, whatever lies there.
Overrun == end = "running" /\ i > Len(fmt) + 1 /\ Stop("overrun")

Init ==
    /\ fmt \in Formats /\ args \in Args /\ str \in Strings
    /\ used = 0 /\ i = 1 /\ head = TRUE /\ state = 0 /\ flags = {} /\ wd = 0
    /\ out = <<>> /\ end = "running"

Next == Text \/ Flag \/ FieldWidth \/ Modifier \/ Conversion \/ Return \/ Overrun

Spec == Init /\ [][Next]_vars

\* Mutant: the last byte is not kept for the NUL.
VsnprintfOutput_Full(s, ch) ==
    IF s.num = 0 THEN s ELSE [cur |-> Append(s.cur, ch), num |-> s.num - 1]

VsnprintfOutput(s, ch) ==
    IF s.num = 0 THEN s
    ELSE [cur |-> Append(s.cur, IF s.num = 1 THEN Nul ELSE ch), num |-> s.num - 1]

\* vsnprintf_output for each character of text, into a buffer of n bytes.
Written(text, n) ==
    LET W[k \in 0..Len(text)] == IF k = 0 THEN [cur |-> <<>>, num |-> n]
                                 ELSE VsnprintfOutput(W[k - 1], text[k])
    IN  W

\* snprintf writes the output and the NUL behind it.
Snprintf(n) == Written(Append(out, Nul), n)[Len(out) + 1].cur

----------------------------------------------------------------------------
(* Properties.                                                             *)

\* A conversion as printf.c:85 describes it: %[flag][width][mod][conv].
Items == [flag : {<<>>, <<"-">>, <<"0">>}, width : {<<>>, <<"6">>, <<"1", "0">>},
          mod : {<<>>, <<"h", "h">>, <<"h">>, <<"l">>, <<"l", "l">>, <<"z">>},
          conv : Conversions]
FormatOf(it) == <<"%">> \o it.flag \o it.width \o it.mod \o <<it.conv>>

\* What such a conversion stands for, by the table of printf.c:85 to 109 and
\* the meaning C gives it.
Type(it) == CASE it.mod = <<"h", "h">> -> "hh" [] it.mod = <<"h">> -> "h"
              [] it.mod = <<>> -> "int"        [] OTHER -> "long"
Power(base) == LET P[k \in Nat] == IF k = 0 THEN 1 ELSE base * P[k - 1] IN P
IsLength(k, n, base) == Power(base)[k] > n /\ (k = 1 \/ Power(base)[k - 1] <= n)
Numeral(n, base, lower) ==
    LET len == CHOOSE k \in 1..(n + 1) : IsLength(k, n, base)
        digit(k) == (n \div Power(base)[len - k]) % base
    IN  [k \in 1..len |-> HexDigits[digit(k) + 1 + (IF lower THEN 16 ELSE 0)]]
Numeric == {"d", "i", "u", "o", "x", "X", "p"}
SignOf(it, arg) == CASE it.conv \in {"d", "i"} /\ Signed(arg, Type(it)) < 0 -> <<"-">>
                [] it.conv = "p" /\ arg # 0 -> <<"0", "x">>
                [] OTHER -> <<>>
Body(it, arg) ==
    LET n == Low(arg, Type(it))
    IN  CASE it.conv \in {"d", "i"} -> Numeral(Absolute(Signed(arg, Type(it))), 10, FALSE)
          [] it.conv = "u" -> Numeral(n, 10, FALSE)
          [] it.conv = "o" -> Numeral(n, 8, FALSE)
          [] it.conv = "x" -> Numeral(n, 16, TRUE)
          [] it.conv = "X" -> Numeral(n, 16, FALSE)
          [] it.conv = "p" /\ arg # 0 -> Numeral(arg, 16, TRUE)
          [] it.conv = "c" -> IF Low(arg, "hh") = 0 THEN <<>> ELSE <<Char>>
          [] it.conv = "s" /\ arg # 0 -> str
          [] OTHER -> IF it.conv = "p" THEN <<"(", "n", "i", "l", ")">>
                      ELSE <<"(", "n", "u", "l", "l", ")">>

\* The output has the field's width, or more if the value needs it, and is
\* padded on the side and with the character that the flag asks for: zeroes
\* between the sign and the digits of a number.
IsConverted(s, it, arg) ==
    LET bare == SignOf(it, arg) \o Body(it, arg)
        wide == CASE it.width = <<>> -> 0 [] it.width = <<"6">> -> 6 [] OTHER -> 10
        pad  == IF Len(bare) < wide THEN wide - Len(bare) ELSE 0
        zeroed == it.flag = <<"0">> /\ it.conv \in Numeric /\ ~(it.conv = "p" /\ arg = 0)
    IN  /\ Len(s) = Len(bare) + pad
        /\ IF it.flag = <<"-">>
           THEN IsPrefix(bare, s) /\ \A k \in (Len(bare) + 1)..Len(s) : s[k] = " "
           ELSE /\ IsSuffix(IF zeroed THEN Body(it, arg) ELSE bare, s)
                /\ zeroed => IsPrefix(SignOf(it, arg), s)
                /\ LET from == IF zeroed THEN Len(SignOf(it, arg)) ELSE 0
                   IN  \A k \in (from + 1)..(from + pad) : s[k] = IF zeroed THEN "0" ELSE " "

\* Every conversion that printf.c lists as done is what C says it is, and a
\* second one takes the second argument.
ConvertsAsListed ==
    LET bare(conv) == [flag |-> <<>>, width |-> <<>>, mod |-> <<>>, conv |-> conv]
    IN  end = "returned" =>
            /\ \A it \in Items : fmt = FormatOf(it) => IsConverted(out, it, args[1])
            /\ \A c, d \in Conversions : fmt = <<"%", c, "%", d>> =>
                  \E k \in 0..Len(out) :
                      /\ IsConverted(SubSeq(out, 1, k), bare(c), args[1])
                      /\ IsConverted(SubSeq(out, k + 1, Len(out)), bare(d), args[2])

\* A format that is read behind its end stops right after a % or the flags
\* of one: one that stops later, in the width or a modifier, is not, and the
\* whole of its output is there.
OverrunsAfterFlags ==
    end = "overrun" =>
        \E k \in 1..Len(fmt) :
            /\ fmt[k] = "%"
            /\ \A l \in (k + 1)..Len(fmt) : fmt[l] \in {"-", "0"}
            /\ \A l \in (k + 1)..(Len(fmt) - 1) : fmt[l] = "-"

\* snprintf keeps to its buffer and always ends it.
SnprintfFits ==
    end = "returned" =>
        \A n \in 1..4 :
            Snprintf(n) = SubSeq(out, 1, IF Len(out) < n THEN Len(out) ELSE n - 1) \o <<Nul>>

\* user.c:13, "1 = print the value passed as is": do_syscall_entry prints the
\* long it is passed with "%d".
ValuePrintedAsIs ==
    end = "returned" /\ fmt = <<"%", "d">> =>
        LET n == Signed(args[1], "long")
        IN  out = (IF n < 0 THEN <<"-">> ELSE <<>>) \o Numeral(Absolute(n), 10, FALSE)

\* printf.c:121, "display pointers in upper-case hex (A-F) instead of
\* lower-case (a-f)".
PointersInUpperCase ==
    end = "returned" /\ fmt = <<"%", "p">> /\ args[1] # 0 =>
        out = <<"0", "x">> \o Numeral(args[1], 16, FALSE)
=============================================================================
