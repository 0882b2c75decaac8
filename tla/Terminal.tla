------------------------------ MODULE Terminal -----------------------------
(***************************************************************************)
(* What a text console promises: rows of at most MaxX characters, of which *)
(* the last MaxY are on the screen.                                        *)
(***************************************************************************)
EXTENDS Integers, Sequences

CONSTANTS MaxX, MaxY, Glyphs

VARIABLE rows    \* the rows on the screen, the one written to last

Init == rows = << <<>> >>

Shown(r) == IF Len(r) > MaxY THEN Tail(r) ELSE r

\* A character goes behind the last one, in a new row if this one is full.
Put(g) ==
    rows' = IF Len(rows[Len(rows)]) = MaxX
            THEN Shown(Append(rows, <<g>>))
            ELSE [rows EXCEPT ![Len(rows)] = Append(@, g)]

Newline == rows' = Shown(Append(rows, <<>>))

Next == Newline \/ \E g \in Glyphs : Put(g)

Spec == Init /\ [][Next]_rows
=============================================================================
