---------------------------- MODULE PrintfProofs ---------------------------
(***************************************************************************)
(* printf, for formats, arguments and buffers of every length: where the   *)
(* format is read behind its end, and what snprintf leaves in its buffer.  *)
(*                                                                         *)
(* The induction over the characters of a text, and over the digits of a   *)
(* number, is about the set of naturals up to which the claim holds.       *)
(***************************************************************************)
EXTENDS Printf, TLAPS, WellFoundedInduction, SequenceTheorems

----------------------------------------------------------------------------
(* Reading the format.                                                     *)

\* k is the % of a conversion whose flags, as the code reads them, are the
\* characters from k + 1 to last.
OpenAt(k, last) ==
    /\ fmt[k] = "%"
    /\ \A l \in (k + 1)..last : fmt[l] \in {"-", "0"}
    /\ \A l \in (k + 1)..(last - 1) : fmt[l] = "-"

\* The format ends within the flags of its last conversion.
EndsOpen == \E k \in 1..Len(fmt) : OpenAt(k, Len(fmt))

\* Where the reading stands.  The end of the format is looked for before
\* every character but the ones read in state 1 right after a %, and in the
\* states gone to without a character.
ReadInv ==
    /\ fmt \in Seq(STRING \ {Nul})
    /\ i \in Nat /\ i >= 1 /\ head \in BOOLEAN /\ state \in 0..4
    /\ end = "running" =>
           /\ state = 0 => head
           /\ state = 1 =>
                  \E k \in 1..Len(fmt) :
                      k < i /\ fmt[k] = "%" /\ \A l \in (k + 1)..(i - 1) : fmt[l] = "-"
           /\ (state # 1 /\ ~head /\ i = Len(fmt) + 1) => EndsOpen
           /\ i <= Len(fmt) + 1 \/ EndsOpen
    /\ end = "overrun" => EndsOpen

LEMMA ReadInit == Init => ReadInv
  <1> SUFFICES ASSUME Init PROVE ReadInv OBVIOUS
  <1>1. fmt \in Seq(STRING \ {Nul}) BY PrintfAssumption DEF Init
  <1>2. Len(fmt) \in Nat BY <1>1
  <1>3. i = 1 /\ head = TRUE /\ state = 0 /\ end = "running" BY DEF Init
  <1> QED BY <1>1, <1>2, <1>3 DEF ReadInv

\* The next character is the end of the format only behind it.
LEMMA NextChar ==
    ASSUME ReadInv, i <= Len(fmt) + 1
    PROVE  /\ Ch # Nul => i \in 1..Len(fmt) /\ Ch = fmt[i]
           /\ Ch = Nul => i = Len(fmt) + 1
           /\ After # Nul => i < Len(fmt)
  <1>1. Len(fmt) \in Nat /\ \A l \in 1..Len(fmt) : fmt[l] # Nul BY DEF ReadInv
  <1> QED BY <1>1 DEF ReadInv, Ch, After

\* The conjuncts of ReadInv that a step can break, at a place p.
Stands(p, s, h) ==
    /\ s = 0 => h
    /\ s = 1 =>
           \E k \in 1..Len(fmt) :
               k < p /\ fmt[k] = "%" /\ \A l \in (k + 1)..(p - 1) : fmt[l] = "-"
    /\ (s # 1 /\ ~h /\ p = Len(fmt) + 1) => EndsOpen
    /\ p <= Len(fmt) + 1 \/ EndsOpen

\* A step that goes on reading.
LEMMA Reads ==
    ASSUME ReadInv, fmt' = fmt, end' = end, end = "running",
           i' \in Nat, i' >= 1, state' \in 0..4, head' \in BOOLEAN,
           Stands(i', state', head')
    PROVE  ReadInv'
  <1>1. EndsOpen' <=> EndsOpen BY DEF EndsOpen, OpenAt
  <1> QED BY <1>1 DEF ReadInv, Stands

LEMMA ReadNext == ReadInv /\ [Next]_vars => ReadInv'
  <1> SUFFICES ASSUME ReadInv, [Next]_vars PROVE ReadInv' OBVIOUS
  <1>1. Len(fmt) \in Nat /\ i \in Nat /\ i >= 1 BY DEF ReadInv
  <1>2. "%" # Nul /\ "-" # Nul /\ "0" # Nul /\ "l" # Nul /\ "h" # Nul /\ "z" # Nul
        /\ "t" # Nul /\ "L" # Nul /\ \A d \in 1..10 : Num10[d] # Nul
    BY DEF Nul, Num10
  <1>3. ASSUME NEW s, In(s)
        PROVE  /\ end = "running" /\ state = s /\ i <= Len(fmt) + 1
               /\ Ch # Nul => i \in 1..Len(fmt) /\ Ch = fmt[i]
               /\ Ch = Nul => i = Len(fmt) + 1 /\ ~head
               /\ After # Nul => i < Len(fmt)
    BY <1>3, NextChar DEF In, ReadInv
  <1>4. CASE Text
    <2>1. In(0) BY <1>4 DEF Text
    <2>2. Ch # Nul BY <1>3, <2>1 DEF ReadInv
    <2>3. CASE Ch = "%"
      <3>1. i' = i + 1 /\ state' = 1 /\ head' = FALSE /\ head' \in BOOLEAN /\ fmt' = fmt /\ end' = end
        BY <1>4, <2>3 DEF Text, Goto, call
      <3>2. Stands(i', state', head')
        BY <1>1, <3>1, <1>3, <2>1, <2>2, <2>3 DEF Stands
      <3> QED BY <1>1, <1>3, <2>1, <3>1, <3>2, Reads
    <2>4. CASE Ch # "%"
      <3>1. i' = i + 1 /\ state' = 0 /\ head' = TRUE /\ fmt' = fmt /\ end' = end
        BY <1>4, <2>4 DEF Text, Goto, call
      <3>2. Stands(i', state', head') BY <1>1, <3>1, <1>3, <2>1, <2>2 DEF Stands
      <3> QED BY <1>1, <1>3, <2>1, <3>1, <3>2, Reads
    <2> QED BY <2>3, <2>4
  <1>5. CASE Flag
    <2>1. In(1) BY <1>5 DEF Flag
    <2>2. PICK k \in 1..Len(fmt) :
              k < i /\ fmt[k] = "%" /\ \A l \in (k + 1)..(i - 1) : fmt[l] = "-"
      BY <1>3, <2>1 DEF ReadInv
    <2>3. CASE Ch = "%"
      <3>1. i' = i + 1 /\ state' = 0 /\ head' = TRUE /\ fmt' = fmt /\ end' = end
        BY <1>5, <2>3 DEF Flag, Goto, call
      <3>2. Stands(i', state', head') BY <1>1, <3>1, <1>2, <1>3, <2>1, <2>3 DEF Stands
      <3> QED BY <1>1, <1>3, <2>1, <3>1, <3>2, Reads
    <2>4. CASE Ch = "-"
      <3>1. i' = i + 1 /\ state' = 1 /\ head' = TRUE /\ fmt' = fmt /\ end' = end
        BY <1>5, <2>4 DEF Flag, Goto, call
      <3>2. i \in 1..Len(fmt) /\ fmt[i] = "-" BY <1>2, <1>3, <2>1, <2>4
      <3>3. ASSUME NEW l \in (k + 1)..i PROVE fmt[l] = "-"
        BY <1>1, <2>2, <3>2
      <3>4. Stands(i', state', head') BY <1>1, <3>1, <2>2, <3>2, <3>3 DEF Stands
      <3> QED BY <1>1, <1>3, <2>1, <3>1, <3>4, Reads
    <2>5. CASE Ch = "0"
      <3>1. i' = i + 1 /\ state' = 2 /\ head' = FALSE /\ head' \in BOOLEAN /\ fmt' = fmt /\ end' = end
        BY <1>5, <2>5 DEF Flag, Goto, call
      <3>2. i \in 1..Len(fmt) /\ fmt[i] = "0" BY <1>2, <1>3, <2>1, <2>5
      <3>3. i + 1 = Len(fmt) + 1 => EndsOpen
        BY <1>1, <2>2, <3>2 DEF EndsOpen, OpenAt
      <3>4. Stands(i', state', head') BY <1>1, <3>1, <3>2, <3>3 DEF Stands
      <3> QED BY <1>1, <1>3, <2>1, <3>1, <3>4, Reads
    <2>6. CASE Ch \notin {"%", "-", "0"}
      <3>1. i' = i + 0 /\ state' = 2 /\ head' = FALSE /\ head' \in BOOLEAN /\ fmt' = fmt /\ end' = end
        BY <1>5, <2>6 DEF Flag, Goto, call
      <3>2. i = Len(fmt) + 1 => EndsOpen BY <1>1, <2>2 DEF EndsOpen, OpenAt
      <3>3. Stands(i', state', head') BY <1>1, <3>1, <1>3, <2>1, <3>2 DEF Stands
      <3> QED BY <1>1, <1>3, <2>1, <3>1, <3>3, Reads
    <2> QED BY <2>3, <2>4, <2>5, <2>6
  <1>6. ASSUME NEW s \in 2..4, In(s)
        PROVE  /\ i = Len(fmt) + 1 => EndsOpen
               /\ Ch = Nul => EndsOpen
    BY <1>1, <1>3, <1>6 DEF In, ReadInv, Ch
  <1>7. CASE FieldWidth
    <2>1. In(2) BY <1>7 DEF FieldWidth
    <2>2. CASE \E d \in 1..10 : Ch = Num10[d]
      <3>1. i' = i + 1 /\ state' = 2 /\ head' = TRUE /\ fmt' = fmt /\ end' = end
        BY <1>7, <2>2 DEF FieldWidth, Goto, call
      <3>2. Ch # Nul BY <1>2, <2>2
      <3>3. i \in 1..Len(fmt) BY <1>3, <2>1, <3>2
      <3>4. Stands(i', state', head') BY <1>1, <3>1, <3>3 DEF Stands
      <3> QED BY <1>1, <1>3, <2>1, <3>1, <3>4, Reads
    <2>3. CASE ~ \E d \in 1..10 : Ch = Num10[d]
      <3>1. i' = i + 0 /\ state' = 3 /\ head' = FALSE /\ head' \in BOOLEAN /\ fmt' = fmt /\ end' = end
        BY <1>7, <2>3 DEF FieldWidth, Goto, call
      <3>2. Stands(i', state', head') BY <1>1, <3>1, <1>3, <1>6, <2>1 DEF Stands
      <3> QED BY <1>1, <1>3, <2>1, <3>1, <3>2, Reads
    <2> QED BY <2>2, <2>3
  <1>8. CASE Modifier
    <2>1. In(3) BY <1>8 DEF Modifier
    <2>2. CASE Ch \in {"z", "t", "l", "L", "h"}
      <3>1. PICK skip \in 1..2 :
                /\ i' = i + skip /\ state' = 3 /\ head' = TRUE /\ fmt' = fmt /\ end' = end
                /\ skip = 2 => Ch = After
        <4>1. PICK skip \in 1..2 :
                  skip = (IF Ch = After /\ Ch \in {"l", "h"} THEN 2 ELSE 1)
          OBVIOUS
        <4>2. Goto(skip, 3, TRUE) BY <1>8, <2>2, <4>1 DEF Modifier
        <4> QED BY <4>1, <4>2 DEF Goto, call
      <3>2. i \in 1..Len(fmt) /\ (skip = 2 => i < Len(fmt))
        BY <1>2, <1>3, <2>1, <2>2, <3>1
      <3>3. Stands(i', state', head') BY <1>1, <3>1, <3>2 DEF Stands
      <3> QED BY <1>1, <1>3, <2>1, <3>1, <3>3, Reads
    <2>3. CASE Ch \notin {"z", "t", "l", "L", "h"}
      <3>1. i' = i + 0 /\ state' = 4 /\ head' = FALSE /\ head' \in BOOLEAN /\ fmt' = fmt /\ end' = end
        BY <1>8, <2>3 DEF Modifier, Goto, call
      <3>2. Stands(i', state', head') BY <1>1, <3>1, <1>3, <1>6, <2>1 DEF Stands
      <3> QED BY <1>1, <1>3, <2>1, <3>1, <3>2, Reads
    <2> QED BY <2>2, <2>3
  <1>9. CASE Conversion
    <2>1. /\ In(4) /\ i' = i + 1 /\ state' = 0 /\ head' = TRUE
          /\ fmt' = fmt /\ end' = end
      BY <1>9 DEF Conversion, Goto, call
    <2>2. Stands(i', state', head') BY <1>1, <1>3, <1>6, <2>1 DEF Stands
    <2> QED BY <1>1, <1>3, <2>1, <2>2, Reads
  <1>10. ASSUME NEW how, Stop(how), how # "running", how = "overrun" => EndsOpen PROVE ReadInv'
    <2>1. /\ fmt' = fmt /\ i' = i /\ head' = head /\ state' = state /\ end' = how
      BY <1>10 DEF Stop, call
    <2>2. EndsOpen' <=> EndsOpen BY <2>1 DEF EndsOpen, OpenAt
    <2> QED BY <1>10, <2>1, <2>2 DEF ReadInv
  <1>11. CASE Return BY <1>10, <1>11 DEF Return
  <1>12. CASE Overrun
    <2>1. Stop("overrun") /\ EndsOpen BY <1>1, <1>12 DEF Overrun, ReadInv
    <2> QED BY <1>10, <2>1
  <1>13. CASE UNCHANGED vars
    <2>1. /\ fmt' = fmt /\ i' = i /\ head' = head /\ state' = state /\ end' = end
      BY <1>13 DEF vars
    <2>2. EndsOpen' <=> EndsOpen BY <2>1 DEF EndsOpen, OpenAt
    <2> QED BY <2>1, <2>2 DEF ReadInv
  <1> QED BY <1>4, <1>5, <1>7, <1>8, <1>9, <1>11, <1>12, <1>13 DEF Next

\* The inductive invariant of the reading, for formats of any length.
THEOREM ReadInvariance == Spec => []ReadInv
  BY ReadInit, ReadNext, PTL DEF Spec

\* What is left of the reading: each character is looked at in at most five
\* states, and a skip may end two places behind the terminating NUL.
ToRead == 5 * (Len(fmt) + 3 - i) + (4 - state) + (IF end = "running" THEN 1 ELSE 0)

\* A step from state s to state t that takes skip characters.
Takes(s, skip, t) == In(s) /\ (Goto(skip, t, TRUE) \/ Goto(skip, t, FALSE))

LEMMA ReadDecreases ==
    ASSUME ReadInv, Next
    PROVE  ToRead' < ToRead /\ fmt' = fmt /\ (i' = i \/ i' <= Len(fmt) + 3)
  <1> DEFINE Less == ToRead' < ToRead /\ fmt' = fmt /\ (i' = i \/ i' <= Len(fmt) + 3)
  <1>1. Len(fmt) \in Nat /\ i \in Nat /\ state \in 0..4 BY DEF ReadInv
  <1>2. ASSUME NEW s \in 0..4, NEW skip \in 0..2, NEW t \in 0..4,
               Takes(s, skip, t), skip > 0 \/ t > s
        PROVE  Less
    <2>1. /\ i' = i + skip /\ state' = t /\ fmt' = fmt /\ end' = end
          /\ state = s /\ i <= Len(fmt) + 1
      BY <1>2 DEF Takes, In, Goto, call
    <2>2. end' = "running" <=> end = "running" BY <2>1
    <2>3. 5 * (Len(fmt) + 3 - (i + skip)) + (4 - t) < 5 * (Len(fmt) + 3 - i) + (4 - s)
      BY <1>1, <1>2
    <2> QED BY <1>1, <2>1, <2>2, <2>3 DEF ToRead
  <1>3. ASSUME NEW s \in 0..4, NEW t \in 0..4, Takes(s, 1, t) \/ Takes(s, 2, t)
        PROVE  Less
    <2>1. CASE Takes(s, 1, t) BY <2>1, <1>2
    <2>2. CASE Takes(s, 2, t) BY <2>2, <1>2
    <2> QED BY <1>3, <2>1, <2>2
  <1>4. CASE Text
    <2>1. Takes(0, 1, 1) \/ Takes(0, 1, 0) BY <1>4 DEF Text, Takes
    <2> QED BY <1>3, <2>1
  <1>5. CASE Flag
    <2>1. Takes(1, 1, 0) \/ Takes(1, 1, 1) \/ Takes(1, 1, 2) \/ Takes(1, 0, 2)
      BY <1>5 DEF Flag, Takes
    <2>2. CASE Takes(1, 0, 2) BY <2>2, <1>2
    <2> QED BY <1>3, <2>1, <2>2
  <1>6. CASE FieldWidth
    <2>1. Takes(2, 1, 2) \/ Takes(2, 0, 3) BY <1>6 DEF FieldWidth, Takes
    <2>2. CASE Takes(2, 0, 3) BY <2>2, <1>2
    <2> QED BY <1>3, <2>1, <2>2
  <1>7. CASE Modifier
    <2>1. Takes(3, 1, 3) \/ Takes(3, 2, 3) \/ Takes(3, 0, 4)
      BY <1>7 DEF Modifier, Takes
    <2>2. CASE Takes(3, 0, 4) BY <2>2, <1>2
    <2> QED BY <1>3, <2>1, <2>2
  <1>c. CASE Conversion
    <2>1. Takes(4, 1, 0) BY <1>c DEF Conversion, Takes
    <2> QED BY <1>3, <2>1
  <1>8. ASSUME NEW how, Stop(how), how # "running", end = "running"
        PROVE  ToRead' < ToRead /\ fmt' = fmt /\ i' = i
    <2>1. fmt' = fmt /\ i' = i /\ state' = state /\ end' # "running"
      BY <1>8 DEF Stop, call
    <2> QED BY <1>1, <1>8, <2>1 DEF ToRead
  <1>9. CASE Return BY <1>8, <1>9 DEF Return
  <1>10. CASE Overrun BY <1>8, <1>10 DEF Overrun
  <1> QED BY <1>4, <1>5, <1>6, <1>7, <1>c, <1>9, <1>10 DEF Next

\* The machine stands at the guard of one of its steps.
CanRead ==
    \/ \E s \in 0..4 : In(s)
    \/ head /\ Ch = Nul /\ i = Len(fmt) + 1
    \/ i > Len(fmt) + 1

\* printf.c:175-411: whatever the format, the loop over it ends.  The states
\* that are gone to without taking a character lead forward only, so every step
\* leaves less to read, and only a loop that has ended has no step to take.
THEOREM ReadsToAnEnd ==
    Spec => /\ [](ToRead \in Nat) /\ [][ToRead' < ToRead]_vars
            /\ [](end = "running" => CanRead)
  <1>1. Init => i <= Len(fmt) + 3
    <2> SUFFICES ASSUME Init PROVE i <= Len(fmt) + 3 OBVIOUS
    <2>1. i = 1 /\ Len(fmt) \in Nat BY ReadInit DEF Init, ReadInv
    <2> QED BY <2>1
  <1>2. ReadInv /\ i <= Len(fmt) + 3 /\ [Next]_vars
        => (i <= Len(fmt) + 3)' /\ [ToRead' < ToRead]_vars
    <2> SUFFICES ASSUME ReadInv, i <= Len(fmt) + 3, [Next]_vars
                 PROVE  (i <= Len(fmt) + 3)' /\ [ToRead' < ToRead]_vars
      OBVIOUS
    <2>1. CASE Next BY <2>1, ReadDecreases
    <2>2. CASE UNCHANGED vars BY <2>2 DEF vars
    <2> QED BY <2>1, <2>2
  <1>3. ReadInv /\ i <= Len(fmt) + 3 => ToRead \in Nat
    <2> SUFFICES ASSUME ReadInv, i <= Len(fmt) + 3 PROVE ToRead \in Nat OBVIOUS
    <2>1. Len(fmt) \in Nat /\ i \in Nat /\ state \in 0..4 BY DEF ReadInv
    <2> QED BY <2>1 DEF ToRead
  <1>4. ReadInv => (end = "running" => CanRead)
    <2> SUFFICES ASSUME ReadInv, end = "running" PROVE CanRead OBVIOUS
    <2>1. Len(fmt) \in Nat /\ i \in Nat /\ state \in 0..4 BY DEF ReadInv
    <2>2. CASE i <= Len(fmt) + 1 /\ ~(head /\ Ch = Nul)
      <3>1. In(state) BY <2>2 DEF In
      <3> QED BY <2>1, <3>1 DEF CanRead
    <2>3. CASE i <= Len(fmt) + 1 /\ head /\ Ch = Nul
      BY <2>3, NextChar DEF CanRead
    <2>4. CASE ~(i <= Len(fmt) + 1) BY <2>1, <2>4 DEF CanRead
    <2> QED BY <2>2, <2>3, <2>4
  <1> QED BY <1>1, <1>2, <1>3, <1>4, ReadInvariance, PTL DEF Spec

\* The format is read behind its end only where it stops within the flags of
\* a conversion.
THEOREM Overruns == Spec => []OverrunsAfterFlags
  <1>1. ReadInv => OverrunsAfterFlags
    BY DEF ReadInv, EndsOpen, OpenAt, OverrunsAfterFlags
  <1> QED BY <1>1, ReadInvariance, PTL

----------------------------------------------------------------------------
(* Induction on the natural numbers.                                       *)

LEMMA Least ==
    ASSUME NEW T, T \subseteq Nat, T # {}
    PROVE  \E x \in T : \A y \in T : x <= y
  <1> DEFINE R == {ss \in Nat \X Nat : ss[1] < ss[2]}
  <1>1. IsWellFoundedOn(R, Nat) BY NatLessThanWellFounded DEF OpToRel
  <1>2. PICK x \in T : \A y \in T : ~(<<y, x>> \in R)
    <2> HIDE DEF R
    <2> QED BY <1>1, WFMin
  <1>3. ASSUME NEW y \in T PROVE x <= y
    <2>1. y \in Nat /\ x \in Nat OBVIOUS
    <2>2. <<y, x>> \in Nat \X Nat BY <2>1
    <2>3. ~(y < x) BY <1>2, <2>1, <2>2
    <2> QED BY <2>1, <2>3
  <1> QED BY <1>3

LEMMA SetInduction ==
    ASSUME NEW T, 0 \in T, \A n \in Nat : n \in T => n + 1 \in T
    PROVE  Nat \subseteq T
  <1> DEFINE U == {n \in Nat : n \notin T}
  <1>1. SUFFICES ASSUME U # {} PROVE FALSE OBVIOUS
  <1>2. PICK x \in U : \A y \in U : x <= y
    <2> HIDE DEF U
    <2>1. U \subseteq Nat BY DEF U
    <2> QED BY <1>1, <2>1, Least
  <1>3. x # 0 /\ x \in Nat /\ x \notin T OBVIOUS
  <1>4. x - 1 \in Nat BY <1>3
  <1>5. x - 1 \in T
    <2>1. ASSUME x - 1 \notin T PROVE FALSE
      <3>1. x - 1 \in U BY <1>4, <2>1
      <3>2. x <= x - 1 BY <1>2, <3>1
      <3> QED BY <1>3, <3>2
    <2> QED BY <2>1
  <1>6. (x - 1) + 1 = x BY <1>3
  <1> QED BY <1>3, <1>4, <1>5, <1>6

----------------------------------------------------------------------------
(* snprintf.                                                               *)

\* What is in the buffer, and the room left, after k characters of text.
Kept(text, n, k) ==
    IF k < n THEN [cur |-> SubSeq(text, 1, k), num |-> n - k]
    ELSE [cur |-> SubSeq(text, 1, n - 1) \o <<Nul>>, num |-> 0]

LEMMA OneMore ==
    ASSUME NEW S, NEW s \in Seq(S), NEW k \in 1..Len(s)
    PROVE  /\ SubSeq(s, 1, k) = Append(SubSeq(s, 1, k - 1), s[k])
           /\ \A x : Append(SubSeq(s, 1, k - 1), x) = SubSeq(s, 1, k - 1) \o <<x>>
  <1>1. SubSeq(s, 1, k) = SubSeq(s, 1, k - 1) \o <<s[k]>> BY SubSeqRecursiveSecond
  <1>2. SubSeq(s, 1, k - 1) \in Seq(S) BY SubSeqProperties
  <1>3. ASSUME NEW x PROVE Append(SubSeq(s, 1, k - 1), x) = SubSeq(s, 1, k - 1) \o <<x>>
    <2>1. SubSeq(s, 1, k - 1) \in Seq(S \cup {x}) BY <1>2
    <2> QED BY <2>1, AppendIsConcat
  <1> QED BY <1>1, <1>3

LEMMA KeptStep ==
    ASSUME NEW S, NEW text \in Seq(S), NEW n \in Nat \ {0}, NEW k \in 1..Len(text)
    PROVE  Kept(text, n, k) = VsnprintfOutput(Kept(text, n, k - 1), text[k])
  <1>1. k \in Int /\ n \in Int /\ k >= 1 /\ n >= 1 OBVIOUS
  <1>2. PICK s : s = Kept(text, n, k - 1) OBVIOUS
  <1>3. CASE k < n
    <2>1. s = [cur |-> SubSeq(text, 1, k - 1), num |-> n - (k - 1)]
      BY <1>1, <1>2, <1>3 DEF Kept
    <2>2. s.num # 0 /\ s.num # 1 /\ s.num - 1 = n - k BY <1>1, <1>3, <2>1
    <2>3. VsnprintfOutput(s, text[k]) =
              [cur |-> Append(SubSeq(text, 1, k - 1), text[k]), num |-> n - k]
      BY <2>1, <2>2 DEF VsnprintfOutput
    <2> QED BY <1>2, <1>3, <2>3, OneMore DEF Kept
  <1>4. CASE k = n
    <2>1. s = [cur |-> SubSeq(text, 1, k - 1), num |-> n - (k - 1)]
      BY <1>1, <1>2, <1>4 DEF Kept
    <2>2. s.num = 1 /\ s.num # 0 /\ s.num - 1 = 0 BY <1>1, <1>4, <2>1
    <2>3. s.cur = SubSeq(text, 1, k - 1) BY <2>1
    <2>5. VsnprintfOutput(s, text[k]) =
              [cur |-> Append(s.cur, IF s.num = 1 THEN Nul ELSE text[k]), num |-> s.num - 1]
      BY <2>2 DEF VsnprintfOutput
    <2>6. VsnprintfOutput(s, text[k]) =
              [cur |-> Append(SubSeq(text, 1, k - 1), Nul), num |-> 0]
      BY <2>2, <2>3, <2>5, Zenon
    <2>4. VsnprintfOutput(s, text[k]) =
              [cur |-> SubSeq(text, 1, k - 1) \o <<Nul>>, num |-> 0]
      BY <2>6, OneMore
    <2> QED BY <1>1, <1>2, <1>4, <2>4 DEF Kept
  <1>5. CASE k > n
    <2>1. s = [cur |-> SubSeq(text, 1, n - 1) \o <<Nul>>, num |-> 0]
      BY <1>1, <1>2, <1>5 DEF Kept
    <2> QED BY <1>1, <1>2, <1>5, <2>1 DEF Kept, VsnprintfOutput
  <1> QED BY <1>1, <1>3, <1>4, <1>5

LEMMA WrittenIsKept ==
    ASSUME NEW S, NEW text \in Seq(S), NEW n \in Nat \ {0}
    PROVE  \A k \in 0..Len(text) : Written(text, n)[k] = Kept(text, n, k)
  <1> DEFINE first == [cur |-> <<>>, num |-> n]
  <1>1. Kept(text, n, 0) = first
    <2>1. SubSeq(text, 1, 0) = <<>> BY SubSeqEmpty
    <2> QED BY <2>1 DEF Kept
  <1>2. PICK g : g = [k \in 0..Len(text) |-> Kept(text, n, k)] OBVIOUS
  <1>3. g = [k \in 0..Len(text) |->
                 IF k = 0 THEN first ELSE VsnprintfOutput(g[k - 1], text[k])]
    <2>1. ASSUME NEW k \in 0..Len(text)
          PROVE  Kept(text, n, k) = IF k = 0 THEN first ELSE VsnprintfOutput(g[k - 1], text[k])
      <3>1. CASE k = 0 BY <1>1, <3>1
      <3>2. CASE k # 0
        <4>1. k \in 1..Len(text) /\ k - 1 \in 0..Len(text) BY <3>2
        <4>2. g[k - 1] = Kept(text, n, k - 1) BY <1>2, <4>1
        <4> QED BY <3>2, <4>1, <4>2, KeptStep
      <3> QED BY <3>1, <3>2
    <2> QED BY <1>2, <2>1
  <1>4. PICK w : w = Written(text, n) OBVIOUS
  <1>5. w = [k \in 0..Len(text) |->
                 IF k = 0 THEN first ELSE VsnprintfOutput(w[k - 1], text[k])]
    BY <1>3, <1>4, Zenon DEF Written
  <1> HIDE DEF first
  <1> DEFINE T == {k \in Nat : k <= Len(text) => w[k] = Kept(text, n, k)}
  <1>6. 0 \in T BY <1>1, <1>5
  <1>7. ASSUME NEW k \in Nat, k \in T PROVE k + 1 \in T
    <2>1. CASE k + 1 <= Len(text)
      <3>1. w[k] = Kept(text, n, k) BY <1>7, <2>1
      <3>2. k + 1 \in 0..Len(text) /\ k + 1 # 0 /\ (k + 1) - 1 = k BY <2>1
      <3>3. w[k + 1] = VsnprintfOutput(w[k], text[k + 1]) BY <1>5, <3>2
      <3>4. Kept(text, n, k + 1) = VsnprintfOutput(Kept(text, n, k), text[k + 1])
        <4>1. k + 1 \in 1..Len(text) BY <2>1
        <4> QED BY <3>2, <4>1, KeptStep
      <3> QED BY <3>1, <3>3, <3>4
    <2>2. CASE ~(k + 1 <= Len(text)) BY <2>2
    <2> QED BY <2>1, <2>2
  <1>8. Nat \subseteq T
    <2> HIDE DEF T
    <2> QED BY <1>6, <1>7, SetInduction
  <1> QED BY <1>4, <1>8

\* snprintf keeps to its buffer and always ends it, for any output and any
\* length of the buffer.
THEOREM SnprintfKeeps ==
    ASSUME NEW S, out \in Seq(S), NEW n \in Nat \ {0}
    PROVE  Snprintf(n) =
               SubSeq(out, 1, IF Len(out) < n THEN Len(out) ELSE n - 1) \o <<Nul>>
  <1>1. PICK text : text = Append(out, Nul) OBVIOUS
  <1>0. PICK m \in Nat : m = Len(out) OBVIOUS
  <1>2. out \in Seq(S \cup {Nul}) OBVIOUS
  <1>3. /\ text \in Seq(S \cup {Nul}) /\ Len(text) = m + 1
        /\ text = out \o <<Nul>>
    BY <1>0, <1>1, <1>2, AppendProperties, AppendIsConcat
  <1>4. Snprintf(n) = Kept(text, n, m + 1).cur
    <2>1. m + 1 \in 0..Len(text) BY <1>3
    <2>2. Written(text, n)[m + 1] = Kept(text, n, m + 1) BY <1>3, <2>1, WrittenIsKept
    <2> QED BY <1>0, <1>1, <2>2 DEF Snprintf
  <1>5. CASE m + 1 < n
    <2>1. Kept(text, n, m + 1).cur = SubSeq(text, 1, m + 1) BY <1>5 DEF Kept
    <2>2. SubSeq(text, 1, m + 1) = text BY <1>3, SubSeqFull
    <2>3. SubSeq(out, 1, m) = out BY <1>0, <1>1, SubSeqFull
    <2>4. m < n BY <1>5
    <2> QED BY <1>0, <1>1, <1>3, <1>4, <2>1, <2>2, <2>3, <2>4
  <1>6. CASE n <= m + 1
    <2>1. Kept(text, n, m + 1).cur = SubSeq(text, 1, n - 1) \o <<Nul>> BY <1>6 DEF Kept
    <2>2. SubSeq(text, 1, n - 1) = SubSeq(out, 1, n - 1)
      <3>1. CASE n = 1
        <4>1. SubSeq(text, 1, 0) = <<>> /\ SubSeq(out, 1, 0) = <<>> BY SubSeqEmpty
        <4> QED BY <3>1, <4>1
      <3>2. CASE n # 1
        <4>1. n - 1 \in 1..Len(out) /\ 1 \in 1..Len(out) BY <1>0, <1>1, <1>6, <3>2
        <4>2. <<Nul>> \in Seq(S \cup {Nul}) OBVIOUS
        <4> QED BY <1>2, <1>3, <4>1, <4>2, SubSeqOfConcat1
      <3> QED BY <3>1, <3>2
    <2>3. (IF m < n THEN m ELSE n - 1) = n - 1 BY <1>6
    <2> QED BY <1>0, <1>1, <1>4, <2>1, <2>2, <2>3
  <1> QED BY <1>5, <1>6

----------------------------------------------------------------------------
(* The output is a sequence of characters.                                 *)

\* The characters that a format, a string or a conversion may output.  (Every
\* literal is in STRING, which the provers do not know.)
Signs == {Nul, Char, " ", "-", "(", ")", "0", "x", "n", "i", "l", "u"}
Characters == STRING \cup Signs \cup {HexDigits[j] : j \in 1..32}

\* The recursion of DigitsOf.
Rule(D, m, base, from) ==
    IF m < base THEN <<HexDigits[from + m + 1]>>
    ELSE Append(D[m \div base], HexDigits[from + (m % base) + 1])

LEMMA Digit == ASSUME NEW j \in 1..32 PROVE HexDigits[j] \in Characters
  BY DEF Characters

\* The recursion has a solution for every number.
LEMMA DigitsExist ==
    ASSUME NEW base \in Nat, base > 1, NEW from
    PROVE  \A n \in Nat : \E D : D = [m \in 0..n |-> Rule(D, m, base, from)]
  <1> DEFINE T == {n \in Nat : \E D : D = [m \in 0..n |-> Rule(D, m, base, from)]}
  <1>1. 0 \in T
    <2>1. PICK D : D = [m \in 0..0 |-> <<HexDigits[from + m + 1]>>] OBVIOUS
    <2>2. \A m \in 0..0 : Rule(D, m, base, from) = <<HexDigits[from + m + 1]>> BY DEF Rule
    <2>3. D = [m \in 0..0 |-> Rule(D, m, base, from)] BY <2>1, <2>2
    <2> QED BY <2>3
  <1>2. ASSUME NEW n \in Nat, n \in T PROVE n + 1 \in T
    <2>1. PICK D : D = [m \in 0..n |-> Rule(D, m, base, from)] BY <1>2
    <2>2. PICK x : x = Rule(D, n + 1, base, from) OBVIOUS
    <2>3. PICK E : E = [m \in 0..(n + 1) |-> IF m = n + 1 THEN x ELSE D[m]] OBVIOUS
    <2>4. ASSUME NEW m \in 0..(n + 1) PROVE Rule(E, m, base, from) = Rule(D, m, base, from)
      <3>1. CASE m < base BY <3>1 DEF Rule
      <3>2. CASE ~(m < base)
        <4>1. m \div base \in 0..n
          <5>1. PICK q \in Nat : q = m \div base OBVIOUS
          <5>2. q * base <= m BY <5>1
          <5>3. q = 0 \/ q < q * base
            <6>1. q * base >= q * 2 OBVIOUS
            <6> QED BY <6>1
          <5>4. q <= n BY <5>2, <5>3
          <5> QED BY <5>1, <5>4
        <4>2. E[m \div base] = D[m \div base]
          <5>1. PICK q \in 0..n : q = m \div base BY <4>1
          <5>2. q \in 0..(n + 1) /\ q # n + 1 BY <5>1
          <5> QED BY <2>3, <5>1, <5>2
        <4> QED BY <3>2, <4>2, Zenon DEF Rule
      <3> QED BY <3>1, <3>2
    <2>5. ASSUME NEW m \in 0..(n + 1) PROVE E[m] = Rule(E, m, base, from)
      <3>1. CASE m = n + 1
        <4>1. E[m] = x BY <2>3, <3>1
        <4> QED BY <2>2, <2>4, <3>1, <4>1, Zenon
      <3>2. CASE m # n + 1
        <4>1. m \in 0..n BY <3>2
        <4>2. E[m] = D[m] BY <2>3, <3>2
        <4>3. D[m] = Rule(D, m, base, from) BY <2>1, <4>1
        <4> QED BY <2>4, <4>2, <4>3
      <3> QED BY <3>1, <3>2
    <2>6. E = [m \in 0..(n + 1) |-> Rule(E, m, base, from)] BY <2>3, <2>5
    <2> QED BY <2>6
  <1>3. Nat \subseteq T
    <2> HIDE DEF T
    <2> QED BY <1>1, <1>2, SetInduction
  <1> QED BY <1>3

LEMMA DigitsTyped ==
    ASSUME NEW n \in Nat, NEW base \in 2..16, NEW from \in {0, 16}
    PROVE  DigitsOf(n, base, from) \in Seq(Characters)
  <1>1. PICK D : D = CHOOSE E : E = [m \in 0..n |-> Rule(E, m, base, from)] OBVIOUS
  <1>2. D = [m \in 0..n |-> Rule(D, m, base, from)]
    <2>1. \E E : E = [m \in 0..n |-> Rule(E, m, base, from)]
      <3>1. base \in Nat /\ base > 1 OBVIOUS
      <3> QED BY <3>1, DigitsExist
    <2> QED BY <1>1, <2>1, Zenon
  <1>3. DigitsOf(n, base, from) = D[n] BY <1>1 DEF DigitsOf, Rule
  <1> DEFINE T == {k \in Nat : \A m \in 0..n : m <= k => D[m] \in Seq(Characters)}
  <1>4. ASSUME NEW m \in 0..n, m < base PROVE D[m] \in Seq(Characters)
    <2>1. D[m] = <<HexDigits[from + m + 1]>> BY <1>2, <1>4 DEF Rule
    <2>2. from + m + 1 \in 1..32 BY <1>4
    <2>3. HexDigits[from + m + 1] \in Characters BY <2>2, Digit
    <2> QED BY <2>1, <2>3
  <1>5. 0 \in T BY <1>4
  <1>6. ASSUME NEW k \in Nat, k \in T PROVE k + 1 \in T
    <2>1. ASSUME NEW m \in 0..n, m <= k + 1, ~(m < base) PROVE D[m] \in Seq(Characters)
      <3>1. PICK q \in Nat, r \in Nat : q = m \div base /\ r = m % base OBVIOUS
      <3>2. q * base <= m BY <3>1
      <3>3. q = 0 \/ q < q * base
        <4>1. q * base >= q * 2 OBVIOUS
        <4> QED BY <4>1
      <3>4. q <= k /\ q \in 0..n BY <2>1, <3>2, <3>3
      <3>5. D[q] \in Seq(Characters) BY <1>6, <3>4
      <3>6. r < base BY <3>1
      <3>7. from + r + 1 \in 1..32 BY <3>6
      <3>8. HexDigits[from + r + 1] \in Characters BY <3>7, Digit
      <3>9. D[m] = Append(D[q], HexDigits[from + r + 1])
        <4>1. D[m] = Rule(D, m, base, from) BY <1>2
        <4> QED BY <2>1, <3>1, <4>1, Zenon DEF Rule
      <3> QED BY <3>5, <3>8, <3>9
    <2> QED BY <1>4, <2>1
  <1>7. Nat \subseteq T
    <2> HIDE DEF T
    <2> QED BY <1>5, <1>6, SetInduction
  <1>8. n \in T /\ n \in 0..n /\ n <= n BY <1>7
  <1>9. D[n] \in Seq(Characters) BY <1>8
  <1> QED BY <1>3, <1>9, Zenon
LEMMA Fetched ==
    ASSUME Arg \in Nat, NEW conv
    PROVE  Absolute(Fetch(conv)) \in Nat
  <1>1. PICK w : w = Width OBVIOUS
  <1>2. w \in DOMAIN Bits BY <1>1, PrintfAssumption DEF Width
  <1>3. PICK p \in Nat \ {0} : p = 2^Bits[w] BY <1>2, PrintfAssumption
  <1>4. PICK n \in Int : n = Low(Arg, w) /\ n >= 0
    <2>1. Arg % p \in Nat BY <1>3
    <2> QED BY <1>3, <2>1 DEF Low
  <1>5. Signed(Arg, w) \in Int
    <2>1. Signed(Arg, w) = n \/ Signed(Arg, w) = n - p BY <1>3, <1>4, Zenon DEF Signed
    <2> QED BY <1>3, <1>4, <2>1
  <1>6. Fetch(conv) \in Int BY <1>1, <1>4, <1>5 DEF Fetch
  <1> QED BY <1>6 DEF Absolute

LEMMA ConvertedTyped ==
    ASSUME Arg \in Nat, str \in Seq(STRING), NEW conv \in Conversions
    PROVE  /\ Converted(conv).body \in Seq(Characters)
           /\ Converted(conv).sign \in Seq(Characters)
  <1>1. /\ \A c \in Signs : c \in Characters
        /\ str \in Seq(Characters)
        /\ <<>> \in Seq(Characters)
    BY DEF Characters
  <1>2. ASSUME NEW base \in 2..16, NEW from \in {0, 16}
        PROVE  /\ DigitsOf(Absolute(Fetch(conv)), base, from) \in Seq(Characters)
               /\ DigitsOf(Arg, base, from) \in Seq(Characters)
    BY Fetched, DigitsTyped
  <1>3. /\ DigitsOf(Absolute(Fetch(conv)), 16, 16) \in Seq(Characters)
        /\ DigitsOf(Absolute(Fetch(conv)), 16, 0) \in Seq(Characters)
        /\ DigitsOf(Absolute(Fetch(conv)), 10, 0) \in Seq(Characters)
        /\ DigitsOf(Absolute(Fetch(conv)), 8, 0) \in Seq(Characters)
        /\ DigitsOf(Arg, 16, 16) \in Seq(Characters)
    <2>1. 16 \in 2..16 /\ 10 \in 2..16 /\ 8 \in 2..16 /\ 0 \in {0, 16} /\ 16 \in {0, 16}
      OBVIOUS
    <2> QED BY <1>2, <2>1, Zenon
  <1>4. /\ <<"-">> \in Seq(Characters) /\ <<"0", "x">> \in Seq(Characters)
        /\ <<Char>> \in Seq(Characters) /\ <<"(", "n", "i", "l", ")">> \in Seq(Characters)
        /\ <<"(", "n", "u", "l", "l", ")">> \in Seq(Characters)
    <2>1. /\ "-" \in Characters /\ "0" \in Characters /\ "x" \in Characters
          /\ Char \in Characters /\ "(" \in Characters /\ "n" \in Characters
          /\ "i" \in Characters /\ "l" \in Characters /\ ")" \in Characters
          /\ "u" \in Characters
      BY <1>1, Zenon DEF Signs
    <2> QED BY <2>1
  <1>5. CASE conv = "p"
    <2>1. CASE Arg = 0
      <3>1. conv = "p" /\ Arg = 0 BY <1>5, <2>1
      <3>2. PICK s : s = <<"(", "n", "i", "l", ")">> OBVIOUS
      <3>3. Converted(conv) = [body |-> s, sign |-> <<>>, zeros |-> FALSE]
        BY <3>1, <3>2 DEF Converted
      <3>4. Converted(conv).body = s /\ Converted(conv).sign = <<>> BY <3>3
      <3> QED BY <1>1, <1>4, <3>2, <3>4, Zenon
    <2>2. CASE Arg # 0
      <3>1. /\ Converted(conv).body = DigitsOf(Arg, 16, 16)
            /\ Converted(conv).sign = <<"0", "x">>
        BY <1>5, <2>2 DEF Converted
      <3> QED BY <1>3, <1>4, <3>1, Zenon
    <2> QED BY <2>1, <2>2
  <1>6. CASE conv \in {"x", "X", "o", "u", "d", "i"}
    <2>1. ASSUME conv = "x" PROVE Converted(conv).body \in Seq(Characters)
      <3>1. Converted(conv).body = DigitsOf(Absolute(Fetch(conv)), 16, 16)
        BY <2>1 DEF Converted
      <3> QED BY <1>3, <3>1, Zenon
    <2>2. ASSUME conv = "X" PROVE Converted(conv).body \in Seq(Characters)
      <3>1. Converted(conv).body = DigitsOf(Absolute(Fetch(conv)), 16, 0)
        BY <2>2 DEF Converted
      <3> QED BY <1>3, <3>1, Zenon
    <2>3. ASSUME conv = "o" PROVE Converted(conv).body \in Seq(Characters)
      <3>1. Converted(conv).body = DigitsOf(Absolute(Fetch(conv)), 8, 0)
        BY <2>3 DEF Converted
      <3> QED BY <1>3, <3>1, Zenon
    <2>4. ASSUME conv \in {"u", "d", "i"} PROVE Converted(conv).body \in Seq(Characters)
      <3>1. Converted(conv).body = DigitsOf(Absolute(Fetch(conv)), 10, 0)
        BY <2>4 DEF Converted
      <3> QED BY <1>3, <3>1, Zenon
    <2>5. Converted(conv).body \in Seq(Characters)
      <3>1. \/ conv = "x" \/ conv = "X" \/ conv = "o" \/ conv \in {"u", "d", "i"} BY <1>6
      <3> QED BY <2>1, <2>2, <2>3, <2>4, <3>1, Zenon
    <2>6. Converted(conv).sign = <<>> \/ Converted(conv).sign = <<"-">>
      BY <1>6 DEF Converted
    <2> QED BY <1>1, <1>4, <2>5, <2>6, Zenon
  <1>7. CASE conv = "c"
    <2>1. Converted(conv).body \in {<<>>, <<Char>>} /\ Converted(conv).sign = <<>>
      BY <1>7 DEF Converted
    <2> QED BY <1>1, <1>4, <2>1
  <1>8. CASE conv = "s"
    <2>1. /\ Converted(conv).body \in {<<"(", "n", "u", "l", "l", ")">>, str}
          /\ Converted(conv).sign = <<>>
      BY <1>8 DEF Converted
    <2> QED BY <1>1, <1>4, <2>1
  <1> QED BY <1>5, <1>6, <1>7, <1>8 DEF Conversions

LEMMA EmittedTyped ==
    ASSUME wd \in Nat, NEW c, c.body \in Seq(Characters), c.sign \in Seq(Characters)
    PROVE  Emitted(c) \in Seq(Characters)
  <1>1. PICK p \in Nat : p = Padding(c)
    <2>1. PICK l \in Nat : l = Len(c.body) OBVIOUS
    <2>2. PICK g \in Nat : g = Len(c.sign) OBVIOUS
    <2>3. Padding(c) = IF wd > l + g THEN wd - (l + g) ELSE 0 BY <2>1, <2>2, Zenon DEF Padding
    <2>4. Padding(c) \in Nat BY <2>3
    <2> QED BY <2>4
  <1>2. ASSUME NEW ch \in Characters PROVE Times(p, ch) \in Seq(Characters)
    BY <1>2 DEF Times
  <1>3. "0" \in Characters /\ " " \in Characters BY DEF Characters, Signs
  <1>4. Times(p, "0") \in Seq(Characters) /\ Times(p, " ") \in Seq(Characters)
    BY <1>2, <1>3, Zenon
  <1>5. \/ Emitted(c) = c.sign \o c.body \o Times(p, " ")
        \/ Emitted(c) = c.sign \o Times(p, "0") \o c.body
        \/ Emitted(c) = Times(p, " ") \o c.sign \o c.body
    BY <1>1, Zenon DEF Emitted
  <1>6. ASSUME NEW x \in Seq(Characters), NEW y \in Seq(Characters), NEW z \in Seq(Characters)
        PROVE  x \o y \o z \in Seq(Characters)
    OBVIOUS
  <1>7. /\ c.sign \o c.body \o Times(p, " ") \in Seq(Characters)
        /\ c.sign \o Times(p, "0") \o c.body \in Seq(Characters)
        /\ Times(p, " ") \o c.sign \o c.body \in Seq(Characters)
    BY <1>4, <1>6, Zenon
  <1> QED BY <1>5, <1>7, Zenon

\* The rest of the state, in a call with an argument for every conversion.
OutInv ==
    /\ args \in Args /\ str \in Strings
    /\ used \in Nat /\ wd \in Nat
    /\ out \in Seq(Characters)

LEMMA OutNext ==
    ReadInv /\ OutInv /\ (used <= Len(args))' /\ [Next]_vars => OutInv'
  <1> SUFFICES ASSUME ReadInv, OutInv, (used <= Len(args))', [Next]_vars PROVE OutInv'
    OBVIOUS
  <1> USE DEF OutInv
  <1>1. Ch \in Characters
    <2>1. fmt \in Seq(STRING) /\ i \in Nat /\ i >= 1 BY DEF ReadInv
    <2>2. CASE i <= Len(fmt)
      <3>1. i \in 1..Len(fmt) BY <2>1, <2>2
      <3>2. fmt[i] \in STRING BY <2>1, <3>1
      <3> QED BY <2>2, <3>2, Zenon DEF Ch, Characters
    <2>3. CASE ~(i <= Len(fmt))
      <3>1. Ch = Nul BY <2>3 DEF Ch
      <3> QED BY <3>1, Zenon DEF Characters, Signs
    <2> QED BY <2>2, <2>3, Zenon
  <1>10. Append(out, Ch) \in Seq(Characters) BY <1>1
  <1>2. CASE Text
    <2>1. args' = args /\ str' = str BY <1>2 DEF Text, Goto, call
    <2>2. wd' = wd /\ used' = used /\ (out' = out \/ out' = Append(out, Ch)) BY <1>2 DEF Text
    <2> QED BY <1>10, <2>1, <2>2, Zenon
  <1>3. CASE Flag
    <2>1. args' = args /\ str' = str /\ used' = used BY <1>3 DEF Flag, Goto, call
    <2>2. (wd' = wd \/ wd' = 0) /\ (out' = out \/ out' = Append(out, Ch)) BY <1>3 DEF Flag
    <2>3. 0 \in Nat OBVIOUS
    <2> QED BY <1>10, <2>1, <2>2, <2>3, Zenon
  <1>4. CASE FieldWidth
    <2>1. args' = args /\ str' = str /\ used' = used /\ out' = out
      BY <1>4 DEF FieldWidth, Goto, call
    <2>2. wd' \in Nat
      <3>1. CASE \E d \in 1..10 : Ch = Num10[d]
        <4>1. PICK d \in 1..10 : d = CHOOSE c \in 1..10 : Ch = Num10[c] BY <3>1
        <4>2. wd' = 10 * wd + d - 1 BY <1>4, <3>1, <4>1 DEF FieldWidth
        <4> QED BY <4>2
      <3>2. CASE ~ \E d \in 1..10 : Ch = Num10[d] BY <1>4, <3>2 DEF FieldWidth
      <3> QED BY <3>1, <3>2
    <2> QED BY <2>1, <2>2
  <1>5. CASE Modifier
    BY <1>5 DEF Modifier, Goto, call
  <1>6. CASE Conversion
    <2>1. args' = args /\ str' = str /\ wd' = 0 BY <1>6 DEF Conversion, Goto, call
    <2>2. CASE Ch \in Conversions
      <3>1. used' = used + 1 /\ out' = out \o Emitted(Converted(Ch))
        BY <1>6, <2>2 DEF Conversion
      <3>2. Arg \in Nat
        <4>1. PICK p \in Nat : p = 2^Bits["long"] BY PrintfAssumption
        <4>2. PICK S : S = 0..(p - 1) OBVIOUS
        <4>3. args \in Seq(S) BY <4>1, <4>2, PrintfAssumption, Zenon
        <4>4. used + 1 \in 1..Len(args) BY <2>1, <3>1, <4>3
        <4>5. args[used + 1] \in S BY <4>3, <4>4
        <4>6. S \subseteq Nat BY <4>2
        <4> QED BY <4>5, <4>6, Zenon DEF Arg
      <3>3. str \in Seq(STRING) BY PrintfAssumption
      <3>4. Emitted(Converted(Ch)) \in Seq(Characters)
        BY <2>2, <3>2, <3>3, ConvertedTyped, EmittedTyped
      <3> QED BY <2>1, <3>1, <3>4
    <2>3. CASE Ch \notin Conversions
      <3>1. used' = used /\ out' = out \o <<Ch>> BY <1>6, <2>3 DEF Conversion
      <3> QED BY <1>1, <2>1, <3>1
    <2> QED BY <2>2, <2>3
  <1>7. CASE Return BY <1>7 DEF Return, Stop, call
  <1>8. CASE Overrun BY <1>8 DEF Overrun, Stop, call
  <1>9. CASE UNCHANGED vars BY <1>9 DEF vars
  <1> QED BY <1>2, <1>3, <1>4, <1>5, <1>6, <1>7, <1>8, <1>9 DEF Next

\* snprintf keeps to its buffer and always ends it, in every call with an
\* argument for every conversion of its format.
THEOREM SnprintfInBounds == Spec /\ [](used <= Len(args)) => []SnprintfFits
  <1>1. Init => OutInv
    BY DEF Init, OutInv
  <1>2. OutInv => SnprintfFits
    <2> SUFFICES ASSUME OutInv, NEW n \in 1..4
                 PROVE  Snprintf(n) =
                            SubSeq(out, 1, IF Len(out) < n THEN Len(out) ELSE n - 1) \o <<Nul>>
      BY DEF SnprintfFits
    <2>1. n \in Nat \ {0} /\ out \in Seq(Characters) BY DEF OutInv
    <2> QED BY <2>1, SnprintfKeeps
  <1> QED BY <1>1, <1>2, OutNext, ReadInvariance, PTL DEF Spec

----------------------------------------------------------------------------
(* Powers of a base.                                                       *)

\* The recursion of Power, up to n.
Powers(P, n, base) == P = [k \in 0..n |-> IF k = 0 THEN 1 ELSE base * P[k - 1]]

LEMMA PowersExist ==
    ASSUME NEW base \in Nat
    PROVE  \A n \in Nat : \E P : Powers(P, n, base)
  <1> DEFINE T == {n \in Nat : \E P : Powers(P, n, base)}
  <1>1. 0 \in T
    <2>1. PICK P : P = [k \in 0..0 |-> 1] OBVIOUS
    <2>2. P = [k \in 0..0 |-> IF k = 0 THEN 1 ELSE base * P[k - 1]] BY <2>1
    <2> QED BY <2>2 DEF Powers
  <1>2. ASSUME NEW n \in Nat, n \in T PROVE n + 1 \in T
    <2>1. PICK P : Powers(P, n, base) BY <1>2
    <2>2. PICK Q : Q = [k \in 0..(n + 1) |-> IF k = n + 1 THEN base * P[n] ELSE P[k]]
      OBVIOUS
    <2>3. \A k \in 0..n : Q[k] = P[k] BY <2>2
    <2>4. \A k \in 0..n : P[k] = IF k = 0 THEN 1 ELSE base * P[k - 1]
      BY <2>1 DEF Powers
    <2>5. ASSUME NEW k \in 0..(n + 1)
          PROVE  Q[k] = IF k = 0 THEN 1 ELSE base * Q[k - 1]
      <3>1. CASE k = n + 1
        <4>1. Q[k] = base * P[n] BY <2>2, <3>1
        <4>2. Q[k - 1] = P[n] BY <2>3, <3>1
        <4> QED BY <3>1, <4>1, <4>2
      <3>2. CASE k = 0
        <4>1. k \in 0..n BY <3>2
        <4> QED BY <2>3, <2>4, <3>2, <4>1
      <3>3. CASE k # 0 /\ k # n + 1
        <4>1. k \in 0..n /\ k - 1 \in 0..n BY <3>3
        <4> QED BY <2>3, <2>4, <3>3, <4>1
      <3> QED BY <3>1, <3>2, <3>3
    <2>6. Q = [k \in 0..(n + 1) |-> IF k = 0 THEN 1 ELSE base * Q[k - 1]] BY <2>2, <2>5
    <2> QED BY <2>6 DEF Powers
  <1>3. Nat \subseteq T
    <2> HIDE DEF T
    <2> QED BY <1>1, <1>2, SetInduction
  <1> QED BY <1>3

\* What the recursive definition of Power says of each exponent.
LEMMA PowerRule ==
    ASSUME NEW base \in Nat
    PROVE  /\ Power(base)[0] = 1
           /\ \A k \in Nat : Power(base)[k + 1] = base * Power(base)[k]
  <1> DEFINE F(n) == CHOOSE P : Powers(P, n, base)
  <1>1. ASSUME NEW n \in Nat
        PROVE  \A k \in 0..n : F(n)[k] = IF k = 0 THEN 1 ELSE base * F(n)[k - 1]
    <2>1. Powers(F(n), n, base) BY PowersExist, Zenon
    <2> HIDE DEF F
    <2> QED BY <2>1 DEF Powers
  <1> HIDE DEF F
  <1>2. ASSUME NEW n \in Nat PROVE \A k \in 0..n : F(n + 1)[k] = F(n)[k]
    <2> DEFINE T == {k \in Nat : k <= n => F(n + 1)[k] = F(n)[k]}
    <2>1. 0 \in T
      <3>1. F(n)[0] = 1 BY <1>1
      <3>2. n + 1 \in Nat /\ 0 \in 0..(n + 1) OBVIOUS
      <3>3. F(n + 1)[0] = 1 BY <1>1, <3>2
      <3> QED BY <3>1, <3>3
    <2>2. ASSUME NEW k \in Nat, k \in T PROVE k + 1 \in T
      <3>1. SUFFICES ASSUME k + 1 <= n PROVE F(n + 1)[k + 1] = F(n)[k + 1] OBVIOUS
      <3>2. F(n + 1)[k] = F(n)[k] BY <2>2, <3>1
      <3>3. PICK m \in Nat : m = n + 1 OBVIOUS
      <3>4. k + 1 \in 0..n /\ k + 1 \in 0..m /\ k + 1 # 0 /\ (k + 1) - 1 = k BY <3>1, <3>3
      <3>5. F(n)[k + 1] = base * F(n)[k] BY <1>1, <3>4
      <3>6. F(m)[k + 1] = base * F(m)[k] BY <1>1, <3>4
      <3> QED BY <3>2, <3>3, <3>5, <3>6
    <2>3. Nat \subseteq T
      <3> HIDE DEF T
      <3> QED BY <2>1, <2>2, SetInduction
    <2> QED BY <2>3
  <1>3. PICK G : G = [k \in Nat |-> F(k)[k]] OBVIOUS
  <1>4. ASSUME NEW k \in Nat PROVE G[k] = IF k = 0 THEN 1 ELSE base * G[k - 1]
    <2>1. CASE k = 0
      <3>1. F(k)[k] = 1 BY <1>1, <2>1
      <3> QED BY <1>3, <2>1, <3>1
    <2>2. CASE k # 0
      <3>1. PICK m \in Nat : k = m + 1 /\ m = k - 1 BY <2>2
      <3>2. F(k)[k] = base * F(k)[m] BY <1>1, <2>2, <3>1
      <3>3. F(k)[m] = F(m)[m] BY <1>2, <3>1
      <3> QED BY <1>3, <2>2, <3>1, <3>2, <3>3
    <2> QED BY <2>1, <2>2
  <1>5. G = [k \in Nat |-> IF k = 0 THEN 1 ELSE base * G[k - 1]] BY <1>3, <1>4
  <1>6. PICK P : P = Power(base) OBVIOUS
  <1>7. P = [k \in Nat |-> IF k = 0 THEN 1 ELSE base * P[k - 1]]
    BY <1>5, <1>6, Zenon DEF Power
  <1>8. P[0] = 1 BY <1>7
  <1>9. ASSUME NEW k \in Nat PROVE P[k + 1] = base * P[k]
    <2>1. k + 1 \in Nat /\ k + 1 # 0 /\ (k + 1) - 1 = k OBVIOUS
    <2> QED BY <1>7, <2>1
  <1> QED BY <1>6, <1>8, <1>9

LEMMA PowerGrows ==
    ASSUME NEW base \in Nat, base > 1
    PROVE  \A k \in Nat : /\ Power(base)[k] \in Nat /\ Power(base)[k] > k
                          /\ Power(base)[k] < Power(base)[k + 1]
  <1>1. PICK P : P = Power(base) OBVIOUS
  <1>2. P[0] = 1 /\ \A k \in Nat : P[k + 1] = base * P[k] BY <1>1, PowerRule
  <1> DEFINE T == {k \in Nat : P[k] \in Nat /\ P[k] > k}
  <1>3. ASSUME NEW p \in Nat, NEW k \in Nat, p > k
        PROVE  base * p \in Nat /\ base * p > k + 1 /\ base * p > p
    <2>1. base * p \in Nat /\ base * p >= 2 * p OBVIOUS
    <2> QED BY <1>3, <2>1
  <1>4. 0 \in T BY <1>2
  <1>5. ASSUME NEW k \in Nat, k \in T PROVE k + 1 \in T
    BY <1>2, <1>3, <1>5
  <1>6. Nat \subseteq T
    <2> HIDE DEF T
    <2> QED BY <1>4, <1>5, SetInduction
  <1>7. ASSUME NEW k \in Nat PROVE P[k] \in Nat /\ P[k] > k /\ P[k] < P[k + 1]
    <2>1. P[k] \in Nat /\ P[k] > k BY <1>6
    <2> QED BY <1>2, <1>3, <2>1
  <1> QED BY <1>1, <1>7

LEMMA PowerOrder ==
    ASSUME NEW base \in Nat, base > 1, NEW j \in Nat, NEW k \in Nat, j <= k
    PROVE  Power(base)[j] <= Power(base)[k]
  <1>1. PICK P : P = Power(base) OBVIOUS
  <1>2. \A l \in Nat : P[l] \in Nat /\ P[l] < P[l + 1] BY <1>1, PowerGrows
  <1> DEFINE T == {l \in Nat : P[j] <= P[j + l]}
  <1>3. 0 \in T BY <1>2
  <1>4. ASSUME NEW l \in Nat, l \in T PROVE l + 1 \in T
    <2>1. j + l \in Nat /\ j + (l + 1) = (j + l) + 1 OBVIOUS
    <2>2. P[j + l] < P[(j + l) + 1] /\ P[j + l] \in Nat /\ P[(j + l) + 1] \in Nat
      BY <1>2, <2>1
    <2>3. P[j] \in Nat BY <1>2
    <2> QED BY <1>4, <2>1, <2>2, <2>3
  <1>5. Nat \subseteq T
    <2> HIDE DEF T
    <2> QED BY <1>3, <1>4, SetInduction
  <1>6. k - j \in Nat /\ j + (k - j) = k OBVIOUS
  <1>7. P[j] <= P[j + (k - j)] BY <1>5, <1>6
  <1> QED BY <1>1, <1>6, <1>7

----------------------------------------------------------------------------
(* The digits that the code produces are the numeral.                      *)

LEMMA Division ==
    ASSUME NEW n \in Nat, NEW d \in Nat, d > 0
    PROVE  /\ n \div d \in Nat /\ n % d \in 0..(d - 1)
           /\ n = d * (n \div d) + (n % d)
  <1>1. n \div d \in Nat OBVIOUS
  <1>2. n % d \in Int /\ 0 <= n % d /\ n % d < d OBVIOUS
  <1>3. PICK q \in Nat, r \in Nat : q = n \div d /\ r = n % d BY <1>1, <1>2
  <1>4. n = q * d + r BY <1>3
  <1>5. n = d * q + r BY <1>4
  <1>6. r \in 0..(d - 1) BY <1>2, <1>3
  <1> QED BY <1>1, <1>3, <1>5, <1>6, Zenon

LEMMA Quotient ==
    ASSUME NEW n \in Nat, NEW d \in Nat, d > 0, NEW x \in Nat, d * x <= n, n < d * (x + 1)
    PROVE  n \div d = x
  <1>1. PICK q \in Nat, r \in Nat : q = n \div d /\ r = n % d /\ r < d /\ n = d * q + r
    BY Division
  <1>2. CASE q < x
    <2>1. d * (q + 1) <= d * x BY <1>2
    <2>2. d * (q + 1) = d * q + d OBVIOUS
    <2> QED BY <1>1, <2>1, <2>2
  <1>3. CASE q > x
    <2>1. d * (x + 1) <= d * q BY <1>3
    <2> QED BY <1>1, <2>1
  <1> QED BY <1>1, <1>2, <1>3

LEMMA Nested ==
    ASSUME NEW n \in Nat, NEW b \in Nat, b > 0, NEW p \in Nat, p > 0
    PROVE  n \div (b * p) = (n \div b) \div p
  <1>1. PICK q \in Nat, r \in Nat : q = n \div b /\ r < b /\ n = b * q + r BY Division
  <1>2. PICK x \in Nat, s \in Nat : x = q \div p /\ s < p /\ q = p * x + s BY Division
  <1>3. PICK d \in Nat : d = b * p /\ d > 0 OBVIOUS
  <1>4. d * x <= n
    <2>1. b * (p * x) <= b * q BY <1>2
    <2>2. d * x = b * (p * x) BY <1>3
    <2> QED BY <1>1, <2>1, <2>2
  <1>5. n < d * (x + 1)
    <2>1. q + 1 <= p * (x + 1) BY <1>2
    <2>2. b * (q + 1) <= b * (p * (x + 1)) BY <2>1
    <2>3. d * (x + 1) = b * (p * (x + 1)) BY <1>3
    <2>4. n < b * (q + 1) BY <1>1
    <2> QED BY <2>2, <2>3, <2>4
  <1> QED BY <1>1, <1>2, <1>3, <1>4, <1>5, Quotient

\* Every number has one length, and it is within the bound of Numeral.
LEMMA Lengths ==
    ASSUME NEW base \in Nat, base > 1, NEW n \in Nat
    PROVE  /\ \E k \in 1..(n + 1) : IsLength(k, n, base)
           /\ \A j, k \in 1..(n + 1) : IsLength(j, n, base) /\ IsLength(k, n, base) => j = k
  <1>1. PICK P : P = Power(base) OBVIOUS
  <1>2. \A k \in Nat : P[k] \in Nat /\ P[k] > k BY <1>1, PowerGrows
  <1>3. \A k : IsLength(k, n, base) <=> P[k] > n /\ (k = 1 \/ P[k - 1] <= n)
    BY <1>1 DEF IsLength
  <1>4. \E k \in 1..(n + 1) : IsLength(k, n, base)
    <2> DEFINE T == {k \in Nat : k >= 1 /\ P[k] > n}
    <2>1. n + 1 \in T BY <1>2
    <2>2. PICK k \in T : \A j \in T : k <= j
      <3>1. T \subseteq Nat /\ T # {} BY <2>1
      <3> HIDE DEF T
      <3> QED BY <3>1, Least
    <2>3. k \in 1..(n + 1) BY <2>1, <2>2
    <2>4. k = 1 \/ P[k - 1] <= n
      <3>1. SUFFICES ASSUME k # 1, ~(P[k - 1] <= n) PROVE FALSE OBVIOUS
      <3>2. k - 1 \in Nat /\ k - 1 >= 1 BY <2>3, <3>1
      <3>3. P[k - 1] > n BY <1>2, <3>1, <3>2
      <3>4. k - 1 \in T BY <3>2, <3>3
      <3>5. k <= k - 1 BY <2>2, <3>4
      <3> QED BY <2>3, <3>5
    <2> QED BY <1>3, <2>2, <2>3, <2>4
  <1>5. ASSUME NEW j \in 1..(n + 1), NEW k \in 1..(n + 1),
               IsLength(j, n, base), IsLength(k, n, base), j < k
        PROVE  FALSE
    <2>1. k - 1 \in Nat /\ j \in Nat /\ j <= k - 1 /\ k # 1 BY <1>5
    <2>2. P[j] <= P[k - 1] BY <1>1, <2>1, PowerOrder
    <2>3. P[j] > n /\ P[k - 1] <= n BY <1>3, <1>5, <2>1
    <2> QED BY <1>2, <2>1, <2>2, <2>3
  <1> QED BY <1>4, <1>5

\* What is left of n without its last j digits, and its k digits.
Shifted(n, base, j) == n \div Power(base)[j]
Offset(lower) == IF lower THEN 16 ELSE 0
Numerals(n, base, lower, k) ==
    [j \in 1..k |-> HexDigits[(Shifted(n, base, k - j) % base) + 1 + Offset(lower)]]

\* The numeral, once its length is known.
LEMMA NumeralOf ==
    ASSUME NEW base \in Nat, base > 1, NEW n \in Nat, NEW lower \in BOOLEAN,
           NEW k \in 1..(n + 1), IsLength(k, n, base)
    PROVE  Numeral(n, base, lower) = Numerals(n, base, lower, k)
  <1>1. PICK l : l = CHOOSE j \in 1..(n + 1) : IsLength(j, n, base) OBVIOUS
  <1>2. l \in 1..(n + 1) /\ IsLength(l, n, base) BY <1>1, Zenon
  <1>3. l = k BY <1>2, Lengths
  <1> QED BY <1>1, <1>3 DEF Numeral, Numerals, Shifted, Offset

\* A digit more: the length, and the digits but the last.
Lengthens(n, q, base, k) ==
    /\ k + 1 \in 1..(n + 1) /\ IsLength(k + 1, n, base)
    /\ \A j \in 1..k : Shifted(n, base, (k + 1) - j) = Shifted(q, base, k - j)
    /\ Shifted(n, base, 0) = n

LEMMA LongerByOne ==
    ASSUME NEW base \in Nat, base > 1, NEW n \in Nat, n >= base,
           NEW q \in Nat, q = n \div base, NEW k \in 1..(q + 1), IsLength(k, q, base)
    PROVE  Lengthens(n, q, base, k)
  <1>1. PICK P : P = Power(base) OBVIOUS
  <1>2. \A j \in Nat : P[j] \in Nat /\ P[j] > j /\ P[j + 1] = base * P[j]
    BY <1>1, PowerGrows, PowerRule
  <1>3. PICK r \in Nat : r = n % base /\ r < base /\ n = base * q + r BY Division
  <1>4. q >= 1 BY <1>3
  <1>5. q < n
    <2>1. base * q >= 2 * q OBVIOUS
    <2> QED BY <1>3, <1>4, <2>1
  <1>6. P[k] > q /\ (k = 1 \/ P[k - 1] <= q) BY <1>1 DEF IsLength
  <1>7. P[k + 1] > n
    <2>1. PICK p \in Nat : p = P[k] /\ p >= q + 1 BY <1>2, <1>6
    <2>2. base * p >= base * (q + 1) BY <2>1
    <2>3. base * (q + 1) > n BY <1>3
    <2>4. P[k + 1] = base * p BY <1>2, <2>1
    <2> QED BY <2>1, <2>2, <2>3, <2>4
  <1>8. P[k] <= n
    <2>1. CASE k = 1
      <3>1. P[0] = 1 /\ P[0 + 1] = base * P[0] BY <1>1, PowerRule
      <3> QED BY <2>1, <3>1
    <2>2. CASE k # 1
      <3>1. PICK p \in Nat : p = P[k - 1] /\ p <= q BY <1>2, <1>6, <2>2
      <3>2. base * p <= base * q BY <3>1
      <3>3. k - 1 \in Nat /\ (k - 1) + 1 = k OBVIOUS
      <3>4. P[k] = base * p BY <1>2, <3>1, <3>3
      <3> QED BY <1>3, <3>1, <3>2, <3>4
    <2> QED BY <2>1, <2>2
  <1>9. IsLength(k + 1, n, base) BY <1>1, <1>7, <1>8 DEF IsLength
  <1>10. ASSUME NEW j \in 1..k PROVE Shifted(n, base, (k + 1) - j) = Shifted(q, base, k - j)
    <2>1. k - j \in Nat /\ (k + 1) - j = (k - j) + 1 OBVIOUS
    <2>2. PICK p \in Nat : p = P[k - j] /\ p > 0 BY <1>2, <2>1
    <2>3. P[(k + 1) - j] = base * p BY <1>2, <2>1, <2>2
    <2>4. n \div (base * p) = q \div p BY <2>2, Nested
    <2> QED BY <1>1, <2>2, <2>3, <2>4 DEF Shifted
  <1>11. Shifted(n, base, 0) = n
    <2>1. Power(base)[0] = 1 BY PowerRule
    <2>2. n \div 1 = n OBVIOUS
    <2> QED BY <2>1, <2>2 DEF Shifted
  <1> QED BY <1>1, <1>5, <1>9, <1>10, <1>11 DEF Lengthens

LEMMA NumeralShort ==
    ASSUME NEW base \in Nat, base > 1, NEW n \in Nat, n < base, NEW lower \in BOOLEAN
    PROVE  Numeral(n, base, lower) = <<HexDigits[Offset(lower) + n + 1]>>
  <1>2. Power(base)[0] = 1 /\ Power(base)[0 + 1] = base * Power(base)[0] BY PowerRule
  <1>3. 1 \in 1..(n + 1) /\ IsLength(1, n, base) BY <1>2 DEF IsLength
  <1>4. Numeral(n, base, lower) = Numerals(n, base, lower, 1) BY <1>3, NumeralOf
  <1>5. Shifted(n, base, 1 - 1) % base = n
    <2>1. n \div 1 = n /\ n % base = n OBVIOUS
    <2> QED BY <1>2, <2>1 DEF Shifted
  <1>6. n + 1 + Offset(lower) = Offset(lower) + n + 1 BY DEF Offset
  <1>7. PICK x : x = HexDigits[Offset(lower) + n + 1] OBVIOUS
  <1>8. \A j \in 1..1 : HexDigits[(Shifted(n, base, 1 - j) % base) + 1 + Offset(lower)] = x
    BY <1>5, <1>6, <1>7
  <1>9. Numerals(n, base, lower, 1) = [j \in 1..1 |-> x] BY <1>8 DEF Numerals
  <1>10. Numerals(n, base, lower, 1) = <<x>> BY <1>9
  <1> QED BY <1>4, <1>7, <1>10, Zenon

\* A list with one more entry.
LEMMA AppendAsFunction ==
    ASSUME NEW k \in Nat, NEW s, NEW x, s = [j \in 1..k |-> s[j]]
    PROVE  Append(s, x) = [j \in 1..(k + 1) |-> IF j = k + 1 THEN x ELSE s[j]]
  <1>1. PICK S : S = {s[j] : j \in 1..k} \cup {x} OBVIOUS
  <1>2. s \in Seq(S) /\ Len(s) = k /\ x \in S BY <1>1
  <1>3. PICK a : a = Append(s, x) OBVIOUS
  <1>4. /\ a \in Seq(S) /\ Len(a) = k + 1
        /\ \A j \in 1..k : a[j] = s[j]
        /\ a[k + 1] = x
    BY <1>2, <1>3, AppendProperties
  <1>5. a = [j \in 1..Len(a) |-> a[j]] BY <1>4
  <1>6. a = [j \in 1..(k + 1) |-> a[j]] BY <1>4, <1>5, Zenon
  <1>7. \A j \in 1..(k + 1) : a[j] = IF j = k + 1 THEN x ELSE s[j] BY <1>4
  <1> QED BY <1>3, <1>6, <1>7

LEMMA NumeralLonger ==
    ASSUME NEW base \in Nat, base > 1, NEW n \in Nat, n >= base, NEW lower \in BOOLEAN
    PROVE  Numeral(n, base, lower) =
               Append(Numeral(n \div base, base, lower),
                      HexDigits[Offset(lower) + (n % base) + 1])
  <1>1. PICK q \in Nat : q = n \div base BY Division
  <1>2. PICK k \in 1..(q + 1) : IsLength(k, q, base) BY Lengths
  <1>3. /\ k + 1 \in 1..(n + 1) /\ IsLength(k + 1, n, base)
        /\ \A j \in 1..k : Shifted(n, base, (k + 1) - j) = Shifted(q, base, k - j)
        /\ Shifted(n, base, 0) = n
    <2>1. Lengthens(n, q, base, k) BY <1>1, <1>2, LongerByOne
    <2> QED BY <2>1 DEF Lengthens
  <1>4. PICK s : s = Numerals(q, base, lower, k) OBVIOUS
  <1>5. PICK t : t = Numerals(n, base, lower, k + 1) OBVIOUS
  <1>6. Numeral(q, base, lower) = s BY <1>2, <1>4, NumeralOf
  <1>7. Numeral(n, base, lower) = t BY <1>3, <1>5, NumeralOf
  <1>8. PICK x : x = HexDigits[Offset(lower) + (n % base) + 1] OBVIOUS
  <1>9. \A j \in 1..k : s[j] = t[j] BY <1>3, <1>4, <1>5 DEF Numerals
  <1>10. t[k + 1] = x
    <2>1. n % base \in Nat /\ Offset(lower) \in Nat BY Division DEF Offset
    <2>2. (n % base) + 1 + Offset(lower) = Offset(lower) + (n % base) + 1 BY <2>1
    <2>3. t[k + 1] = HexDigits[(Shifted(n, base, (k + 1) - (k + 1)) % base) + 1 + Offset(lower)]
      BY <1>5 DEF Numerals
    <2>4. (k + 1) - (k + 1) = 0 OBVIOUS
    <2> QED BY <1>3, <1>8, <2>2, <2>3, <2>4
  <1>11. s = [j \in 1..k |-> s[j]] BY <1>4 DEF Numerals
  <1>12. t = [j \in 1..(k + 1) |-> t[j]] BY <1>5 DEF Numerals
  <1>13. \A j \in 1..(k + 1) : t[j] = IF j = k + 1 THEN x ELSE s[j] BY <1>9, <1>10
  <1>14. Append(s, x) = [j \in 1..(k + 1) |-> IF j = k + 1 THEN x ELSE s[j]]
    BY <1>11, AppendAsFunction
  <1>15. t = Append(s, x) BY <1>12, <1>13, <1>14
  <1> QED BY <1>1, <1>6, <1>7, <1>8, <1>15, Zenon

\* write_uword_base10 and the loop of shifts produce the numeral of any number.
LEMMA DigitsAreNumeral ==
    ASSUME NEW n \in Nat, NEW base \in Nat, base > 1, NEW lower \in BOOLEAN
    PROVE  DigitsOf(n, base, Offset(lower)) = Numeral(n, base, lower)
  <1>0. PICK from : from = Offset(lower) OBVIOUS
  <1>1. PICK D : D = CHOOSE E : E = [m \in 0..n |-> Rule(E, m, base, from)] OBVIOUS
  <1>2. D = [m \in 0..n |-> Rule(D, m, base, from)]
    <2>1. \E E : E = [m \in 0..n |-> Rule(E, m, base, from)] BY DigitsExist
    <2> QED BY <1>1, <2>1, Zenon
  <1>3. DigitsOf(n, base, from) = D[n] BY <1>1 DEF DigitsOf, Rule
  <1> DEFINE T == {k \in Nat : \A m \in 0..n : m <= k => D[m] = Numeral(m, base, lower)}
  <1>4. ASSUME NEW m \in 0..n, m < base PROVE D[m] = Numeral(m, base, lower)
    <2>1. D[m] = <<HexDigits[from + m + 1]>> BY <1>2, <1>4 DEF Rule
    <2> QED BY <1>0, <1>4, <2>1, NumeralShort
  <1>5. 0 \in T BY <1>4
  <1>6. ASSUME NEW k \in Nat, k \in T PROVE k + 1 \in T
    <2>1. ASSUME NEW m \in 0..n, m <= k + 1, ~(m < base)
          PROVE  D[m] = Numeral(m, base, lower)
      <3>1. PICK q \in Nat, r \in Nat : q = m \div base /\ r = m % base /\ m = base * q + r
        BY Division
      <3>2. q = 0 \/ q < base * q
        <4>1. base * q >= 2 * q OBVIOUS
        <4> QED BY <4>1
      <3>3. q <= k /\ q \in 0..n BY <2>1, <3>1, <3>2
      <3>4. D[q] = Numeral(q, base, lower) BY <1>6, <3>3
      <3>5. D[m] = Append(D[m \div base], HexDigits[from + (m % base) + 1])
        <4>1. D[m] = Rule(D, m, base, from) BY <1>2
        <4> QED BY <2>1, <4>1, Zenon DEF Rule
      <3>6. m \in Nat /\ m >= base BY <2>1
      <3>7. Numeral(m, base, lower) =
                Append(Numeral(m \div base, base, lower),
                       HexDigits[Offset(lower) + (m % base) + 1])
        BY <3>6, NumeralLonger
      <3> QED BY <1>0, <3>1, <3>4, <3>5, <3>7, Zenon
    <2> QED BY <1>4, <2>1
  <1>7. Nat \subseteq T
    <2> HIDE DEF T
    <2> QED BY <1>5, <1>6, SetInduction
  <1>8. n \in T /\ n \in 0..n /\ n <= n BY <1>7
  <1>9. D[n] = Numeral(n, base, lower) BY <1>8
  <1> QED BY <1>0, <1>3, <1>9, Zenon

----------------------------------------------------------------------------
(* The layout of a conversion in its field.                                *)

\* r is p, of length l, followed by q, of length m.
Joined(r, p, q, l, m) ==
    /\ Len(r) = l + m
    /\ \A k \in 1..l : r[k] = p[k]
    /\ \A k \in (l + 1)..(l + m) : r[k] = q[k - l]

LEMMA CatJoins ==
    ASSUME NEW S, NEW p \in Seq(S), NEW q \in Seq(S), NEW r, r = p \o q,
           NEW l \in Nat, NEW m \in Nat, l = Len(p), m = Len(q)
    PROVE  r \in Seq(S) /\ Joined(r, p, q, l, m)
  <1>1. /\ r \in Seq(S) /\ Len(r) = Len(p) + Len(q)
        /\ \A k \in 1..(Len(p) + Len(q)) : r[k] = IF k <= Len(p) THEN p[k] ELSE q[k - Len(p)]
    BY ConcatProperties
  <1>2. \A k \in 1..(l + m) : r[k] = IF k <= l THEN p[k] ELSE q[k - l] BY <1>1, Zenon
  <1>3. ASSUME NEW k \in 1..l PROVE r[k] = p[k]
    <2>1. k \in 1..(l + m) /\ k <= l OBVIOUS
    <2> QED BY <1>2, <2>1
  <1>4. ASSUME NEW k \in (l + 1)..(l + m) PROVE r[k] = q[k - l]
    <2>1. k \in 1..(l + m) /\ ~(k <= l) OBVIOUS
    <2> QED BY <1>2, <2>1
  <1> QED BY <1>1, <1>3, <1>4 DEF Joined

LEMMA SamePrefix ==
    ASSUME NEW S, NEW p \in Seq(S), NEW s \in Seq(S), Len(p) <= Len(s),
           \A j \in 1..Len(p) : s[j] = p[j]
    PROVE  IsPrefix(p, s)
  <1>1. PICK m \in Nat : m = Len(p) OBVIOUS
  <1>2. PICK a : a = SubSeq(p, 1, m) OBVIOUS
  <1>3. PICK b : b = SubSeq(s, 1, m) OBVIOUS
  <1>4. \A j \in 1..m : p[j] \in S /\ s[j] \in S
    <2>1. m <= Len(s) BY <1>1
    <2> QED BY <1>1, <2>1
  <1>5. a \in Seq(S) /\ Len(a) = m /\ \A j \in 1..m : a[j] = p[j]
    <2>1. \A j \in 1..m : p[j] \in S BY <1>4
    <2>2. /\ a \in Seq(S) /\ Len(a) = IF 1 <= m THEN m - 1 + 1 ELSE 0
          /\ \A j \in 1..(m - 1 + 1) : a[j] = p[1 + j - 1]
      BY <1>2, <2>1, SubSeqProperties
    <2> QED BY <2>2
  <1>6. b \in Seq(S) /\ Len(b) = m /\ \A j \in 1..m : b[j] = s[j]
    <2>1. \A j \in 1..m : s[j] \in S BY <1>4
    <2>2. /\ b \in Seq(S) /\ Len(b) = IF 1 <= m THEN m - 1 + 1 ELSE 0
          /\ \A j \in 1..(m - 1 + 1) : b[j] = s[1 + j - 1]
      BY <1>3, <2>1, SubSeqProperties
    <2> QED BY <2>2
  <1>7. a = b
    <2>1. \A j \in 1..Len(a) : a[j] = b[j] BY <1>1, <1>5, <1>6
    <2> QED BY <1>5, <1>6, <2>1, SeqEqual
  <1> QED BY <1>1, <1>2, <1>3, <1>7 DEF IsPrefix

LEMMA PrefixOfCat ==
    ASSUME NEW S, NEW p \in Seq(S), NEW t \in Seq(S)
    PROVE  IsPrefix(p, p \o t)
  <1>1. PICK s : s = p \o t OBVIOUS
  <1>2. /\ s \in Seq(S) /\ Len(p) <= Len(s)
        /\ \A j \in 1..Len(p) : s[j] = p[j]
    BY <1>1, ConcatProperties
  <1> QED BY <1>1, <1>2, SamePrefix

LEMMA Reversed ==
    ASSUME NEW S, NEW s \in Seq(S)
    PROVE  /\ Reverse(s) \in Seq(S) /\ Len(Reverse(s)) = Len(s)
           /\ \A j \in 1..Len(s) : Reverse(s)[j] = s[(Len(s) - j) + 1]
  <1>1. PICK m \in Nat : m = Len(s) OBVIOUS
  <1>2. PICK r : r = [j \in 1..m |-> s[(m - j) + 1]] OBVIOUS
  <1>3. \A j \in 1..m : r[j] = s[(m - j) + 1] /\ r[j] \in S
    <2>1. \A j \in 1..m : (m - j) + 1 \in 1..Len(s) BY <1>1
    <2>2. \A j \in 1..m : r[j] = s[(m - j) + 1] BY <1>2
    <2>3. \A k \in 1..Len(s) : s[k] \in S BY ElementOfSeq
    <2> QED BY <2>1, <2>2, <2>3
  <1>4. r \in [1..m -> S] BY <1>2, <1>3
  <1>5. r \in Seq(S) /\ Len(r) = m BY <1>4
  <1> QED BY <1>1, <1>2, <1>3, <1>5 DEF Reverse

LEMMA SuffixOfCat ==
    ASSUME NEW S, NEW p \in Seq(S), NEW t \in Seq(S)
    PROVE  IsSuffix(p, t \o p)
  <1>1. PICK s : s = t \o p OBVIOUS
  <1>2. PICK m \in Nat : m = Len(p) OBVIOUS
  <1>3. PICK n \in Nat : n = Len(t) OBVIOUS
  <1>4. /\ s \in Seq(S) /\ Len(s) = n + m
        /\ \A k \in (n + 1)..(n + m) : s[k] = p[k - n]
    BY <1>1, <1>2, <1>3, CatJoins DEF Joined
  <1>5. PICK a : a = Reverse(p) OBVIOUS
  <1>6. PICK b : b = Reverse(s) OBVIOUS
  <1>7. /\ a \in Seq(S) /\ Len(a) = m /\ \A j \in 1..m : a[j] = p[(m - j) + 1]
    BY <1>2, <1>5, Reversed
  <1>0. PICK l \in Nat : l = n + m OBVIOUS
  <1>8. b \in Seq(S) /\ Len(b) = l /\ \A j \in 1..l : b[j] = s[(l - j) + 1]
    <2>1. Len(s) = l BY <1>0, <1>4
    <2>2. /\ b \in Seq(S) /\ Len(b) = Len(s)
          /\ \A j \in 1..Len(s) : b[j] = s[(Len(s) - j) + 1]
      BY <1>4, <1>6, Reversed
    <2> QED BY <2>1, <2>2, Zenon
  <1>9. \A j \in 1..m : b[j] = a[j]
    <2> TAKE j \in 1..m
    <2>1. PICK k \in (n + 1)..(n + m) : k = (l - j) + 1 BY <1>0
    <2>2. k - n = (m - j) + 1 BY <1>0, <2>1
    <2>3. s[k] = p[k - n] BY <1>4
    <2>4. j \in 1..l BY <1>0
    <2> QED BY <1>7, <1>8, <2>1, <2>2, <2>3, <2>4
  <1>10. m <= l BY <1>0
  <1>11. IsPrefix(a, b)
    <2>1. Len(a) <= Len(b) BY <1>7, <1>8, <1>10
    <2>2. \A j \in 1..Len(a) : b[j] = a[j] BY <1>7, <1>9
    <2> QED BY <1>7, <1>8, <2>1, <2>2, SamePrefix
  <1> QED BY <1>1, <1>5, <1>6, <1>11 DEF IsSuffix

LEMMA Repeated ==
    ASSUME NEW p \in Nat, NEW ch \in Characters
    PROVE  /\ Times(p, ch) \in Seq(Characters) /\ Len(Times(p, ch)) = p
           /\ \A k \in 1..p : Times(p, ch)[k] = ch
  <1>1. PICK t : t = [k \in 1..p |-> ch] OBVIOUS
  <1>2. t \in [1..p -> Characters] BY <1>1
  <1>3. t \in Seq(Characters) /\ Len(t) = p BY <1>2
  <1>4. \A k \in 1..p : t[k] = ch BY <1>1
  <1> QED BY <1>1, <1>3, <1>4 DEF Times

\* What IsConverted says of the parts of a conversion.
Layout(s, sign, body, wide, left, zeroed) ==
    LET bare == sign \o body
        pad  == IF Len(bare) < wide THEN wide - Len(bare) ELSE 0
    IN  /\ Len(s) = Len(bare) + pad
        /\ IF left
           THEN IsPrefix(bare, s) /\ \A k \in (Len(bare) + 1)..Len(s) : s[k] = " "
           ELSE /\ IsSuffix(IF zeroed THEN body ELSE bare, s)
                /\ zeroed => IsPrefix(sign, s)
                /\ LET from == IF zeroed THEN Len(sign) ELSE 0
                   IN  \A k \in (from + 1)..(from + pad) : s[k] = IF zeroed THEN "0" ELSE " "

LEMMA Regroup ==
    ASSUME NEW p \in Seq(Characters), NEW q \in Seq(Characters), NEW r \in Seq(Characters)
    PROVE  (p \o q) \o r = p \o (q \o r)
  <1>1. PICK S : S = Characters OBVIOUS
  <1>2. p \in Seq(S) /\ q \in Seq(S) /\ r \in Seq(S) BY <1>1
  <1> QED BY <1>2, ConcatAssociative

\* The order in which sign, padding and body are output is that layout.
LEMMA EmittedLayout ==
    ASSUME NEW sign \in Seq(Characters), NEW body \in Seq(Characters),
           NEW c, c.sign = sign, c.body = body, c.zeros \in BOOLEAN,
           wd \in Nat, "left" \in flags => ~c.zeros
    PROVE  Layout(Emitted(c), sign, body, wd, "left" \in flags, c.zeros)
  <1>1. PICK bare : bare = sign \o body OBVIOUS
  <1>2. PICK l \in Nat : l = Len(sign) OBVIOUS
  <1>3. PICK m \in Nat : m = Len(body) OBVIOUS
  <1>4. bare \in Seq(Characters) /\ Len(bare) = l + m
    BY <1>1, <1>2, <1>3, ConcatProperties
  <1>5. PICK pad \in Nat : pad = IF l + m < wd THEN wd - (l + m) ELSE 0
    <2>1. (IF l + m < wd THEN wd - (l + m) ELSE 0) \in Nat OBVIOUS
    <2> QED BY <2>1
  <1>6. Padding(c) = pad
    <2>1. Padding(c) = IF wd > m + l THEN wd - (m + l) ELSE 0
      BY <1>2, <1>3 DEF Padding
    <2> QED BY <1>5, <2>1
  <1>7. " " \in Characters /\ "0" \in Characters BY DEF Characters, Signs
  <1>8. PICK s : s = Emitted(c) OBVIOUS
  <1>9. CASE "left" \in flags
    <2>1. PICK t : t = Times(pad, " ") OBVIOUS
    <2>2. t \in Seq(Characters) /\ Len(t) = pad /\ \A k \in 1..pad : t[k] = " "
      BY <1>7, <2>1, Repeated
    <2>3. s = bare \o t BY <1>1, <1>6, <1>8, <1>9, <2>1 DEF Emitted
    <2>0. PICK n \in Nat : n = l + m OBVIOUS
    <2>4. Joined(s, bare, t, n, pad) BY <1>4, <2>0, <2>2, <2>3, CatJoins
    <2>5. IsPrefix(bare, s) BY <1>4, <2>2, <2>3, PrefixOfCat
    <2>6. ASSUME NEW k \in (n + 1)..(n + pad) PROVE s[k] = " "
      <3>1. k - n \in 1..pad OBVIOUS
      <3> QED BY <2>2, <2>4, <3>1 DEF Joined
    <2>7. Len(s) = n + pad /\ Len(bare) = n BY <1>4, <2>0, <2>4 DEF Joined
    <2>8. pad = IF Len(bare) < wd THEN wd - Len(bare) ELSE 0 BY <1>5, <2>0, <2>7
    <2> QED BY <1>1, <1>8, <1>9, <2>5, <2>6, <2>7, <2>8, Zenon DEF Layout
  <1>10. CASE "left" \notin flags /\ c.zeros
    <2>1. PICK t : t = Times(pad, "0") OBVIOUS
    <2>2. t \in Seq(Characters) /\ Len(t) = pad /\ \A k \in 1..pad : t[k] = "0"
      BY <1>7, <2>1, Repeated
    <2>3. s = (sign \o t) \o body BY <1>6, <1>8, <1>10, <2>1 DEF Emitted
    <2>4. PICK u : u = sign \o t OBVIOUS
    <2>5. u \in Seq(Characters) /\ Joined(u, sign, t, l, pad)
      BY <1>2, <2>2, <2>4, CatJoins
    <2>0. PICK n \in Nat : n = l + pad OBVIOUS
    <2>11. Len(u) = n BY <2>0, <2>5 DEF Joined
    <2>6. Joined(s, u, body, n, m) BY <1>3, <2>3, <2>4, <2>5, <2>11, CatJoins
    <2>7. IsSuffix(body, s) BY <2>3, <2>4, <2>5, SuffixOfCat
    <2>8. IsPrefix(sign, s)
      <3>1. s \in Seq(Characters) BY <1>3, <2>0, <2>3, <2>4, <2>5, <2>11, CatJoins
      <3>2. Len(s) = n + m /\ Len(sign) = l /\ l <= n + m BY <1>2, <2>0, <2>6 DEF Joined
      <3>3. ASSUME NEW k \in 1..l PROVE s[k] = sign[k]
        <4>1. k \in 1..n BY <2>0
        <4>2. s[k] = u[k] BY <2>6, <4>1 DEF Joined
        <4>3. u[k] = sign[k] BY <2>5 DEF Joined
        <4> QED BY <4>2, <4>3
      <3> QED BY <3>1, <3>2, <3>3, SamePrefix
    <2>9. ASSUME NEW k \in (l + 1)..(l + pad) PROVE s[k] = "0"
      <3>1. k \in 1..n /\ k - l \in 1..pad BY <2>0
      <3>2. s[k] = u[k] BY <2>6, <3>1 DEF Joined
      <3>3. u[k] = t[k - l] BY <2>5 DEF Joined
      <3> QED BY <2>2, <3>1, <3>2, <3>3
    <2>10. Len(s) = Len(bare) + pad BY <1>4, <2>0, <2>6 DEF Joined
    <2>12. pad = IF Len(bare) < wd THEN wd - Len(bare) ELSE 0 BY <1>4, <1>5
    <2> QED BY <1>1, <1>2, <1>8, <1>10, <2>7, <2>8, <2>9, <2>10, <2>12, Zenon DEF Layout
  <1>11. CASE "left" \notin flags /\ ~c.zeros
    <2>1. PICK t : t = Times(pad, " ") OBVIOUS
    <2>2. t \in Seq(Characters) /\ Len(t) = pad /\ \A k \in 1..pad : t[k] = " "
      BY <1>7, <2>1, Repeated
    <2>3. s = (t \o sign) \o body BY <1>6, <1>8, <1>11, <2>1 DEF Emitted
    <2>4. s = t \o bare
      <3>1. t \in Seq(Characters) BY <2>2
      <3>2. (t \o sign) \o body = t \o (sign \o body) BY <3>1, Regroup, Zenon
      <3> QED BY <1>1, <2>3, <3>2, Zenon
    <2>0. PICK n \in Nat : n = l + m OBVIOUS
    <2>5. Joined(s, t, bare, pad, n) BY <1>4, <2>0, <2>2, <2>4, CatJoins
    <2>6. IsSuffix(bare, s) BY <1>4, <2>2, <2>4, SuffixOfCat
    <2>7. ASSUME NEW k \in (0 + 1)..(0 + pad) PROVE s[k] = " "
      <3>1. k \in 1..pad OBVIOUS
      <3> QED BY <2>2, <2>5, <3>1 DEF Joined
    <2>8. Len(s) = Len(bare) + pad BY <1>4, <2>0, <2>5 DEF Joined
    <2>9. pad = IF Len(bare) < wd THEN wd - Len(bare) ELSE 0 BY <1>4, <1>5
    <2> QED BY <1>1, <1>8, <1>11, <2>6, <2>7, <2>8, <2>9, Zenon DEF Layout
  <1> QED BY <1>9, <1>10, <1>11

----------------------------------------------------------------------------
(* A conversion, once its flags, width and modifier are read.              *)

FlagSet(it) == IF it.flag = <<"-">> THEN {"left"}
               ELSE IF it.flag = <<"0">> THEN {"pad0"} ELSE {}
ModSet(it) == IF it.mod = <<"h", "h">> THEN {"8"} ELSE IF it.mod = <<"h">> THEN {"16"}
              ELSE IF it.mod = <<>> THEN {} ELSE {"64"}
Wide(it) == IF it.width = <<>> THEN 0 ELSE IF it.width = <<"6">> THEN 6 ELSE 10

LEMMA Distinct ==
    /\ <<>> # <<"-">> /\ <<>> # <<"0">> /\ <<"-">> # <<"0">>
    /\ <<>> # <<"6">> /\ <<>> # <<"1", "0">> /\ <<"6">> # <<"1", "0">>
  <1>1. /\ Len(<<>>) = 0 /\ Len(<<"-">>) = 1 /\ Len(<<"0">>) = 1
        /\ Len(<<"6">>) = 1 /\ Len(<<"1", "0">>) = 2
    OBVIOUS
  <1>2. <<"-">>[1] = "-" /\ <<"0">>[1] = "0" /\ "-" # "0" OBVIOUS
  <1> QED BY <1>1, <1>2

LEMMA ItemParts ==
    ASSUME NEW it \in Items
    PROVE  /\ it.flag = <<>> \/ it.flag = <<"-">> \/ it.flag = <<"0">>
           /\ it.width = <<>> \/ it.width = <<"6">> \/ it.width = <<"1", "0">>
           /\ \/ it.mod = <<>> \/ it.mod = <<"h", "h">> \/ it.mod = <<"h">>
              \/ it.mod = <<"l">> \/ it.mod = <<"l", "l">> \/ it.mod = <<"z">>
           /\ it.conv \in Conversions
  BY DEF Items

\* What the flags that the machine collects say.
LEMMA FlagsRead ==
    ASSUME NEW it \in Items, flags = FlagSet(it) \cup ModSet(it)
    PROVE  /\ Width = Type(it) /\ Type(it) \in {"hh", "h", "int", "long"}
           /\ "left" \in flags <=> it.flag = <<"-">>
           /\ "pad0" \in flags <=> it.flag = <<"0">>
  <1>1. /\ it.flag = <<"-">> => FlagSet(it) = {"left"}
        /\ it.flag = <<"0">> => FlagSet(it) = {"pad0"}
        /\ it.flag = <<>> => FlagSet(it) = {}
    BY Distinct DEF FlagSet
  <1>2. FlagSet(it) \subseteq {"left", "pad0"} BY DEF FlagSet
  <1>3. ModSet(it) \subseteq {"8", "16", "64"} BY DEF ModSet
  <1>4. /\ "left" \in flags <=> it.flag = <<"-">>
        /\ "pad0" \in flags <=> it.flag = <<"0">>
    <2>1. it.flag = <<>> \/ it.flag = <<"-">> \/ it.flag = <<"0">> BY ItemParts
    <2>2. "left" \notin ModSet(it) /\ "pad0" \notin ModSet(it) BY <1>3
    <2> QED BY <1>1, <2>1, <2>2
  <1>5. "64" \in flags <=> "64" \in ModSet(it) BY <1>2
  <1>6. "16" \in flags <=> "16" \in ModSet(it) BY <1>2
  <1>7. "8" \in flags <=> "8" \in ModSet(it) BY <1>2
  <1>8. CASE it.mod = <<>>
    <2>1. ModSet(it) = {} /\ Type(it) = "int" BY <1>8 DEF ModSet, Type
    <2> QED BY <1>4, <1>5, <1>6, <1>7, <2>1 DEF Width
  <1>9. CASE it.mod = <<"h", "h">>
    <2>1. ModSet(it) = {"8"} /\ Type(it) = "hh" BY <1>9 DEF ModSet, Type
    <2> QED BY <1>4, <1>5, <1>6, <1>7, <2>1 DEF Width
  <1>10. CASE it.mod = <<"h">>
    <2>1. ModSet(it) = {"16"} /\ Type(it) = "h" BY <1>10 DEF ModSet, Type
    <2> QED BY <1>4, <1>5, <1>6, <1>7, <2>1 DEF Width
  <1>11. CASE it.mod = <<"l">> \/ it.mod = <<"l", "l">> \/ it.mod = <<"z">>
    <2>1. ModSet(it) = {"64"} /\ Type(it) = "long" BY <1>11 DEF ModSet, Type
    <2> QED BY <1>4, <1>5, <1>6, <1>7, <2>1 DEF Width
  <1> QED BY <1>8, <1>9, <1>10, <1>11, ItemParts

LEMMA Numbers ==
    ASSUME NEW v \in Nat, NEW type \in {"hh", "h", "int", "long"}
    PROVE  /\ Low(v, type) \in Nat /\ Absolute(Low(v, type)) = Low(v, type)
           /\ Signed(v, type) \in Int /\ Absolute(Signed(v, type)) \in Nat
  <1>1. type \in DOMAIN Bits BY PrintfAssumption
  <1>2. PICK p \in Nat \ {0} : p = 2^Bits[type] BY <1>1, PrintfAssumption
  <1>3. PICK n \in Nat : n = Low(v, type)
    <2>1. v % p \in Nat BY <1>2
    <2> QED BY <1>2, <2>1 DEF Low
  <1>4. Absolute(n) = n BY DEF Absolute
  <1>5. Signed(v, type) \in Int
    <2>1. Signed(v, type) = n \/ Signed(v, type) = n - p BY <1>2, <1>3, Zenon DEF Signed
    <2> QED BY <1>2, <1>3, <2>1
  <1>6. Absolute(Signed(v, type)) \in Nat BY <1>5 DEF Absolute
  <1> QED BY <1>3, <1>4, <1>5, <1>6

LEMMA DigitsRead ==
    ASSUME NEW n \in Nat
    PROVE  /\ DigitsOf(n, 16, 16) = Numeral(n, 16, TRUE)
           /\ DigitsOf(n, 16, 0) = Numeral(n, 16, FALSE)
           /\ DigitsOf(n, 10, 0) = Numeral(n, 10, FALSE)
           /\ DigitsOf(n, 8, 0) = Numeral(n, 8, FALSE)
  <1>1. Offset(TRUE) = 16 /\ Offset(FALSE) = 0 BY DEF Offset
  <1>2. /\ 16 \in Nat /\ 16 > 1 /\ 10 \in Nat /\ 10 > 1 /\ 8 \in Nat /\ 8 > 1
        /\ TRUE \in BOOLEAN /\ FALSE \in BOOLEAN
    OBVIOUS
  <1>3. DigitsOf(n, 16, Offset(TRUE)) = Numeral(n, 16, TRUE) BY <1>2, DigitsAreNumeral, Zenon
  <1>4. DigitsOf(n, 16, Offset(FALSE)) = Numeral(n, 16, FALSE) BY <1>2, DigitsAreNumeral, Zenon
  <1>5. DigitsOf(n, 10, Offset(FALSE)) = Numeral(n, 10, FALSE) BY <1>2, DigitsAreNumeral, Zenon
  <1>6. DigitsOf(n, 8, Offset(FALSE)) = Numeral(n, 8, FALSE) BY <1>2, DigitsAreNumeral, Zenon
  <1> QED BY <1>1, <1>3, <1>4, <1>5, <1>6, Zenon

\* Zeroes may pad it.
Zeroed(it, arg) == it.flag = <<"0">> /\ it.conv \in Numeric /\ ~(it.conv = "p" /\ arg = 0)

\* What is at "where", and before it, is what C says.
LEMMA ConvertedParts ==
    ASSUME NEW it \in Items, flags = FlagSet(it) \cup ModSet(it), Arg \in Nat
    PROVE  /\ Converted(it.conv).sign = SignOf(it, Arg)
           /\ Converted(it.conv).body = Body(it, Arg)
  <1>1. PICK w \in {"hh", "h", "int", "long"} :
            w = Width /\ w = Type(it)
    BY FlagsRead
  <1>2. PICK a \in Nat : a = Arg OBVIOUS
  <1>3. /\ Low(a, w) \in Nat /\ Absolute(Low(a, w)) = Low(a, w)
        /\ Signed(a, w) \in Int /\ Absolute(Signed(a, w)) \in Nat
    BY Numbers
  <1>4. PICK z : z = ("pad0" \in flags) OBVIOUS
  <1>5. CASE it.conv = "p"
    <2>1. CASE a = 0
      <3>1. PICK s : s = <<"(", "n", "i", "l", ")">> OBVIOUS
      <3>2. Converted(it.conv) = [body |-> s, sign |-> <<>>, zeros |-> FALSE]
        BY <1>2, <1>5, <2>1, <3>1 DEF Converted
      <3>3. SignOf(it, a) = <<>> BY <1>5, <2>1 DEF SignOf
      <3>4. Body(it, a) = s BY <1>5, <2>1, <3>1 DEF Body
      <3> QED BY <1>2, <3>2, <3>3, <3>4
    <2>2. CASE a # 0
      <3>1. PICK s : s = <<"0", "x">> OBVIOUS
      <3>2. Converted(it.conv) = [body |-> DigitsOf(a, 16, 16), sign |-> s, zeros |-> z]
        BY <1>2, <1>4, <1>5, <2>2, <3>1 DEF Converted
      <3>3. SignOf(it, a) = s BY <1>5, <2>2, <3>1 DEF SignOf
      <3>4. Body(it, a) = Numeral(a, 16, TRUE) BY <1>5, <2>2 DEF Body
      <3>6. DigitsOf(a, 16, 16) = Numeral(a, 16, TRUE) BY DigitsRead
      <3>5. Converted(it.conv).body = DigitsOf(a, 16, 16) /\ Converted(it.conv).sign = s
        BY <3>2
      <3> QED BY <1>2, <3>3, <3>4, <3>5, <3>6, Zenon
    <2> QED BY <2>1, <2>2
  <1>6. CASE it.conv \in {"x", "X", "o", "u"}
    <2>1. PICK n \in Nat : n = Low(a, w) BY <1>3
    <2>2. Absolute(Fetch(it.conv)) = n BY <1>1, <1>2, <1>3, <1>6, <2>1 DEF Fetch
    <2>3. SignOf(it, a) = <<>> BY <1>6 DEF SignOf
    <2>5. /\ DigitsOf(n, 16, 16) = Numeral(n, 16, TRUE)
          /\ DigitsOf(n, 16, 0) = Numeral(n, 16, FALSE)
          /\ DigitsOf(n, 10, 0) = Numeral(n, 10, FALSE)
          /\ DigitsOf(n, 8, 0) = Numeral(n, 8, FALSE)
      BY DigitsRead
    <2>6. Converted(it.conv).body = Body(it, a)
      <3>1. CASE it.conv = "x"
        <4>1. Converted(it.conv).body = DigitsOf(n, 16, 16) BY <2>2, <3>1 DEF Converted
        <4>2. Body(it, a) = Numeral(n, 16, TRUE) BY <1>1, <2>1, <3>1 DEF Body
        <4> QED BY <2>5, <4>1, <4>2, Zenon
      <3>2. CASE it.conv = "X"
        <4>1. Converted(it.conv).body = DigitsOf(n, 16, 0) BY <2>2, <3>2 DEF Converted
        <4>2. Body(it, a) = Numeral(n, 16, FALSE) BY <1>1, <2>1, <3>2 DEF Body
        <4> QED BY <2>5, <4>1, <4>2, Zenon
      <3>3. CASE it.conv = "o"
        <4>1. Converted(it.conv).body = DigitsOf(n, 8, 0) BY <2>2, <3>3 DEF Converted
        <4>2. Body(it, a) = Numeral(n, 8, FALSE) BY <1>1, <2>1, <3>3 DEF Body
        <4> QED BY <2>5, <4>1, <4>2, Zenon
      <3>4. CASE it.conv = "u"
        <4>1. Converted(it.conv).body = DigitsOf(n, 10, 0) BY <2>2, <3>4 DEF Converted
        <4>2. Body(it, a) = Numeral(n, 10, FALSE) BY <1>1, <2>1, <3>4 DEF Body
        <4> QED BY <2>5, <4>1, <4>2, Zenon
      <3> QED BY <1>6, <3>1, <3>2, <3>3, <3>4
    <2>7. Converted(it.conv).sign = <<>> BY <1>6 DEF Converted
    <2> QED BY <1>2, <2>3, <2>6, <2>7
  <1>7. CASE it.conv \in {"d", "i"}
    <2>1. PICK v \in Int : v = Signed(a, w) BY <1>3
    <2>2. Fetch(it.conv) = v BY <1>1, <1>2, <1>7, <2>1 DEF Fetch
    <2>3. PICK n \in Nat : n = Absolute(v) BY <1>3, <2>1
    <2>4. PICK s : s = IF v < 0 THEN <<"-">> ELSE <<>> OBVIOUS
    <2>5. Converted(it.conv) = [body |-> DigitsOf(n, 10, 0), zeros |-> z, sign |-> s]
      BY <1>4, <1>7, <2>2, <2>3, <2>4 DEF Converted
    <2>6. SignOf(it, a) = s BY <1>1, <1>7, <2>1, <2>4 DEF SignOf
    <2>7. Body(it, a) = Numeral(n, 10, FALSE) BY <1>1, <1>7, <2>1, <2>3 DEF Body
    <2>9. DigitsOf(n, 10, 0) = Numeral(n, 10, FALSE) BY DigitsRead
    <2>8. Converted(it.conv).body = DigitsOf(n, 10, 0) /\ Converted(it.conv).sign = s
      BY <2>5
    <2> QED BY <1>2, <2>6, <2>7, <2>8, <2>9, Zenon
  <1>8. CASE it.conv = "c"
    <2>1. PICK s : s = IF Low(a, "hh") = 0 THEN <<>> ELSE <<Char>> OBVIOUS
    <2>2. Converted(it.conv) = [body |-> s, sign |-> <<>>, zeros |-> FALSE]
      BY <1>2, <1>8, <2>1 DEF Converted
    <2>3. SignOf(it, a) = <<>> BY <1>8 DEF SignOf
    <2>4. Body(it, a) = s BY <1>8, <2>1 DEF Body
    <2> QED BY <1>2, <2>2, <2>3, <2>4
  <1>9. CASE it.conv = "s"
    <2>1. PICK s : s = IF a = 0 THEN <<"(", "n", "u", "l", "l", ")">> ELSE str OBVIOUS
    <2>2. Converted(it.conv) = [body |-> s, sign |-> <<>>, zeros |-> FALSE]
      BY <1>2, <1>9, <2>1 DEF Converted
    <2>3. SignOf(it, a) = <<>> BY <1>9 DEF SignOf
    <2>4. Body(it, a) = s BY <1>9, <2>1 DEF Body
    <2> QED BY <1>2, <2>2, <2>3, <2>4
  <1> QED BY <1>5, <1>6, <1>7, <1>8, <1>9, ItemParts DEF Conversions

LEMMA ConvertedZeros ==
    ASSUME NEW it \in Items, flags = FlagSet(it) \cup ModSet(it)
    PROVE  Converted(it.conv).zeros = Zeroed(it, Arg)
  <1>1. ("pad0" \in flags) <=> it.flag = <<"0">> BY FlagsRead
  <1>2. CASE it.conv \in {"c", "s"} \/ (it.conv = "p" /\ Arg = 0)
    <2>1. Converted(it.conv).zeros = FALSE BY <1>2 DEF Converted
    <2>2. Zeroed(it, Arg) = FALSE BY <1>2 DEF Zeroed, Numeric
    <2> QED BY <2>1, <2>2, Zenon
  <1>3. CASE it.conv \in {"x", "X", "o", "u", "d", "i"} \/ (it.conv = "p" /\ ~(Arg = 0))
    <2>1. Converted(it.conv).zeros = ("pad0" \in flags) BY <1>3 DEF Converted
    <2>3. CASE it.flag = <<"0">>
      <3>1. ("pad0" \in flags) = TRUE BY <1>1, <2>3
      <3>2. Zeroed(it, Arg) = TRUE BY <1>3, <2>3 DEF Zeroed, Numeric
      <3> QED BY <2>1, <3>1, <3>2, Zenon
    <2>4. CASE ~(it.flag = <<"0">>)
      <3>1. ("pad0" \in flags) = FALSE BY <1>1, <2>4
      <3>2. Zeroed(it, Arg) = FALSE BY <2>4 DEF Zeroed
      <3> QED BY <2>1, <3>1, <3>2, Zenon
    <2> QED BY <2>3, <2>4
  <1> QED BY <1>2, <1>3, ItemParts DEF Conversions

\* What is output for it.
LEMMA EmittedConverted ==
    ASSUME NEW it \in Items, flags = FlagSet(it) \cup ModSet(it), wd = Wide(it),
           Arg \in Nat, str \in Seq(STRING)
    PROVE  /\ Emitted(Converted(it.conv)) \in Seq(Characters)
           /\ IsConverted(Emitted(Converted(it.conv)), it, Arg)
  <1>1. PICK c : c = Converted(it.conv) OBVIOUS
  <1>2. PICK sign \in Seq(Characters), body \in Seq(Characters) :
            c.sign = sign /\ c.body = body
    BY <1>1, ConvertedTyped, ItemParts
  <1>3. sign = SignOf(it, Arg) /\ body = Body(it, Arg) /\ c.zeros = Zeroed(it, Arg)
    BY <1>1, <1>2, ConvertedParts, ConvertedZeros
  <1>4. wd \in Nat BY DEF Wide
  <1>5. "left" \in flags <=> it.flag = <<"-">> BY FlagsRead
  <1>6. c.zeros \in BOOLEAN BY <1>3 DEF Zeroed
  <1>7. "left" \in flags => ~c.zeros
    <2>1. <<"-">> # <<"0">> OBVIOUS
    <2> QED BY <1>3, <1>5, <2>1 DEF Zeroed
  <1>8. PICK s : s = Emitted(c) OBVIOUS
  <1>9. Layout(s, sign, body, wd, "left" \in flags, c.zeros)
    BY <1>2, <1>4, <1>6, <1>7, <1>8, EmittedLayout
  <1>10. s \in Seq(Characters) BY <1>2, <1>4, <1>8, EmittedTyped
  <1>11. wd = CASE it.width = <<>> -> 0 [] it.width = <<"6">> -> 6 [] OTHER -> 10
    BY ItemParts, Distinct DEF Wide
  <1>12. IsConverted(s, it, Arg)
    BY <1>3, <1>5, <1>9, <1>11, Zenon DEF Layout, IsConverted, Zeroed
  <1> QED BY <1>1, <1>8, <1>10, <1>12

----------------------------------------------------------------------------
(* Where the reading of a listed conversion stands.                        *)

\* it is in the format from its % at b to its conversion at p3: its width is
\* at p1, its modifier at p2.
Placed(it, b, p1, p2, p3) ==
    /\ b \in Nat \ {0} /\ p1 \in Nat /\ p2 \in Nat /\ p3 \in Nat /\ p3 <= Len(fmt)
    /\ fmt[b] = "%" /\ fmt[p3] = it.conv
    /\ \/ it.flag = <<>> /\ p1 = b + 1
       \/ it.flag = <<"-">> /\ p1 = b + 2 /\ fmt[b + 1] = "-"
       \/ it.flag = <<"0">> /\ p1 = b + 2 /\ fmt[b + 1] = "0"
    /\ \/ it.width = <<>> /\ p2 = p1
       \/ it.width = <<"6">> /\ p2 = p1 + 1 /\ fmt[p1] = "6"
       \/ it.width = <<"1", "0">> /\ p2 = p1 + 2 /\ fmt[p1] = "1" /\ fmt[p1 + 1] = "0"
    /\ \/ it.mod = <<>> /\ p3 = p2
       \/ it.mod = <<"h", "h">> /\ p3 = p2 + 2 /\ fmt[p2] = "h" /\ fmt[p2 + 1] = "h"
       \/ it.mod = <<"h">> /\ p3 = p2 + 1 /\ fmt[p2] = "h"
       \/ it.mod = <<"l">> /\ p3 = p2 + 1 /\ fmt[p2] = "l"
       \/ it.mod = <<"l", "l">> /\ p3 = p2 + 2 /\ fmt[p2] = "l" /\ fmt[p2 + 1] = "l"
       \/ it.mod = <<"z">> /\ p3 = p2 + 1 /\ fmt[p2] = "z"

\* The width, as far as its first k digits give it.
WideTo(it, k) == IF k = 0 THEN 0 ELSE IF it.width = <<"6">> THEN 6
                 ELSE IF k = 1 THEN 1 ELSE 10

Stage(it, b, p1, p2, p3) ==
    /\ end = "running"
    /\ \/ state = 0 /\ i = b
       \/ state = 1 /\ i = b + 1 /\ flags = {}
       \/ state = 1 /\ i = b + 2 /\ it.flag = <<"-">> /\ flags = FlagSet(it)
       \/ state = 2 /\ flags = FlagSet(it) /\ i \in p1..p2 /\ wd = WideTo(it, i - p1)
       \/ state = 3 /\ flags = FlagSet(it) /\ i = p2 /\ wd = Wide(it)
       \/ state = 3 /\ flags = FlagSet(it) \cup ModSet(it) /\ i = p3 /\ wd = Wide(it)
       \/ state = 4 /\ flags = FlagSet(it) \cup ModSet(it) /\ i = p3 /\ wd = Wide(it)

\* It is read, and its output is made.
Made(it, p3) ==
    /\ flags = FlagSet(it) \cup ModSet(it) /\ wd = Wide(it)
    /\ used' = used + 1 /\ out' = out \o Emitted(Converted(it.conv))
    /\ end' = "running" /\ state' = 0 /\ head' = TRUE /\ i' = p3 + 1

\* What the characters at these places are not.
LEMMA PlacedChars ==
    ASSUME NEW it \in Items, NEW b, NEW p1, NEW p2, NEW p3, Placed(it, b, p1, p2, p3)
    PROVE  /\ b < p1 /\ p1 <= p2 /\ p2 <= p3 /\ b >= 1
           /\ fmt[p1] \notin {"%", "-", "0"}
           /\ \A d \in 1..10 : fmt[p2] # Num10[d]
           /\ fmt[p3] \in Conversions
           /\ fmt[p3] \notin {"z", "t", "l", "L", "h", "%"}
  <1>1. b < p1 /\ p1 <= p2 /\ p2 <= p3 /\ b >= 1 BY DEF Placed
  <1>2. fmt[p3] \in Conversions BY ItemParts DEF Placed
  <1>3. fmt[p3] \notin {"z", "t", "l", "L", "h", "%", "-", "0"} BY <1>2 DEF Conversions
  <1>4. fmt[p2] \in {"h", "l", "z"} \cup Conversions BY <1>2 DEF Placed
  <1>5. fmt[p1] \in {"6", "1", "h", "l", "z"} \cup Conversions
    BY <1>4 DEF Placed
  <1>6. fmt[p1] \notin {"%", "-", "0"} BY <1>5 DEF Conversions
  <1>7. \A d \in 1..10 : fmt[p2] # Num10[d] BY <1>4 DEF Conversions, Num10
  <1> QED BY <1>1, <1>2, <1>3, <1>6, <1>7

\* In a format that is being read, the end of it is not near.
LEMMA Inside ==
    ASSUME end = "running", i \in Nat, i >= 1, i <= Len(fmt), fmt \in Seq(STRING \ {Nul})
    PROVE  /\ ~Return /\ ~Overrun /\ Ch = fmt[i] /\ Ch # Nul
           /\ \A s : In(s) <=> state = s
  <1>1. Len(fmt) \in Nat OBVIOUS
  <1>2. Ch = fmt[i] BY DEF Ch
  <1>3. Ch # Nul BY <1>1, <1>2
  <1> QED BY <1>1, <1>2, <1>3 DEF Return, Overrun, In

\* A step that reads on.
OnStage(it, b, p1, p2, p3) ==
    Stage(it, b, p1, p2, p3)' /\ out' = out /\ used' = used

LEMMA TextStage ==
    ASSUME NEW it \in Items, NEW b, NEW p1, NEW p2, NEW p3, Placed(it, b, p1, p2, p3),
           Stage(it, b, p1, p2, p3), i = b, Ch = "%", Text
    PROVE  OnStage(it, b, p1, p2, p3)
  <1>1. /\ i' = b + 1 /\ state' = 1 /\ flags' = {} /\ out' = out /\ used' = used
        /\ end' = end
    BY DEF Text, Goto
  <1>2. end = "running" BY DEF Stage
  <1> QED BY <1>1, <1>2 DEF OnStage, Stage

LEMMA FlagStage ==
    ASSUME NEW it \in Items, NEW b, NEW p1, NEW p2, NEW p3, Placed(it, b, p1, p2, p3),
           Stage(it, b, p1, p2, p3), state = 1, Ch = fmt[i], Flag
    PROVE  OnStage(it, b, p1, p2, p3)
  <1>1. b < p1 /\ p1 <= p2 /\ b \in Nat /\ p1 \in Nat /\ p2 \in Nat
        /\ fmt[p1] \notin {"%", "-", "0"}
    BY PlacedChars DEF Placed
  <1>2. end = "running" BY DEF Stage
  <1>3. \/ i = b + 1 /\ flags = {}
        \/ i = b + 2 /\ it.flag = <<"-">> /\ flags = FlagSet(it)
    BY DEF Stage
  <1>4. WideTo(it, 0) = 0 BY DEF WideTo
  <1>5. ASSUME i = p1, flags = FlagSet(it) PROVE OnStage(it, b, p1, p2, p3)
    <2>1. Ch \notin {"%", "-", "0"} BY <1>1, <1>5
    <2>2. /\ i' = p1 + 0 /\ state' = 2 /\ flags' = flags /\ wd' = 0 /\ out' = out
          /\ used' = used /\ end' = end
      BY <1>5, <2>1 DEF Flag, Goto
    <2>3. i' = p1 /\ i' - p1 = 0 /\ i' \in p1..p2 BY <1>1, <2>2
    <2> QED BY <1>2, <1>4, <1>5, <2>2, <2>3 DEF OnStage, Stage
  <1>6. CASE it.flag = <<>>
    <2>1. p1 = b + 1 BY <1>6, Distinct DEF Placed
    <2>2. FlagSet(it) = {} BY <1>6, Distinct DEF FlagSet
    <2>3. i = b + 1 BY <1>3, <1>6, Distinct
    <2> QED BY <1>3, <1>5, <2>1, <2>2, <2>3, <1>6, Distinct
  <1>7. CASE it.flag = <<"-">>
    <2>1. p1 = b + 2 /\ fmt[b + 1] = "-" BY <1>7, Distinct DEF Placed
    <2>2. FlagSet(it) = {"left"} BY <1>7 DEF FlagSet
    <2>3. CASE i = b + 1
      <3>1. Ch = "-" BY <2>1, <2>3
      <3>2. flags = {} BY <1>1, <1>3, <2>3
      <3>3. /\ i' = i + 1 /\ state' = 1 /\ flags' = flags \cup {"left"} /\ out' = out
            /\ used' = used /\ end' = end
        BY <3>1 DEF Flag, Goto
      <3>4. i' = b + 2 /\ flags' = FlagSet(it) BY <1>1, <2>2, <2>3, <3>2, <3>3
      <3> QED BY <1>2, <1>7, <3>3, <3>4 DEF OnStage, Stage
    <2>4. CASE i = b + 2
      <3>1. flags = FlagSet(it) BY <1>1, <1>3, <2>4
      <3> QED BY <1>5, <2>1, <2>4, <3>1
    <2> QED BY <1>3, <2>3, <2>4
  <1>8. CASE it.flag = <<"0">>
    <2>1. p1 = b + 2 /\ fmt[b + 1] = "0" BY <1>8, Distinct DEF Placed
    <2>2. FlagSet(it) = {"pad0"} BY <1>8, Distinct DEF FlagSet
    <2>3. i = b + 1 /\ flags = {} BY <1>3, <1>8, Distinct
    <2>4. Ch = "0" BY <2>1, <2>3
    <2>5. /\ i' = i + 1 /\ state' = 2 /\ flags' = flags \cup {"pad0"} /\ wd' = 0
          /\ out' = out /\ used' = used /\ end' = end
      BY <2>4 DEF Flag, Goto
    <2>6. i' = p1 /\ i' - p1 = 0 /\ i' \in p1..p2 /\ flags' = FlagSet(it)
      BY <1>1, <2>1, <2>2, <2>3, <2>5
    <2> QED BY <1>2, <1>4, <2>5, <2>6 DEF OnStage, Stage
  <1> QED BY <1>6, <1>7, <1>8, ItemParts

LEMMA WidthStage ==
    ASSUME NEW it \in Items, NEW b, NEW p1, NEW p2, NEW p3, Placed(it, b, p1, p2, p3),
           Stage(it, b, p1, p2, p3), state = 2, Ch = fmt[i], FieldWidth
    PROVE  OnStage(it, b, p1, p2, p3)
  <1>0. \A d \in 1..10 : fmt[p2] # Num10[d] BY PlacedChars
  <1>1. p1 \in Nat /\ p2 \in Nat BY DEF Placed
  <1>2. end = "running" /\ flags = FlagSet(it) /\ i \in p1..p2 /\ wd = WideTo(it, i - p1)
    BY DEF Stage
  <1>3. ASSUME NEW n \in {0, 1, 6}, NEW p \in Nat, i = p,
               p + 1 <= p2, p1 <= p + 1, Ch = Num10[n + 1], 10 * wd + n = WideTo(it, p + 1 - p1)
        PROVE  OnStage(it, b, p1, p2, p3)
    <2>1. \E d \in 1..10 : Ch = Num10[d] BY <1>3
    <2>2. (CHOOSE d \in 1..10 : Ch = Num10[d]) = n + 1
      <3>1. \A d \in 1..10 : Ch = Num10[d] => d = n + 1 BY <1>3 DEF Num10
      <3> QED BY <2>1, <3>1
    <2>3. /\ i' = i + 1 /\ state' = 2 /\ wd' = 10 * wd + (n + 1) - 1 /\ flags' = flags
          /\ out' = out /\ used' = used /\ end' = end
      BY <2>1, <2>2 DEF FieldWidth, Goto
    <2>4. i' = p + 1 /\ i' \in p1..p2 BY <1>1, <1>3, <2>3
    <2>5. 10 * wd + (n + 1) - 1 = 10 * wd + n
      <3>1. wd \in Int BY <1>2 DEF WideTo
      <3> QED BY <1>3, <3>1
    <2>6. i' - p1 = p + 1 - p1 BY <1>1, <2>4
    <2>7. wd' = WideTo(it, i' - p1) BY <1>3, <2>3, <2>5, <2>6
    <2> QED BY <1>2, <2>3, <2>4, <2>7 DEF OnStage, Stage
  <1>4. CASE i = p2
    <2>1. ~ \E d \in 1..10 : Ch = Num10[d] BY <1>0, <1>4
    <2>2. /\ i' = i + 0 /\ state' = 3 /\ wd' = wd /\ flags' = flags
          /\ out' = out /\ used' = used /\ end' = end
      BY <2>1 DEF FieldWidth, Goto
    <2>3. i' = p2 BY <1>1, <1>4, <2>2
    <2>4. wd = Wide(it)
      <3>1. CASE it.width = <<>>
        <4>1. p2 = p1 BY <3>1, Distinct DEF Placed
        <4>2. WideTo(it, i - p1) = 0 BY <1>1, <1>4, <4>1 DEF WideTo
        <4> QED BY <1>2, <3>1, <4>2 DEF Wide
      <3>2. CASE it.width = <<"6">>
        <4>1. p2 = p1 + 1 BY <3>2, Distinct DEF Placed
        <4>2. WideTo(it, i - p1) = 6 BY <1>1, <1>4, <3>2, <4>1 DEF WideTo
        <4> QED BY <1>2, <3>2, <4>2, Distinct DEF Wide
      <3>3. CASE it.width = <<"1", "0">>
        <4>1. p2 = p1 + 2 BY <3>3, Distinct DEF Placed
        <4>2. i - p1 = 2 BY <1>1, <1>4, <4>1
        <4>3. WideTo(it, 2) = 10 BY <3>3, Distinct DEF WideTo
        <4>4. Wide(it) = 10 BY <3>3, Distinct DEF Wide
        <4> QED BY <1>2, <4>2, <4>3, <4>4
      <3> QED BY <3>1, <3>2, <3>3, ItemParts
    <2> QED BY <1>2, <2>2, <2>3, <2>4 DEF OnStage, Stage
  <1>5. CASE i # p2
    <2>1. PICK p \in Nat : p = i /\ p1 <= p /\ p < p2 BY <1>1, <1>2, <1>5
    <2>2. it.width # <<>>
      <3>1. ASSUME it.width = <<>> PROVE p2 = p1 BY <3>1, Distinct DEF Placed
      <3> QED BY <1>1, <2>1, <3>1
    <2>3. CASE it.width = <<"6">>
      <3>1. p2 = p1 + 1 /\ fmt[p1] = "6" BY <2>3, Distinct DEF Placed
      <3>2. p = p1 /\ p - p1 = 0 /\ p + 1 - p1 = 1 BY <1>1, <2>1, <3>1
      <3>3. Ch = Num10[6 + 1] BY <2>1, <3>1, <3>2 DEF Num10
      <3>4. wd = 0 BY <1>2, <2>1, <3>2 DEF WideTo
      <3>5. WideTo(it, p + 1 - p1) = 6 BY <2>3, <3>2 DEF WideTo
      <3>6. 10 * wd + 6 = 6 BY <3>4
      <3> QED BY <1>1, <1>3, <2>1, <3>3, <3>5, <3>6
    <2>4. CASE it.width = <<"1", "0">>
      <3>1. p2 = p1 + 2 /\ fmt[p1] = "1" /\ fmt[p1 + 1] = "0" BY <2>4, Distinct DEF Placed
      <3>2. CASE p = p1
        <4>1. p - p1 = 0 /\ p + 1 - p1 = 1 BY <1>1, <2>1, <3>2
        <4>2. Ch = Num10[1 + 1] BY <2>1, <3>1, <3>2 DEF Num10
        <4>3. wd = 0 BY <1>2, <2>1, <4>1 DEF WideTo
        <4>4. WideTo(it, 1) = 1 BY <2>4, Distinct DEF WideTo
        <4>5. 10 * wd + 1 = WideTo(it, p + 1 - p1) BY <4>1, <4>3, <4>4
        <4> QED BY <1>1, <1>3, <2>1, <4>2, <4>5
      <3>3. CASE p = p1 + 1
        <4>1. p - p1 = 1 /\ p + 1 - p1 = 2 BY <1>1, <2>1, <3>3
        <4>2. Ch = Num10[0 + 1] BY <2>1, <3>1, <3>3 DEF Num10
        <4>3. wd = WideTo(it, 1) BY <1>2, <2>1, <4>1
        <4>4. WideTo(it, 1) = 1 /\ WideTo(it, 2) = 10 BY <2>4, Distinct DEF WideTo
        <4>5. 10 * wd + 0 = WideTo(it, p + 1 - p1) BY <4>1, <4>3, <4>4
        <4> QED BY <1>1, <1>3, <2>1, <4>2, <4>5
      <3> QED BY <1>1, <2>1, <3>1, <3>2, <3>3
    <2> QED BY <2>2, <2>3, <2>4, ItemParts
  <1> QED BY <1>4, <1>5

LEMMA ModStage ==
    ASSUME NEW it \in Items, NEW b, NEW p1, NEW p2, NEW p3, Placed(it, b, p1, p2, p3),
           Stage(it, b, p1, p2, p3), state = 3, fmt \in Seq(STRING \ {Nul}), Ch = fmt[i],
           Modifier
    PROVE  OnStage(it, b, p1, p2, p3)
  <1>0. fmt[p3] \in Conversions /\ fmt[p3] \notin {"z", "t", "l", "L", "h", "%"}
    BY PlacedChars
  <1>1. /\ p2 \in Nat /\ p3 \in Nat /\ p3 <= Len(fmt) /\ Len(fmt) \in Nat
        /\ fmt[p3] \in Conversions /\ fmt[p3] \notin {"z", "t", "l", "L", "h", "%"}
    BY <1>0 DEF Placed
  <1>2. end = "running" /\ wd = Wide(it) BY DEF Stage
  <1>3. \/ flags = FlagSet(it) /\ i = p2
        \/ flags = FlagSet(it) \cup ModSet(it) /\ i = p3
    BY DEF Stage
  <1>4. /\ wd' = wd /\ out' = out /\ used' = used /\ end' = end
    BY DEF Modifier, Goto
  <1>5. ASSUME i = p3, flags = FlagSet(it) \cup ModSet(it) PROVE OnStage(it, b, p1, p2, p3)
    <2>1. i' = p3 + 0 /\ state' = 4 /\ flags' = flags
      BY <1>1, <1>5 DEF Modifier, Goto
    <2> QED BY <1>1, <1>2, <1>4, <1>5, <2>1 DEF OnStage, Stage
  <1>6. ASSUME state' = 3, i' = p3, flags' = FlagSet(it) \cup ModSet(it)
        PROVE  OnStage(it, b, p1, p2, p3)
    BY <1>2, <1>4, <1>6 DEF OnStage, Stage
  <1>7. CASE flags = FlagSet(it) /\ i = p2
    <2>0. i < Len(fmt) => After = fmt[p2 + 1] BY <1>7 DEF After
    <2>1. CASE it.mod = <<>>
      <3>1. p3 = p2 BY <2>1 DEF Placed
      <3>2. ModSet(it) = {} BY <2>1 DEF ModSet
      <3> QED BY <1>5, <1>7, <3>1, <3>2
    <2>2. CASE it.mod = <<"h">>
      <3>1. p3 = p2 + 1 /\ fmt[p2] = "h" BY <2>2 DEF Placed
      <3>2. Ch = "h" /\ After = fmt[p3] /\ Ch # After BY <1>1, <1>7, <2>0, <3>1
      <3>3. i' = i + 1 /\ state' = 3 /\ flags' = flags \cup {"16"}
        BY <3>2 DEF Modifier, Goto
      <3>4. ModSet(it) = {"16"} BY <2>2 DEF ModSet
      <3> QED BY <1>6, <1>7, <3>1, <3>3, <3>4
    <2>3. CASE it.mod = <<"h", "h">>
      <3>1. p3 = p2 + 2 /\ fmt[p2] = "h" /\ fmt[p2 + 1] = "h" BY <2>3 DEF Placed
      <3>2. Ch = "h" /\ Ch = After BY <1>1, <1>7, <2>0, <3>1
      <3>3. i' = i + 2 /\ state' = 3 /\ flags' = flags \cup {"8"}
        BY <3>2 DEF Modifier, Goto
      <3>4. ModSet(it) = {"8"} BY <2>3 DEF ModSet
      <3> QED BY <1>6, <1>7, <3>1, <3>3, <3>4
    <2>4. CASE it.mod = <<"l">>
      <3>1. p3 = p2 + 1 /\ fmt[p2] = "l" BY <2>4 DEF Placed
      <3>2. Ch = "l" /\ After = fmt[p3] /\ Ch # After BY <1>1, <1>7, <2>0, <3>1
      <3>3. i' = i + 1 /\ state' = 3 /\ flags' = flags \cup {"64"}
        BY <3>2 DEF Modifier, Goto
      <3>4. ModSet(it) = {"64"} BY <2>4 DEF ModSet
      <3> QED BY <1>6, <1>7, <3>1, <3>3, <3>4
    <2>6. CASE it.mod = <<"z">>
      <3>1. p3 = p2 + 1 /\ fmt[p2] = "z" BY <2>6 DEF Placed
      <3>2. Ch = "z" /\ After = fmt[p3] /\ Ch # After BY <1>1, <1>7, <2>0, <3>1
      <3>3. i' = i + 1 /\ state' = 3 /\ flags' = flags \cup {"64"}
        BY <3>2 DEF Modifier, Goto
      <3>4. ModSet(it) = {"64"} BY <2>6 DEF ModSet
      <3> QED BY <1>6, <1>7, <3>1, <3>3, <3>4
    <2>5. CASE it.mod = <<"l", "l">>
      <3>1. p3 = p2 + 2 /\ fmt[p2] = "l" /\ fmt[p2 + 1] = "l" BY <2>5 DEF Placed
      <3>2. Ch = "l" /\ Ch = After BY <1>1, <1>7, <2>0, <3>1
      <3>3. i' = i + 2 /\ state' = 3 /\ flags' = flags \cup {"64"}
        BY <3>2 DEF Modifier, Goto
      <3>4. ModSet(it) = {"64"} BY <2>5 DEF ModSet
      <3> QED BY <1>6, <1>7, <3>1, <3>3, <3>4
    <2> QED BY <2>1, <2>2, <2>3, <2>4, <2>5, <2>6, ItemParts
  <1> QED BY <1>3, <1>5, <1>7

LEMMA ConversionStage ==
    ASSUME NEW it \in Items, NEW b, NEW p1, NEW p2, NEW p3, Placed(it, b, p1, p2, p3),
           Stage(it, b, p1, p2, p3), state = 4, Ch = fmt[i], Conversion
    PROVE  Made(it, p3)
  <1>1. end = "running" /\ flags = FlagSet(it) \cup ModSet(it) /\ i = p3 /\ wd = Wide(it)
    BY DEF Stage
  <1>2. Ch = it.conv /\ Ch \in Conversions BY <1>1, ItemParts DEF Placed
  <1>3. out' = out \o Emitted(Converted(it.conv)) /\ used' = used + 1
    BY <1>2 DEF Conversion
  <1>4. state' = 0 /\ head' = TRUE /\ i' = p3 + 1 /\ end' = end BY <1>1 DEF Conversion, Goto
  <1> QED BY <1>1, <1>3, <1>4 DEF Made

\* Every step in a listed conversion reads on, or is the one that converts.
LEMMA StageStep ==
    ASSUME NEW it \in Items, NEW b, NEW p1, NEW p2, NEW p3, Placed(it, b, p1, p2, p3),
           Stage(it, b, p1, p2, p3), fmt \in Seq(STRING \ {Nul}), Next
    PROVE  /\ call' = call
           /\ OnStage(it, b, p1, p2, p3) \/ Made(it, p3)
  <1>0. call' = call
    BY DEF Next, Text, Flag, FieldWidth, Modifier, Conversion, Goto, Return, Overrun, Stop
  <1>1. /\ b \in Nat /\ p1 \in Nat /\ p2 \in Nat /\ p3 \in Nat /\ p3 <= Len(fmt)
        /\ Len(fmt) \in Nat /\ fmt[b] = "%"
    BY DEF Placed
  <1>2. b < p1 /\ p1 <= p2 /\ p2 <= p3 /\ b >= 1 BY PlacedChars
  <1>3. b + 2 <= p1 \/ it.flag = <<>> BY DEF Placed
  <1>4. i \in Nat /\ i >= 1 /\ i <= Len(fmt) /\ end = "running"
    <2>1. end = "running" BY DEF Stage
    <2>2. i = b \/ i = b + 1 \/ (i = b + 2 /\ it.flag = <<"-">>) \/ i \in p1..p2 \/ i = p3
      BY <1>1, <1>2 DEF Stage
    <2>3. it.flag = <<"-">> => b + 2 <= p1 BY <1>3, Distinct
    <2> QED BY <1>1, <1>2, <2>1, <2>2, <2>3
  <1>5. /\ ~Return /\ ~Overrun /\ Ch = fmt[i]
        /\ \A s : In(s) <=> state = s
    BY <1>4, Inside
  <1>6. CASE Text
    <2>1. state = 0 BY <1>5, <1>6 DEF Text
    <2>2. i = b BY <2>1 DEF Stage
    <2>3. Ch = "%" BY <1>1, <1>5, <2>2
    <2>4. OnStage(it, b, p1, p2, p3) BY <1>6, <2>2, <2>3, TextStage
    <2> QED BY <1>0, <2>4
  <1>7. CASE Flag
    <2>1. state = 1 BY <1>5, <1>7 DEF Flag
    <2>2. OnStage(it, b, p1, p2, p3) BY <1>5, <1>7, <2>1, FlagStage
    <2> QED BY <1>0, <2>2
  <1>8. CASE FieldWidth
    <2>1. state = 2 BY <1>5, <1>8 DEF FieldWidth
    <2>2. OnStage(it, b, p1, p2, p3) BY <1>5, <1>8, <2>1, WidthStage
    <2> QED BY <1>0, <2>2
  <1>9. CASE Modifier
    <2>1. state = 3 BY <1>5, <1>9 DEF Modifier
    <2>2. OnStage(it, b, p1, p2, p3) BY <1>5, <1>9, <2>1, ModStage
    <2> QED BY <1>0, <2>2
  <1>10. CASE Conversion
    <2>1. state = 4 BY <1>5, <1>10 DEF Conversion
    <2>2. Made(it, p3) BY <1>5, <1>10, <2>1, ConversionStage
    <2> QED BY <1>0, <2>2
  <1> QED BY <1>5, <1>6, <1>7, <1>8, <1>9, <1>10 DEF Next

\* The flag, the width or the modifier that w is stands at p, before q.
LEMMA Part ==
    ASSUME NEW S, NEW x \in Seq(S), NEW w \in Seq(S), NEW y, y = x \o w,
           NEW l \in Nat, l = Len(x), NEW m \in Nat, m = Len(w)
    PROVE  /\ y \in Seq(S) /\ l + m = Len(y) /\ l + m \in Nat
           /\ \A k \in 1..l : y[k] = x[k]
           /\ \A k \in 1..m : y[l + k] = w[k]
  <1>1. y \in Seq(S) /\ Joined(y, x, w, l, m) BY CatJoins
  <1> QED BY <1>1 DEF Joined

LEMMA FormatPlaced ==
    ASSUME NEW it \in Items, fmt = FormatOf(it)
    PROVE  \E p1, p2, p3 : Placed(it, 1, p1, p2, p3) /\ p3 = Len(fmt)
  <1>1. PICK S : S = STRING \cup {"%", "-", "0", "6", "1", "h", "l", "z"} \cup Conversions
    OBVIOUS
  <1>2. /\ it.flag \in Seq(S) /\ it.width \in Seq(S) /\ it.mod \in Seq(S) /\ it.conv \in S
        /\ "%" \in S
    <2>1. it.flag \in Seq(S)
      <3>1. "-" \in S /\ "0" \in S BY <1>1
      <3>2. <<>> \in Seq(S) /\ <<"-">> \in Seq(S) /\ <<"0">> \in Seq(S) BY <3>1
      <3> QED BY <3>2, ItemParts, Zenon
    <2>2. it.width \in Seq(S)
      <3>1. "6" \in S /\ "1" \in S /\ "0" \in S BY <1>1
      <3>2. <<>> \in Seq(S) /\ <<"6">> \in Seq(S) /\ <<"1", "0">> \in Seq(S) BY <3>1
      <3> QED BY <3>2, ItemParts, Zenon
    <2>3. it.mod \in Seq(S)
      <3>1. "h" \in S /\ "l" \in S /\ "z" \in S BY <1>1
      <3>2. /\ <<>> \in Seq(S) /\ <<"h", "h">> \in Seq(S) /\ <<"h">> \in Seq(S)
            /\ <<"l">> \in Seq(S) /\ <<"l", "l">> \in Seq(S) /\ <<"z">> \in Seq(S)
        BY <3>1
      <3> QED BY <3>2, ItemParts, Zenon
    <2> QED BY <1>1, <2>1, <2>2, <2>3, ItemParts
  <1>3. PICK f \in Seq(S), w \in Seq(S), m \in Seq(S), c \in Seq(S), a1 \in Seq(S) :
            /\ f = it.flag /\ w = it.width /\ m = it.mod /\ c = <<it.conv>> /\ a1 = <<"%">>
    <2>1. <<it.conv>> \in Seq(S) /\ <<"%">> \in Seq(S) BY <1>2
    <2> QED BY <1>2, <2>1, Zenon
  <1>4. PICK lf \in Nat, lw \in Nat, lm \in Nat : lf = Len(f) /\ lw = Len(w) /\ lm = Len(m)
    OBVIOUS
  <1>5. Len(a1) = 1 /\ a1[1] = "%" /\ Len(c) = 1 /\ c[1] = it.conv
    BY <1>3
  <1>6. PICK a2 : a2 = a1 \o f OBVIOUS
  <1>7. PICK a3 : a3 = a2 \o w OBVIOUS
  <1>8. PICK a4 : a4 = a3 \o m OBVIOUS
  <1>9. PICK a5 : a5 = a4 \o c OBVIOUS
  <1>10. fmt = a5 BY <1>3, <1>6, <1>7, <1>8, <1>9, Zenon DEF FormatOf
  <1>11. PICK l2 \in Nat : l2 = 1 + lf OBVIOUS
  <1>12. PICK l3 \in Nat : l3 = l2 + lw OBVIOUS
  <1>13. PICK l4 \in Nat : l4 = l3 + lm OBVIOUS
  <1>14. /\ a2 \in Seq(S) /\ l2 = Len(a2)
         /\ a2[1] = "%" /\ \A k \in 1..lf : a2[1 + k] = f[k]
    <2>1. PICK l \in Nat : l = Len(a1) OBVIOUS
    <2>2. /\ a2 \in Seq(S) /\ l + lf = Len(a2)
          /\ \A k \in 1..l : a2[k] = a1[k]
          /\ \A k \in 1..lf : a2[l + k] = f[k]
      BY <1>4, <1>6, <2>1, Part
    <2> QED BY <1>5, <1>11, <2>1, <2>2
  <1>15. /\ a3 \in Seq(S) /\ l3 = Len(a3)
         /\ \A k \in 1..l2 : a3[k] = a2[k]
         /\ \A k \in 1..lw : a3[l2 + k] = w[k]
    <2>1. /\ a3 \in Seq(S) /\ l2 + lw = Len(a3)
          /\ \A k \in 1..l2 : a3[k] = a2[k]
          /\ \A k \in 1..lw : a3[l2 + k] = w[k]
      BY <1>4, <1>7, <1>14, Part
    <2> QED BY <1>12, <2>1
  <1>16. /\ a4 \in Seq(S) /\ l4 = Len(a4)
         /\ \A k \in 1..l3 : a4[k] = a3[k]
         /\ \A k \in 1..lm : a4[l3 + k] = m[k]
    <2>1. /\ a4 \in Seq(S) /\ l3 + lm = Len(a4)
          /\ \A k \in 1..l3 : a4[k] = a3[k]
          /\ \A k \in 1..lm : a4[l3 + k] = m[k]
      BY <1>4, <1>8, <1>15, Part
    <2> QED BY <1>13, <2>1
  <1>17. /\ l4 + 1 = Len(a5)
         /\ \A k \in 1..l4 : a5[k] = a4[k]
         /\ a5[l4 + 1] = it.conv
    <2>1. PICK l \in Nat : l = Len(c) OBVIOUS
    <2>2. /\ l4 + l = Len(a5)
          /\ \A k \in 1..l4 : a5[k] = a4[k]
          /\ \A k \in 1..l : a5[l4 + k] = c[k]
      BY <1>9, <1>16, <2>1, Part
    <2> QED BY <1>5, <2>1, <2>2
  <1>18. /\ fmt[1] = "%" /\ fmt[l4 + 1] = it.conv /\ Len(fmt) = l4 + 1
    BY <1>10, <1>11, <1>12, <1>13, <1>14, <1>15, <1>16, <1>17
  <1>19. ASSUME NEW k \in 1..lm PROVE fmt[l3 + k] = m[k]
    <2>1. l3 + k \in 1..l4 BY <1>13
    <2> QED BY <1>10, <1>16, <1>17, <2>1
  <1>20. ASSUME NEW k \in 1..lw PROVE fmt[l2 + k] = w[k]
    <2>1. l2 + k \in 1..l3 /\ l2 + k \in 1..l4 BY <1>12, <1>13
    <2> QED BY <1>10, <1>15, <1>16, <1>17, <2>1
  <1>21. ASSUME NEW k \in 1..lf PROVE fmt[1 + k] = f[k]
    <2>1. 1 + k \in 1..l2 /\ 1 + k \in 1..l3 /\ 1 + k \in 1..l4 BY <1>11, <1>12, <1>13
    <2> QED BY <1>10, <1>14, <1>15, <1>16, <1>17, <2>1
  <1>22. \/ it.flag = <<>> /\ lf = 0
         \/ it.flag = <<"-">> /\ lf = 1 /\ fmt[2] = "-"
         \/ it.flag = <<"0">> /\ lf = 1 /\ fmt[2] = "0"
    <2>1. lf = 1 => fmt[2] = f[1] BY <1>21
    <2> QED BY <1>3, <1>4, <2>1, ItemParts
  <1>23. \/ it.width = <<>> /\ lw = 0
         \/ it.width = <<"6">> /\ lw = 1 /\ fmt[l2 + 1] = "6"
         \/ it.width = <<"1", "0">> /\ lw = 2 /\ fmt[l2 + 1] = "1" /\ fmt[l2 + 2] = "0"
    <2>1. lw >= 1 => fmt[l2 + 1] = w[1] BY <1>20
    <2>2. lw = 2 => fmt[l2 + 2] = w[2] BY <1>20
    <2>3. ASSUME w = <<>> PROVE lw = 0 BY <1>4, <2>3
    <2>4. ASSUME w = <<"6">> PROVE lw = 1 /\ w[1] = "6" BY <1>4, <2>4
    <2>5. ASSUME w = <<"1", "0">> PROVE lw = 2 /\ w[1] = "1" /\ w[2] = "0" BY <1>4, <2>5
    <2>6. w = <<>> \/ w = <<"6">> \/ w = <<"1", "0">> BY <1>3, ItemParts, Zenon
    <2> QED BY <1>3, <2>1, <2>2, <2>3, <2>4, <2>5, <2>6
  <1>24. \/ it.mod = <<>> /\ lm = 0
         \/ it.mod = <<"h", "h">> /\ lm = 2 /\ fmt[l3 + 1] = "h" /\ fmt[l3 + 2] = "h"
         \/ it.mod = <<"h">> /\ lm = 1 /\ fmt[l3 + 1] = "h"
         \/ it.mod = <<"l">> /\ lm = 1 /\ fmt[l3 + 1] = "l"
         \/ it.mod = <<"l", "l">> /\ lm = 2 /\ fmt[l3 + 1] = "l" /\ fmt[l3 + 2] = "l"
         \/ it.mod = <<"z">> /\ lm = 1 /\ fmt[l3 + 1] = "z"
    <2>1. lm >= 1 => fmt[l3 + 1] = m[1] BY <1>19
    <2>2. lm = 2 => fmt[l3 + 2] = m[2] BY <1>19
    <2>3. ASSUME m = <<>> PROVE lm = 0 BY <1>4, <2>3
    <2>4. ASSUME NEW x, m = <<x>> PROVE lm = 1 /\ m[1] = x BY <1>4, <2>4
    <2>5. ASSUME NEW x, m = <<x, x>> PROVE lm = 2 /\ m[1] = x /\ m[2] = x BY <1>4, <2>5
    <2>6. \/ m = <<>> \/ m = <<"h", "h">> \/ m = <<"h">>
          \/ m = <<"l">> \/ m = <<"l", "l">> \/ m = <<"z">>
      BY <1>3, ItemParts, Zenon
    <2>7. CASE m = <<>> BY <1>3, <2>3, <2>7, Zenon
    <2>8. CASE m = <<"h", "h">>
      <3>1. lm = 2 /\ m[1] = "h" /\ m[2] = "h" BY <2>5, <2>8, Zenon
      <3> QED BY <1>3, <2>1, <2>2, <2>8, <3>1
    <2>9. CASE m = <<"l", "l">>
      <3>1. lm = 2 /\ m[1] = "l" /\ m[2] = "l" BY <2>5, <2>9, Zenon
      <3> QED BY <1>3, <2>1, <2>2, <2>9, <3>1
    <2>10. CASE m = <<"h">> \/ m = <<"l">> \/ m = <<"z">>
      <3>1. PICK x \in {"h", "l", "z"} : m = <<x>> BY <2>10
      <3>2. lm = 1 /\ m[1] = x BY <2>4, <3>1, Zenon
      <3>3. fmt[l3 + 1] = x BY <2>1, <3>2
      <3>4. x = "h" \/ x = "l" \/ x = "z" OBVIOUS
      <3> QED BY <1>3, <3>1, <3>2, <3>3, <3>4, Zenon
    <2> QED BY <2>6, <2>7, <2>8, <2>9, <2>10, Zenon
  <1>25. PICK p1 \in Nat, p2 \in Nat, p3 \in Nat : p1 = l2 + 1 /\ p2 = l3 + 1 /\ p3 = l4 + 1
    OBVIOUS
  <1>26. /\ p1 = 2 + lf /\ p2 = p1 + lw /\ p3 = p2 + lm /\ p3 = Len(fmt)
         /\ l2 + 2 = p1 + 1 /\ l3 + 2 = p2 + 1 /\ fmt[p3] = it.conv
    BY <1>11, <1>12, <1>13, <1>18, <1>25
  <1>27. \/ it.flag = <<>> /\ p1 = 1 + 1
         \/ it.flag = <<"-">> /\ p1 = 1 + 2 /\ fmt[1 + 1] = "-"
         \/ it.flag = <<"0">> /\ p1 = 1 + 2 /\ fmt[1 + 1] = "0"
    BY <1>22, <1>26
  <1>28. \/ it.width = <<>> /\ p2 = p1
         \/ it.width = <<"6">> /\ p2 = p1 + 1 /\ fmt[p1] = "6"
         \/ it.width = <<"1", "0">> /\ p2 = p1 + 2 /\ fmt[p1] = "1" /\ fmt[p1 + 1] = "0"
    BY <1>23, <1>25, <1>26
  <1>29. \/ it.mod = <<>> /\ p3 = p2
         \/ it.mod = <<"h", "h">> /\ p3 = p2 + 2 /\ fmt[p2] = "h" /\ fmt[p2 + 1] = "h"
         \/ it.mod = <<"h">> /\ p3 = p2 + 1 /\ fmt[p2] = "h"
         \/ it.mod = <<"l">> /\ p3 = p2 + 1 /\ fmt[p2] = "l"
         \/ it.mod = <<"l", "l">> /\ p3 = p2 + 2 /\ fmt[p2] = "l" /\ fmt[p2 + 1] = "l"
         \/ it.mod = <<"z">> /\ p3 = p2 + 1 /\ fmt[p2] = "z"
    BY <1>24, <1>25, <1>26
  <1>30. 1 \in Nat \ {0} /\ p3 <= Len(fmt) BY <1>26
  <1>31. Placed(it, 1, p1, p2, p3)
    BY <1>18, <1>26, <1>27, <1>28, <1>29, <1>30 DEF Placed
  <1> QED BY <1>26, <1>31

----------------------------------------------------------------------------
(* The formats of listed conversions, from the first step to the last.     *)

Bare(conv) == [flag |-> <<>>, width |-> <<>>, mod |-> <<>>, conv |-> conv]

Finished == i = Len(fmt) + 1 /\ state = 0 /\ head = TRUE /\ end \in {"running", "returned"}

\* Two conversions made, the first from the first argument.
BothMade(c, d) ==
    \E k \in 0..Len(out) :
        /\ IsConverted(SubSeq(out, 1, k), Bare(c), args[1])
        /\ IsConverted(SubSeq(out, k + 1, Len(out)), Bare(d), args[2])

OneListed(it) ==
    \E p1, p2, p3 :
        /\ Placed(it, 1, p1, p2, p3) /\ p3 = Len(fmt)
        /\ \/ Stage(it, 1, p1, p2, p3) /\ used = 0 /\ out = <<>>
           \/ Finished /\ IsConverted(out, it, args[1])

TwoListed(c, d) ==
    \/ Stage(Bare(c), 1, 2, 2, 2) /\ used = 0 /\ out = <<>>
    \/ Stage(Bare(d), 3, 4, 4, 4) /\ used = 1 /\ IsConverted(out, Bare(c), args[1])
    \/ Finished /\ BothMade(c, d)

ListedInv ==
    /\ \A it \in Items : fmt = FormatOf(it) => OneListed(it)
    /\ \A c, d \in Conversions : fmt = <<"%", c, "%", d>> => TwoListed(c, d)

LEMMA BareItem ==
    ASSUME NEW conv \in Conversions
    PROVE  Bare(conv) \in Items /\ Bare(conv).conv = conv
  BY DEF Bare, Items

LEMMA BarePlaced ==
    ASSUME NEW c \in Conversions, NEW d \in Conversions, fmt = <<"%", c, "%", d>>
    PROVE  /\ Placed(Bare(c), 1, 2, 2, 2) /\ Placed(Bare(d), 3, 4, 4, 4)
           /\ Len(fmt) = 4
  <1>1. /\ Len(fmt) = 4 /\ fmt[1] = "%" /\ fmt[2] = c /\ fmt[3] = "%" /\ fmt[4] = d
    OBVIOUS
  <1>2. ASSUME NEW e PROVE Bare(e).flag = <<>> /\ Bare(e).width = <<>> /\ Bare(e).mod = <<>>
                           /\ Bare(e).conv = e
    BY DEF Bare
  <1>3. Placed(Bare(c), 1, 2, 2, 2) BY <1>1, <1>2 DEF Placed
  <1>4. Placed(Bare(d), 3, 4, 4, 4) BY <1>1, <1>2 DEF Placed
  <1> QED BY <1>1, <1>3, <1>4

LEMMA ListedInit == Init => ListedInv
  <1> SUFFICES ASSUME Init PROVE ListedInv OBVIOUS
  <1>1. used = 0 /\ i = 1 /\ state = 0 /\ out = <<>> /\ end = "running" BY DEF Init
  <1>2. ASSUME NEW it, NEW p1, NEW p2, NEW p3 PROVE Stage(it, 1, p1, p2, p3)
    BY <1>1 DEF Stage
  <1>3. ASSUME NEW it \in Items, fmt = FormatOf(it) PROVE OneListed(it)
    <2>1. PICK p1, p2, p3 : Placed(it, 1, p1, p2, p3) /\ p3 = Len(fmt)
      BY <1>3, FormatPlaced
    <2> QED BY <1>1, <1>2, <2>1, Zenon DEF OneListed
  <1>4. ASSUME NEW c, NEW d PROVE TwoListed(c, d) BY <1>1, <1>2, Zenon DEF TwoListed
  <1> QED BY <1>3, <1>4, Zenon DEF ListedInv

\* The argument that a conversion takes, in a call that has it.
LEMMA ArgTyped ==
    ASSUME OutInv, args' = args, used' = used + 1, (used <= Len(args))'
    PROVE  Arg \in Nat /\ Arg = args[used + 1] /\ str \in Seq(STRING)
  <1>1. PICK p \in Nat : p = 2^Bits["long"] BY PrintfAssumption
  <1>2. PICK S : S = 0..(p - 1) OBVIOUS
  <1>3. args \in Seq(S) BY <1>1, <1>2, PrintfAssumption, Zenon DEF OutInv
  <1>4. used + 1 \in 1..Len(args) BY <1>3 DEF OutInv
  <1>5. args[used + 1] \in S BY <1>3, <1>4
  <1>6. S \subseteq Nat BY <1>2
  <1>7. str \in Seq(STRING) BY PrintfAssumption DEF OutInv
  <1> QED BY <1>5, <1>6, <1>7, Zenon DEF Arg

LEMMA MadeRight ==
    ASSUME NEW it \in Items, NEW p3, Made(it, p3), OutInv, call' = call,
           (used <= Len(args))'
    PROVE  \E s \in Seq(Characters) : out' = out \o s /\ IsConverted(s, it, args[used + 1])
  <1>1. args' = args BY DEF call
  <1>2. /\ flags = FlagSet(it) \cup ModSet(it) /\ wd = Wide(it) /\ used' = used + 1
        /\ out' = out \o Emitted(Converted(it.conv))
    BY DEF Made
  <1>3. Arg \in Nat /\ Arg = args[used + 1] /\ str \in Seq(STRING) BY <1>1, <1>2, ArgTyped
  <1>4. /\ Emitted(Converted(it.conv)) \in Seq(Characters)
        /\ IsConverted(Emitted(Converted(it.conv)), it, Arg)
    BY <1>2, <1>3, EmittedConverted
  <1> QED BY <1>2, <1>3, <1>4, Zenon

LEMMA Lasts ==
    ASSUME NEW it, NEW s, NEW a, str' = str
    PROVE  IsConverted(s, it, a)' <=> IsConverted(s, it, a)
  <1>1. Body(it, a)' = Body(it, a) BY DEF Body
  <1> QED BY <1>1, Zenon DEF IsConverted

\* Nothing is output after the end of the format.
LEMMA FinishedStays ==
    ASSUME Finished, fmt \in Seq(STRING \ {Nul}), [Next]_vars
    PROVE  Finished' /\ call' = call /\ out' = out
  <1>1. Ch = Nul /\ Len(fmt) \in Nat BY DEF Ch, Finished
  <1>2. \A s : ~In(s) BY <1>1 DEF In, Finished
  <1>3. ~Overrun BY <1>1 DEF Overrun, Finished
  <1>4. CASE Return
    <2>1. /\ end' = "returned" /\ call' = call /\ i' = i /\ head' = head /\ state' = state
          /\ out' = out
      BY <1>4 DEF Return, Stop
    <2> QED BY <2>1 DEF Finished, call
  <1>5. CASE UNCHANGED vars BY <1>5 DEF vars, call, Finished
  <1> QED BY <1>2, <1>3, <1>4, <1>5 DEF Next, Text, Flag, FieldWidth, Modifier, Conversion

\* The steps of one conversion that is at b in the format.
LEMMA ListedStep ==
    ASSUME NEW it \in Items, NEW b, NEW p1, NEW p2, NEW p3, Placed(it, b, p1, p2, p3),
           Stage(it, b, p1, p2, p3), ReadInv, OutInv, (used <= Len(args))', [Next]_vars
    PROVE  /\ call' = call /\ Placed(it, b, p1, p2, p3)'
           /\ \/ Stage(it, b, p1, p2, p3)' /\ out' = out /\ used' = used
              \/ /\ used' = used + 1 /\ i' = p3 + 1
                 /\ state' = 0 /\ head' = TRUE /\ end' = "running"
                 /\ \E s \in Seq(Characters) :
                        out' = out \o s /\ IsConverted(s, it, args[used + 1])
  <1>1. fmt \in Seq(STRING \ {Nul}) BY DEF ReadInv
  <1>2. ASSUME call' = call PROVE Placed(it, b, p1, p2, p3)'
    BY <1>2 DEF call, Placed
  <1>3. CASE Next
    <2>1. /\ call' = call
          /\ OnStage(it, b, p1, p2, p3) \/ Made(it, p3)
      BY <1>1, <1>3, StageStep
    <2>2. CASE OnStage(it, b, p1, p2, p3) BY <1>2, <2>1, <2>2 DEF OnStage
    <2>3. CASE Made(it, p3)
      <3>1. \E s \in Seq(Characters) : out' = out \o s /\ IsConverted(s, it, args[used + 1])
        BY <2>1, <2>3, MadeRight
      <3>2. /\ used' = used + 1 /\ i' = p3 + 1
            /\ state' = 0 /\ head' = TRUE /\ end' = "running"
        BY <2>3 DEF Made
      <3> QED BY <1>2, <2>1, <3>1, <3>2
    <2> QED BY <2>1, <2>2, <2>3
  <1>4. CASE UNCHANGED vars
    <2>1. call' = call /\ out' = out /\ used' = used BY <1>4 DEF vars, call
    <2>2. Stage(it, b, p1, p2, p3)' BY <1>4 DEF vars, Stage
    <2> QED BY <1>2, <2>1, <2>2
  <1> QED BY <1>3, <1>4

LEMMA OneListedNext ==
    ASSUME NEW it \in Items, OneListed(it), ReadInv, OutInv, (used <= Len(args))', [Next]_vars
    PROVE  OneListed(it)'
  <1>1. PICK p1, p2, p3 :
            /\ Placed(it, 1, p1, p2, p3) /\ p3 = Len(fmt)
            /\ \/ Stage(it, 1, p1, p2, p3) /\ used = 0 /\ out = <<>>
               \/ Finished /\ IsConverted(out, it, args[1])
    BY Zenon DEF OneListed
  <1>2. SUFFICES ASSUME call' = call
                 PROVE  \/ Stage(it, 1, p1, p2, p3)' /\ used' = 0 /\ out' = <<>>
                        \/ Finished' /\ IsConverted(out, it, args[1])'
    <2>1. ASSUME call' = call PROVE Placed(it, 1, p1, p2, p3)' /\ p3 = Len(fmt)'
      BY <1>1, <2>1 DEF call, Placed
    <2>2. call' = call
      <3>1. CASE Stage(it, 1, p1, p2, p3) BY <1>1, <3>1, ListedStep
      <3>2. CASE Finished BY <3>2, FinishedStays DEF ReadInv
      <3> QED BY <1>1, <3>1, <3>2
    <2> QED BY <2>1, <2>2 DEF OneListed
  <1>3. str' = str /\ args' = args /\ fmt' = fmt BY <1>2 DEF call
  <1>4. CASE Stage(it, 1, p1, p2, p3) /\ used = 0 /\ out = <<>>
    <2>1. CASE Stage(it, 1, p1, p2, p3)' /\ out' = out /\ used' = used BY <1>4, <2>1
    <2>2. ASSUME NEW s \in Seq(Characters), out' = out \o s,
                 IsConverted(s, it, args[used + 1]), i' = p3 + 1,
                 state' = 0, head' = TRUE, end' = "running"
          PROVE  Finished' /\ IsConverted(out, it, args[1])'
      <3>1. out' = s BY <1>4, <2>2
      <3>2. used + 1 = 1 BY <1>4
      <3>3. PICK a : a = args[1] OBVIOUS
      <3>4. IsConverted(s, it, a) BY <2>2, <3>2, <3>3, Zenon
      <3>5. IsConverted(s, it, a)' BY <1>3, <3>4, Lasts
      <3>6. IsConverted(out, it, args[1])' BY <1>3, <3>1, <3>3, <3>5, Zenon
      <3>7. Finished' BY <1>1, <1>3, <2>2 DEF Finished
      <3> QED BY <3>6, <3>7
    <2> QED BY <1>1, <1>4, <2>1, <2>2, ListedStep
  <1>5. CASE Finished /\ IsConverted(out, it, args[1])
    <2>1. Finished' /\ out' = out BY <1>5, FinishedStays DEF ReadInv
    <2>2. PICK s, a : s = out /\ a = args[1] OBVIOUS
    <2>3. IsConverted(s, it, a)' BY <1>3, <1>5, <2>2, Lasts
    <2>4. IsConverted(out, it, args[1])' BY <1>3, <2>1, <2>2, <2>3, Zenon
    <2> QED BY <2>1, <2>4
  <1> QED BY <1>1, <1>4, <1>5

LEMMA EndOf ==
    ASSUME NEW S, NEW s \in Seq(S), NEW l \in Nat, NEW m \in Nat, Len(s) = l + m,
           NEW y, y = SubSeq(s, l + 1, l + m)
    PROVE  /\ y \in Seq(S) /\ Len(y) = m
           /\ \A k \in 1..m : y[k] = s[k + l]
  <1>1. PICK u \in Int, v \in Int : u = l + 1 /\ v = l + m OBVIOUS
  <1>2. ASSUME NEW j \in u..v PROVE s[j] \in S
    <2>1. j \in 1..Len(s) BY <1>1
    <2> QED BY <2>1, ElementOfSeq
  <1>3. /\ SubSeq(s, u, v) \in Seq(S)
        /\ Len(SubSeq(s, u, v)) = IF u <= v THEN v - u + 1 ELSE 0
        /\ \A k \in 1..(v - u + 1) : SubSeq(s, u, v)[k] = s[u + k - 1]
    BY <1>2, SubSeqProperties
  <1>4. y = SubSeq(s, u, v) /\ v - u + 1 = m BY <1>1
  <1>5. y \in Seq(S) BY <1>3, <1>4, Zenon
  <1>6. Len(y) = m
    <2>1. Len(y) = IF u <= v THEN v - u + 1 ELSE 0 BY <1>3, <1>4, Zenon
    <2> QED BY <1>1, <2>1
  <1>7. ASSUME NEW k \in 1..m PROVE y[k] = s[k + l]
    <2>1. u + k - 1 = k + l /\ k \in 1..(v - u + 1) BY <1>1
    <2>2. y[k] = s[u + k - 1] BY <1>3, <1>4, <2>1, Zenon
    <2> QED BY <2>1, <2>2, Zenon
  <1> QED BY <1>5, <1>6, <1>7

\* r, cut behind its first l members, is p and q.
Cut(r, l, p, q) ==
    l \in 0..Len(r) /\ SubSeq(r, 1, l) = p /\ SubSeq(r, l + 1, Len(r)) = q

LEMMA Splits ==
    ASSUME NEW S, NEW p \in Seq(S), NEW q \in Seq(S), NEW r \in Seq(S),
           NEW l \in Nat, NEW m \in Nat, l = Len(p), m = Len(q), Joined(r, p, q, l, m)
    PROVE  Cut(r, l, p, q)
  <1>1. /\ Len(r) = l + m
        /\ \A k \in 1..l : r[k] = p[k]
        /\ \A k \in (l + 1)..(l + m) : r[k] = q[k - l]
    BY DEF Joined
  <1>2. PICK x : x = SubSeq(r, 1, l) OBVIOUS
  <1>3. x = p
    <2>1. x \in Seq(S) /\ Len(x) = l /\ \A k \in 1..l : x[k] = r[k] BY <1>1, <1>2
    <2>2. \A k \in 1..l : x[k] = p[k] BY <1>1, <2>1
    <2> QED BY <2>1, <2>2, SeqEqual
  <1>4. PICK y : y = SubSeq(r, l + 1, l + m) OBVIOUS
  <1>5. y = q
    <2>1. y \in Seq(S) /\ Len(y) = m /\ \A k \in 1..m : y[k] = r[k + l]
      BY <1>1, <1>4, EndOf
    <2>2. ASSUME NEW k \in 1..m PROVE y[k] = q[k]
      <3>1. k + l \in (l + 1)..(l + m) /\ (k + l) - l = k OBVIOUS
      <3>2. r[k + l] = q[(k + l) - l] BY <1>1, <3>1
      <3> QED BY <2>1, <3>1, <3>2
    <2> QED BY <2>1, <2>2, SeqEqual
  <1>6. l \in 0..(l + m) OBVIOUS
  <1> QED BY <1>1, <1>2, <1>3, <1>4, <1>5, <1>6, Zenon DEF Cut

LEMMA TwoListedNext ==
    ASSUME NEW c \in Conversions, NEW d \in Conversions, fmt = <<"%", c, "%", d>>,
           TwoListed(c, d), ReadInv, OutInv, (used <= Len(args))', [Next]_vars
    PROVE  TwoListed(c, d)'
  <1>1. /\ Placed(Bare(c), 1, 2, 2, 2) /\ Placed(Bare(d), 3, 4, 4, 4) /\ Len(fmt) = 4
        /\ Bare(c) \in Items /\ Bare(d) \in Items
    BY BarePlaced, BareItem
  <1>2. PICK x \in Items, y \in Items : x = Bare(c) /\ y = Bare(d) BY <1>1
  <1>3. PICK a1, a2 : a1 = args[1] /\ a2 = args[2] OBVIOUS
  <1>4. /\ Placed(x, 1, 2, 2, 2) /\ Placed(y, 3, 4, 4, 4) BY <1>1, <1>2
  <1>5. CASE Stage(x, 1, 2, 2, 2) /\ used = 0 /\ out = <<>>
    <2>1. CASE Stage(x, 1, 2, 2, 2)' /\ out' = out /\ used' = used
      BY <1>2, <1>5, <2>1 DEF TwoListed
    <2>2. ASSUME NEW s \in Seq(Characters), out' = out \o s, call' = call,
                 IsConverted(s, x, args[used + 1]), used' = used + 1, i' = 2 + 1,
                 state' = 0, head' = TRUE, end' = "running"
          PROVE  TwoListed(c, d)'
      <3>1. out' = s /\ used' = 1 /\ i' = 3 /\ str' = str /\ args' = args
        BY <1>5, <2>2 DEF call
      <3>2. used + 1 = 1 BY <1>5
      <3>3. IsConverted(s, x, a1) BY <1>3, <2>2, <3>2, Zenon
      <3>4. IsConverted(s, x, a1)' BY <3>1, <3>3, Lasts
      <3>5. IsConverted(out, x, args[1])' BY <1>3, <3>1, <3>4, Zenon
      <3>6. Stage(y, 3, 4, 4, 4)' BY <2>2, <3>1 DEF Stage
      <3> QED BY <1>2, <3>1, <3>5, <3>6 DEF TwoListed
    <2> QED BY <1>4, <1>5, <2>1, <2>2, ListedStep
  <1>6. CASE Stage(y, 3, 4, 4, 4) /\ used = 1 /\ IsConverted(out, x, args[1])
    <2>1. CASE Stage(y, 3, 4, 4, 4)' /\ out' = out /\ used' = used /\ call' = call
      <3>1. PICK s : s = out OBVIOUS
      <3>2. str' = str /\ args' = args BY <2>1 DEF call
      <3>3. IsConverted(s, x, a1)' BY <1>3, <1>6, <3>1, <3>2, Lasts
      <3>4. IsConverted(out, x, args[1])' BY <1>3, <2>1, <3>1, <3>2, <3>3, Zenon
      <3> QED BY <1>2, <1>6, <2>1, <3>4 DEF TwoListed
    <2>2. ASSUME NEW s \in Seq(Characters), out' = out \o s, call' = call,
                 IsConverted(s, y, args[used + 1]), used' = used + 1, i' = 4 + 1,
                 state' = 0, head' = TRUE, end' = "running"
          PROVE  TwoListed(c, d)'
      <3>1. str' = str /\ args' = args /\ fmt' = fmt BY <2>2 DEF call
      <3>2. used + 1 = 2 BY <1>6
      <3>3. IsConverted(s, y, a2) BY <1>3, <2>2, <3>2, Zenon
      <3>11. PICK r : r = out' OBVIOUS
      <3>4. PICK o \in Seq(Characters) : o = out /\ r = out' BY <3>11 DEF OutInv
      <3>5. IsConverted(o, x, a1) BY <1>3, <1>6, <3>4
      <3>6. PICK k \in Nat, n \in Nat : k = Len(o) /\ n = Len(s) OBVIOUS
      <3>7. k \in 0..Len(r) /\ SubSeq(r, 1, k) = o /\ SubSeq(r, k + 1, Len(r)) = s
        <4>1. r = o \o s BY <2>2, <3>4
        <4>2. r \in Seq(Characters) /\ Joined(r, o, s, k, n) BY <3>6, <4>1, CatJoins
        <4>3. Cut(r, k, o, s) BY <3>6, <4>2, Splits
        <4> QED BY <4>3, Zenon DEF Cut
      <3>8. IsConverted(o, x, a1)' /\ IsConverted(s, y, a2)' BY <3>1, <3>3, <3>5, Lasts
      <3>9. BothMade(c, d)'
        BY <1>2, <1>3, <3>1, <3>4, <3>7, <3>8, Zenon DEF BothMade
      <3>10. Finished' BY <1>1, <2>2, <3>1 DEF Finished
      <3> QED BY <3>9, <3>10 DEF TwoListed
    <2> QED BY <1>4, <1>6, <2>1, <2>2, ListedStep
  <1>7. CASE Finished /\ BothMade(c, d)
    <2>1. Finished' /\ out' = out /\ call' = call BY <1>7, FinishedStays DEF ReadInv
    <2>2. str' = str /\ args' = args BY <2>1 DEF call
    <2>3. PICK k \in 0..Len(out) :
              /\ IsConverted(SubSeq(out, 1, k), Bare(c), args[1])
              /\ IsConverted(SubSeq(out, k + 1, Len(out)), Bare(d), args[2])
      BY <1>7, Zenon DEF BothMade
    <2>4. PICK s, t : s = SubSeq(out, 1, k) /\ t = SubSeq(out, k + 1, Len(out)) OBVIOUS
    <2>5. IsConverted(s, x, a1) /\ IsConverted(t, y, a2) BY <1>2, <1>3, <2>3, <2>4
    <2>6. IsConverted(s, x, a1)' /\ IsConverted(t, y, a2)' BY <2>2, <2>5, Lasts
    <2>7. BothMade(c, d)'
      BY <1>2, <1>3, <2>1, <2>2, <2>3, <2>4, <2>6, Zenon DEF BothMade
    <2> QED BY <2>1, <2>7 DEF TwoListed
  <1> QED BY <1>2, <1>5, <1>6, <1>7 DEF TwoListed

LEMMA ListedNext ==
    ListedInv /\ ReadInv /\ OutInv /\ (used <= Len(args))' /\ [Next]_vars => ListedInv'
  <1> SUFFICES ASSUME ListedInv, ReadInv, OutInv, (used <= Len(args))', [Next]_vars
               PROVE  ListedInv'
    OBVIOUS
  <1>1. fmt' = fmt
    BY DEF Next, Text, Flag, FieldWidth, Modifier, Conversion, Goto, Return, Overrun, Stop,
           call, vars
  <1>2. ASSUME NEW it \in Items, fmt' = FormatOf(it) PROVE OneListed(it)'
    <2>1. OneListed(it) BY <1>1, <1>2 DEF ListedInv
    <2> QED BY <2>1, OneListedNext
  <1>3. ASSUME NEW c \in Conversions, NEW d \in Conversions, fmt' = <<"%", c, "%", d>>
        PROVE  TwoListed(c, d)'
    <2>1. fmt = <<"%", c, "%", d>> BY <1>1, <1>3
    <2>2. TwoListed(c, d) BY <2>1, Zenon DEF ListedInv
    <2> QED BY <2>1, <2>2, TwoListedNext
  <1> QED BY <1>2, <1>3, Zenon DEF ListedInv

\* Every conversion that printf.c lists as done is what C says it is, for
\* every argument, string and width of the integers, and the second one takes
\* the second argument, in every call with an argument for every conversion
\* of its format.
THEOREM Converts == Spec /\ [](used <= Len(args)) => []ConvertsAsListed
  <1>1. Init => OutInv
    BY DEF Init, OutInv
  <1>2. ListedInv => ConvertsAsListed
    <2> SUFFICES ASSUME ListedInv, end = "returned"
                 PROVE  /\ \A it \in Items :
                               fmt = FormatOf(it) => IsConverted(out, it, args[1])
                        /\ \A c, d \in Conversions :
                               fmt = <<"%", c, "%", d>> => BothMade(c, d)
      BY Zenon DEF ConvertsAsListed, BothMade, Bare
    <2>1. \A it, b, p1, p2, p3 : ~Stage(it, b, p1, p2, p3) BY DEF Stage
    <2>2. ASSUME NEW it \in Items, fmt = FormatOf(it) PROVE IsConverted(out, it, args[1])
      BY <2>1, <2>2, Zenon DEF ListedInv, OneListed
    <2>3. ASSUME NEW c \in Conversions, NEW d \in Conversions, fmt = <<"%", c, "%", d>>
          PROVE  BothMade(c, d)
      BY <2>1, <2>3, Zenon DEF ListedInv, TwoListed
    <2> QED BY <2>2, <2>3, Zenon
  <1> QED BY <1>1, <1>2, ListedInit, ListedNext, OutNext, ReadInvariance, PTL DEF Spec

=============================================================================
