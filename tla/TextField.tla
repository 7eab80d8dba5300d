----------------------------- MODULE TextField -----------------------------
(* What the composer promises its user: one text, a cursor in it, and a part
   of it that may be marked.  What is typed replaces the marked part, or goes in
   at the cursor; nothing else of the text changes, and moving never changes
   it. *)
EXTENDS Integers, Sequences

CONSTANTS Symbols,    \* what can be typed
          Templates   \* the texts a command puts in place of the whole

VARIABLES text, cursor, mark
vars == <<text, cursor, mark>>

Unmarked == 0 - 1
Marked == mark # Unmarked
From == IF Marked /\ mark < cursor THEN mark ELSE cursor
To   == IF Marked /\ mark > cursor THEN mark ELSE cursor

Replace(from, to, s) ==
  /\ text' = SubSeq(text, 1, from) \o s \o SubSeq(text, to + 1, Len(text))
  /\ cursor' = from + Len(s) /\ mark' = Unmarked

Init == text = <<>> /\ cursor = 0 /\ mark = Unmarked
Type == \E c \in Symbols : Replace(From, To, <<c>>)
Erase == IF Marked THEN Replace(From, To, <<>>) ELSE cursor > 0 /\ Replace(cursor - 1, cursor, <<>>)
Move == cursor' \in 0..Len(text) /\ mark' = Unmarked /\ UNCHANGED text
Mark ==
  /\ cursor' \in 0..Len(text) /\ UNCHANGED text
  /\ LET start == IF Marked THEN mark ELSE cursor IN mark' = IF cursor' = start THEN Unmarked ELSE start
Refill == text' \in Templates /\ cursor' = Len(text') /\ mark' = Unmarked

Next == Type \/ Erase \/ Move \/ Mark \/ Refill
Spec == Init /\ [][Next]_vars
=============================================================================
