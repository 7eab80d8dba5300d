------------------------------ MODULE Composer ------------------------------
(* The composer's buffer (argos-tui/src/composer.rs): lines of symbols, a row
   and a column, and the other end of the selection, if there is one.  Rows
   count from 1; columns from 0, the place before the first symbol. *)
EXTENDS Integers, Sequences

NoAnchor == <<>>
filled(text) == [lines |-> <<text>>, row |-> 1, col |-> Len(text), anchor |-> NoAnchor]
clear == filled(<<>>)

take(line, n) == SubSeq(line, 1, n)
skip(line, n) == SubSeq(line, n + 1, Len(line))
Line(b) == b.lines[b.row]
Cursor(b) == <<b.row, b.col>>
set_cursor(b, c) == [b EXCEPT !.row = c[1], !.col = c[2], !.anchor = NoAnchor]
Before(c, d) == c[1] < d[1] \/ (c[1] = d[1] /\ c[2] <= d[2])

selection(b) ==
  IF b.anchor \in {NoAnchor, Cursor(b)} THEN <<>>
  ELSE IF Before(b.anchor, Cursor(b)) THEN <<b.anchor, Cursor(b)>> ELSE <<Cursor(b), b.anchor>>

(* Defect: the row the selection ends in stays. *)
delete_all_but_last(b) ==
  IF selection(b) = <<>> THEN b ELSE
  LET s == selection(b)[1]  e == selection(b)[2]  n == IF s[1] = e[1] THEN e[1] + 1 ELSE e[1] IN
  set_cursor([b EXCEPT !.lines = SubSeq(@, 1, s[1] - 1) \o <<take(@[s[1]], s[2]) \o skip(@[e[1]], e[2])>> \o SubSeq(@, n, Len(@))], s)
delete_selection(b) ==
  IF selection(b) = <<>> THEN b ELSE
  LET s == selection(b)[1]  e == selection(b)[2] IN
  set_cursor([b EXCEPT !.lines = SubSeq(@, 1, s[1] - 1) \o <<take(@[s[1]], s[2]) \o skip(@[e[1]], e[2])>>
                                 \o SubSeq(@, e[1] + 1, Len(@))], s)

insert_char(b, ch) ==
  LET d == delete_selection(b) IN
  [d EXCEPT !.lines[d.row] = take(@, d.col) \o <<ch>> \o skip(@, d.col), !.col = @ + 1]
insert_newline(b) ==
  LET d == delete_selection(b) IN
  [d EXCEPT !.lines = SubSeq(@, 1, d.row - 1) \o <<take(Line(d), d.col), skip(Line(d), d.col)>> \o SubSeq(@, d.row + 1, Len(@)),
            !.row = @ + 1, !.col = 0]

backspace(b) ==
  IF selection(b) # <<>> THEN delete_selection(b)
  ELSE IF b.col > 0 THEN [b EXCEPT !.lines[b.row] = take(@, b.col - 1) \o skip(@, b.col), !.col = @ - 1]
  ELSE IF b.row = 1 THEN b
  ELSE LET above == b.lines[b.row - 1] IN
       [b EXCEPT !.lines = SubSeq(@, 1, b.row - 2) \o <<above \o Line(b)>> \o SubSeq(@, b.row + 1, Len(@)),
                 !.row = @ - 1, !.col = Len(above)]

-----------------------------------------------------------------------------
(* Moving. *)
Least(m, n) == IF m < n THEN m ELSE n
ToRow(b, row) == [b EXCEPT !.row = row, !.col = Least(@, Len(b.lines[row]))]
step_left(b) ==
  IF b.col > 0 THEN [b EXCEPT !.col = @ - 1]
  ELSE IF b.row > 1 THEN [b EXCEPT !.row = @ - 1, !.col = Len(b.lines[b.row - 1])] ELSE b
step_right(b) ==
  IF b.col < Len(Line(b)) THEN [b EXCEPT !.col = @ + 1]
  ELSE IF b.row < Len(b.lines) THEN [b EXCEPT !.row = @ + 1, !.col = 0] ELSE b
step_up(b) == IF b.row > 1 THEN ToRow(b, b.row - 1) ELSE b
step_down(b) == IF b.row < Len(b.lines) THEN ToRow(b, b.row + 1) ELSE b

Ways == {"Left", "Right", "Up", "Down", "Home", "End"}
Step(b, way) ==
  [Left |-> step_left(b), Right |-> step_right(b), Up |-> step_up(b), Down |-> step_down(b),
   Home |-> [b EXCEPT !.col = 0], End |-> [b EXCEPT !.col = Len(Line(b))]][way]

move(b, way) ==
  IF selection(b) # <<>> /\ way \in {"Left", "Right"}
  THEN set_cursor(b, selection(b)[IF way = "Left" THEN 1 ELSE 2])
  ELSE [Step(b, way) EXCEPT !.anchor = NoAnchor]
select(b, way) ==
  LET e == [Step(b, way) EXCEPT !.anchor = IF @ = NoAnchor THEN Cursor(b) ELSE @] IN
  IF e.anchor = Cursor(e) THEN [e EXCEPT !.anchor = NoAnchor] ELSE e

-----------------------------------------------------------------------------
(* The lines as one text. *)
to_text(b, newline) ==
  LET joined[n \in 1..Len(b.lines)] == IF n = 1 THEN b.lines[1] ELSE joined[n - 1] \o <<newline>> \o b.lines[n]
  IN joined[Len(b.lines)]
offset(b, c) == LET above[n \in 1..c[1]] == IF n = 1 THEN 0 ELSE above[n - 1] + Len(b.lines[n - 1]) + 1
                IN above[c[1]] + c[2]
is_empty(b) == \A n \in 1..Len(b.lines) : b.lines[n] = <<>>
=============================================================================
