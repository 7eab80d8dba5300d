------------------------------ MODULE OkfText ------------------------------
(* A wiki page as text: frontmatter between two lines of three dashes, then
   the body (argos-knowledge/src/parser.rs; the types of concepts in
   argos-core/src/okf.rs).  A text is the sequence of its lines: a newline
   ends every line but the last, which is empty when the text ends with one. *)
EXTENDS SequencesExt

CONSTANTS
  TypeNames,   \* how types are spelled in frontmatter
  BuiltIn,     \* the spellings the program has a type of its own for
  MaxLines     \* bound: the lines of a text

ASSUME BuiltInAssumption == BuiltIn \subseteq TypeNames

VARIABLE text

(* A line, by what the parser tells apart: three dashes, nothing, the mapping
   of a page with a type of this name and a title of one line, the mapping of
   one whose title goes on in indented lines, such a line (it too has three
   dashes, after the indentation), or any other.  cr: it ends with \r. *)
Line == [kind : {"dashes", "blank", "indented", "other"}, name : {"-"}, cr : BOOLEAN]
          \cup [kind : {"mapping", "mapping |"}, name : TypeNames, cr : BOOLEAN]
line(kind) == [kind |-> kind, name |-> "-", cr |-> FALSE]

(* ConceptType and its spelling. *)
deserialize(name) == IF name \in BuiltIn THEN <<"ConceptType", name>> ELSE <<"Other", name>>
serialize(type) == type[2]

(* What serde_yaml writes for a frontmatter, and what it makes of lines: the
   frontmatter they are, or nothing.  It indents the lines of a long title. *)
Frontmatters == [type : {deserialize(n) : n \in TypeNames}, title : {"short", "with dashes"}]
to_string(f) ==
  IF f.title = "short" THEN << [line("mapping") EXCEPT !.name = serialize(f.type)] >>
                       ELSE << [line("mapping |") EXCEPT !.name = serialize(f.type)], line("indented") >>
without_blanks(lines) ==
  LET kept[n \in 0..Len(lines)] ==
        IF n = 0 THEN <<>>
        ELSE IF lines[n].kind = "blank" THEN kept[n - 1] ELSE Append(kept[n - 1], [lines[n] EXCEPT !.cr = FALSE])
  IN kept[Len(lines)]
from_str(lines) == {f \in Frontmatters : to_string(f) = without_blanks(lines)}

(* take_line drops the \r of "\r\n"; the last line is returned whole. *)
IsDelimiter(t, i) == t[i].kind = "dashes" /\ (t[i].cr => i < Len(t))
(* Defect: the frontmatter ends at the last line of dashes. *)
LastClosing(t) == {i \in 2..Len(t) : IsDelimiter(t, i) /\ \A j \in (i + 1)..Len(t) : ~IsDelimiter(t, j)}
Closing(t) == {i \in 2..Len(t) : IsDelimiter(t, i)}

(* trim_start_matches: the text from its first line that is not blank. *)
Trimmed(lines) ==
  LET written == {i \in 1..Len(lines) : lines[i].kind # "blank"} IN
  IF written = {} THEN <<line("blank")>> ELSE SubSeq(lines, Min(written), Len(lines))

split(t) ==
  LET close == Min(Closing(t)) IN
  [fm_yaml |-> SubSeq(t, 2, close - 1), body |-> Trimmed(SubSeq(t, close + 1, Len(t)))]

(* The concepts a text is parsed to: one, or none if it is refused. *)
parse(t) ==
  IF t = <<>> \/ ~IsDelimiter(t, 1) \/ Closing(t) = {} THEN {}
  ELSE LET parts == split(t) IN {[frontmatter |-> f, body |-> parts.body] : f \in from_str(parts.fm_yaml)}

write(concept) == <<line("dashes")>> \o to_string(concept.frontmatter) \o <<line("dashes"), line("blank")>> \o concept.body

(* The text grows as its author types. *)
TextInit == text = <<>>
Type(l) == Len(text) < MaxLines /\ (\A i \in 1..Len(text) : text[i].cr = l.cr) /\ text' = Append(text, l)
TextNext == \E l \in Line : Type(l)
TextSpec == TextInit /\ [][TextNext]_text

(* Pages survive being written (parser.rs:6, and what ingest and import rely
   on): whatever text is parsed, writing the concept and parsing it again gives
   the same concept, though the title may hold dashes; and a concept with this
   text for a body, if it does not begin with a blank line, is read back. *)
PagesSurviveWriting ==
  /\ \A c \in parse(text) : parse(write(c)) = {c}
  /\ text # <<>> /\ Trimmed(text) = text =>
       \A f \in Frontmatters : LET c == [frontmatter |-> f, body |-> text] IN parse(write(c)) = {c}
=============================================================================
