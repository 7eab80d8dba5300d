----------------------------- MODULE OkfBundle -----------------------------
(* A wiki as a graph of pages: the links its bodies hold and how they resolve,
   the typed relations of its frontmatter, lint and query
   (argos-knowledge/src/links.rs, lint.rs, query.rs; crosslinks.rs of
   argos-workflow-intelligence).  Pages are written by the author, or by the
   program when it adds or removes a relation. *)
EXTENDS Naturals, SequencesExt

CONSTANTS
  Listing,      \* the paths a page may have, in the order they are listed
  Contents,     \* what titles and bodies may be: sets of words
  WorkflowPaths,\* the paths of pages of type workflow
  Within,       \* pairs of paths: the first as a string occurs in the second
  WikiAnchors,  \* TRUE: the author also writes [[#heading]]
  MAX_CONTEXT_CONCEPTS,
  MaxChanges      \* bound: how often the wiki is changed

(* A path is the sequence of its directories and its name without ".md". *)
PagePaths == Range(Listing)
Kinds == {"contradicts", "extends"}

(* Pages are found by listing directories: no name is "." or "..", and none has
   two pages. *)
ASSUME ListingAssumption ==
  /\ Listing \in Seq(PagePaths) /\ IsInjective(Listing)
  /\ \A p \in PagePaths : p \in Seq(STRING) /\ p # <<>> /\ \A i \in DOMAIN p : p[i] \notin {".", ".."}
ASSUME ContentsAssumption == (\A words \in Contents : IsFiniteSet(words)) /\ MAX_CONTEXT_CONCEPTS \in Nat
ASSUME WithinAssumption == Within \subseteq PagePaths \X PagePaths /\ \A p \in PagePaths : <<p, p>> \in Within

Words == UNION Contents

VARIABLES
  pages,    \* per path, no page or the one there
  listed,   \* the paths index.md has a line for
  meant,    \* history: the pages the author of a page links to
  related,  \* history: the relations in force, <<from, to, kind>>
  changes

bundleVars == <<pages, listed, meant, related, changes>>

(* A link as it is written: the components of a target relative to its page,
   a heading of its own page, or a target that is external, absolute or no page. *)
Link == [form : {"md", "wiki"}, to : {"page", "heading", "elsewhere"}, parts : Seq(STRING)]
(* A page: whether its text can be parsed, its title and body as words and
   links, and its relations in order; None and an empty block are one to every
   reader. *)
Written == {p \in PagePaths : pages[p] # {}}
The(p) == CHOOSE c \in pages[p] : TRUE

BundleInit ==
  /\ pages = [p \in PagePaths |-> {}] /\ listed = {} /\ changes = 0
  /\ meant = [p \in PagePaths |-> {}] /\ related = {}

(* How an author writes a link from one page to another: up as far as their
   paths differ, then down; Markdown links often begin with "./". *)
common(from, to) == {i \in 0..(Len(from) - 1) : i < Len(to) /\ SubSeq(from, 1, i) = SubSeq(to, 1, i)}
relative(from, to) ==
  LET shared == Max(common(from, to)) IN [i \in 1..(Len(from) - 1 - shared) |-> ".."] \o SubSeq(to, shared + 1, Len(to))
LinkTo == [form \in {"md", "wiki"} |-> [from \in PagePaths |-> [to \in PagePaths |->
  [form |-> form, to |-> "page", parts |-> (IF form = "md" THEN <<".">> ELSE <<>>) \o relative(from, to)]]]]
Asides == {[form |-> f, to |-> t, parts |-> <<>>] : f \in {"md", "wiki"}, t \in {"heading", "elsewhere"}}
            \ (IF WikiAnchors THEN {} ELSE {[form |-> "wiki", to |-> "heading", parts |-> <<>>]})

(* Defect: ".." is dropped like "." *)
normalize_up(parts) == SelectSeq(parts, LAMBDA c : c \notin {".", ".."})
(* Component by component: "." stays, ".." goes up unless at the top. *)
normalize_rel(parts) ==
  LET out[n \in 0..Len(parts)] ==
        IF n = 0 THEN <<>>
        ELSE CASE parts[n] = "." -> out[n - 1]
               [] parts[n] = ".." -> IF out[n - 1] = <<>> THEN <<>> ELSE Front(out[n - 1])
               [] OTHER -> Append(out[n - 1], parts[n])
  IN out[Len(parts)]

(* Nothing is left of [[#heading]] without its heading but the ".md" that is
   added: a page with an empty name. *)
clean_target(link) ==
  CASE link.to = "elsewhere" -> {}
    [] link.to = "page" -> {link.parts}
    [] link.to = "heading" /\ link.form = "wiki" -> {<<"">>}
    [] link.to = "heading" /\ link.form = "md" -> {}

resolve_relative(from, parts) == normalize_rel(Front(from) \o parts)
(* The pages the links of a page lead to, and those some link leads to. *)
neighbors(p) == {resolve_relative(p, parts) : parts \in UNION {clean_target(l) : l \in The(p).links}}
Linked == UNION {neighbors(p) : p \in Written}
orphans == Written \ Linked
find_missing_pages == Linked \ Written
find_missing_index_entries == {p \in Written : ~\E q \in listed : <<p, q>> \in Within}

get_relations(p) == The(p).relates_to
RelationsOf(p, kind) == {r.page : r \in {s \in Range(get_relations(p)) : s.rel = kind}}
find_contradictions == {pq \in Written \X PagePaths : pq[2] \in RelationsOf(pq[1], "contradicts")}
(* Those with a workflow on either side. *)
IsWorkflow(p) == p \in Written \cap WorkflowPaths
find_contradictions_in_bundle == {pq \in find_contradictions : IsWorkflow(pq[1]) \/ IsWorkflow(pq[2])}

(* One page that cannot be read fails the whole of lint. *)
AllReadable == \A p \in Written : The(p).readable
LintReport ==
  [contradictions |-> find_contradictions, orphans |-> orphans, missing_pages |-> find_missing_pages,
   missing_index_entries |-> find_missing_index_entries]
is_healthy(report) == \A list \in DOMAIN report : report[list] = {}

(* A query skips what it cannot read, and takes the pages that share most words
   with the question, in the order they are listed among equals. *)
Score(p, question) == Cardinality(The(p).words \cap question)
Position(p) == CHOOSE i \in 1..Len(Listing) : Listing[i] = p
Scored(question) == {p \in Written : The(p).readable /\ Score(p, question) > 0}
Before(question, p, q) == \/ Score(p, question) > Score(q, question)
                          \/ Score(p, question) = Score(q, question) /\ Position(p) < Position(q)
take(question) == Min({MAX_CONTEXT_CONCEPTS, Cardinality(Scored(question))})
(* Defect: the first pages listed are taken before they are ranked. *)
select_first(question) == SubSeq(SelectSeq(Listing, LAMBDA p : p \in Scored(question)), 1, take(question))
(* Sorted, a page has before it as many as come before it. *)
Ahead(question, p) == Cardinality({q \in Scored(question) : Before(question, q, p)})
select_relevant(question) == [i \in 1..take(question) |-> CHOOSE p \in Scored(question) : Ahead(question, p) = i - 1]

(* The relations that do not lead to the page. *)
retained(relations, page) ==
  LET kept[n \in 0..Len(relations)] ==
        IF n = 0 THEN <<>>
        ELSE IF relations[n].page = page THEN kept[n - 1] ELSE Append(kept[n - 1], relations[n])
  IN kept[Len(relations)]

Change == changes < MaxChanges /\ changes' = changes + 1

(* The author writes a page, with links of one form to some pages, of which
   some may not be there, and asides; its relations stay as they are. *)
WritePage(p, tos, form, words) ==
  /\ Change
  /\ pages' = [pages EXCEPT ![p] =
       {[readable |-> TRUE, words |-> words, relates_to |-> IF p \in Written THEN get_relations(p) ELSE <<>>,
         links |-> Asides \cup {LinkTo[form][p][q] : q \in tos}]}]
  /\ meant' = [meant EXCEPT ![p] = tos]
  /\ UNCHANGED <<listed, related>>

(* A text that cannot be parsed: the page is still there, and still listed. *)
Tear(p) ==
  /\ Change /\ p \in Written /\ The(p).readable
  /\ pages' = [pages EXCEPT ![p] = {[The(p) EXCEPT !.readable = FALSE]}]
  /\ UNCHANGED <<listed, meant, related>>

ListInIndex(p) == Change /\ p \in Written \ listed /\ listed' = listed \cup {p} /\ UNCHANGED <<pages, meant, related>>

(* Defect: a relation that is there already is added again. *)
add_again(p, q, kind) ==
  /\ Change /\ p \in Written /\ The(p).readable
  /\ pages' = [pages EXCEPT ![p] = {[The(p) EXCEPT !.relates_to = Append(@, [page |-> q, rel |-> kind])]}]
  /\ related' = related \cup {<<p, q, kind>>}
  /\ UNCHANGED <<listed, meant>>
add_relation(p, q, kind) ==
  LET relation == [page |-> q, rel |-> kind] IN
  /\ Change /\ p \in Written /\ The(p).readable
  /\ pages' = [pages EXCEPT ![p] =
       {[The(p) EXCEPT !.relates_to = IF Contains(@, relation) THEN @ ELSE Append(@, relation)]}]
  /\ related' = related \cup {<<p, q, kind>>}
  /\ UNCHANGED <<listed, meant>>

(* Every relation to the page goes, of whatever kind. *)
remove_relation(p, q) ==
  /\ Change /\ p \in Written /\ The(p).readable
  /\ pages' = [pages EXCEPT ![p] = {[The(p) EXCEPT !.relates_to = retained(@, q)]}]
  /\ related' = related \ ({p} \X {q} \X Kinds)
  /\ UNCHANGED <<listed, meant>>

BundleNext ==
  \/ \E p \in PagePaths, tos \in SUBSET PagePaths, form \in {"md", "wiki"}, words \in Contents : WritePage(p, tos, form, words)
  \/ \E p \in PagePaths : Tear(p) \/ ListInIndex(p)
  \/ \E p, q \in PagePaths : remove_relation(p, q) \/ \E kind \in Kinds : add_relation(p, q, kind)
BundleSpec == BundleInit /\ [][BundleNext]_bundleVars

(* Lint reads the links as they were meant (lint.rs; links.rs, resolve_relative):
   whichever way authors write them, from whichever directory, a page is
   reported as an orphan iff nobody links to it, and a page as missing iff
   somebody links to it and it is not there. *)
LintSeesWhatWasMeant ==
  LET linked == UNION {meant[p] : p \in Written} IN
  AllReadable => LintReport.orphans = Written \ linked /\ LintReport.missing_pages = linked \ Written

(* Relations are in force once, until they are removed, through rewritten pages
   (links.rs:74): a page's block has each of them once; the contradictions
   reported for workflows are all of them that touch one. *)
RelationsAreInForceOnce ==
  /\ \A p \in Written : IsInjective(get_relations(p))
  /\ \A kind \in Kinds : {pq \in Written \X PagePaths : pq[2] \in RelationsOf(pq[1], kind)} = {pq \in PagePaths \X PagePaths : <<pq[1], pq[2], kind>> \in related}
  /\ find_contradictions_in_bundle =
       {pq \in PagePaths \X PagePaths : <<pq[1], pq[2], "contradicts">> \in related /\ {pq[1], pq[2]} \cap Written \cap WorkflowPaths # {}}

(* A query is answered from the best pages there are (query.rs:93): as many as
   the context takes, and no page that can be read and is left out shares more
   of the question. *)
BestPagesAreCited ==
  \A question \in SUBSET Words :
    LET cited == Range(select_relevant(question)) IN
    /\ Cardinality(cited) = Min({MAX_CONTEXT_CONCEPTS, Cardinality(Scored(question))})
    /\ \A p \in cited, q \in Scored(question) \ cited : Score(p, question) >= Score(q, question)
=============================================================================
