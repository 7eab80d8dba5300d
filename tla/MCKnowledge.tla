----------------------------- MODULE MCKnowledge -----------------------------
(* One behaviour is about the files of a wiki while tasks write and read them,  *)
(* another about the links and relations of its pages, another about the text  *)
(* of one page: the three share no state, and each leaves the others as they   *)
(* are at the start.                                                           *)
EXTENDS WikiVectors, OkfBundle, OkfText, TLC
CONSTANTS source, note, report1, report2, report_2
MCPaths == {"sources/text", "sources/note", "report", "report-1", "report-2", "report-2-3"}
MCSource == [s \in Sources |-> IF s = source THEN "sources/text" ELSE "sources/note"]
(* Two workflows called Report, with the ids 1 and 2, and one called Report 2. *)
MCSlug == [w \in Workflows |-> IF w = report_2 THEN "report-2" ELSE "report"]
MCId == [w \in Workflows |-> CASE w = report1 -> "report-1" [] w = report2 -> "report-2" [] OTHER -> "report-2-3"]
AnyTask == Permutations(Tasks)

MCListing == << <<"note">>, <<"sources", "note">>, <<"workflows", "daily">> >>
MCWorkflowPaths == {<<"workflows", "daily">>}
MCWithin == {<<p, p>> : p \in PagePaths} \cup {<< <<"note">>, <<"sources", "note">> >>}

wikiVars == <<vars, vectors, work, edits>>
WikiRests == op = [t \in Tasks |-> Idle] /\ work = [r \in Readers |-> Waiting] /\ edits = 0
KnowledgeNext ==
  \/ changes = 0 /\ text = <<>> /\ VectorNext /\ UNCHANGED <<bundleVars, text>>
  \/ WikiRests /\ text = <<>> /\ BundleNext /\ UNCHANGED <<wikiVars, text>>
  \/ WikiRests /\ changes = 0 /\ TextNext /\ UNCHANGED <<wikiVars, bundleVars>>
KnowledgeInit == VectorInit /\ BundleInit /\ TextInit
KnowledgeSpec == KnowledgeInit /\ [][KnowledgeNext]_<<wikiVars, bundleVars, text>>
=============================================================================
