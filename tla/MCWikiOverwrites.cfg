SPECIFICATION KnowledgeSpec
CONSTANTS
  source = source  note = note  report1 = report1  report2 = report2  report_2 = report_2
  Tasks = {t1}
  Readers = {r1}
  MaxEdits = 0
  Sources = {source, note}
  Workflows = {report1, report2, report_2}
  Paths <- MCPaths
  source_path <- MCSource
  slug_path <- MCSlug
  id_path <- MCId
  Listing <- MCListing
  WorkflowPaths <- MCWorkflowPaths
  Within <- MCWithin
  Contents = {{"invoice"}, {"invoice", "report"}}
  WikiAnchors = FALSE
  MAX_CONTEXT_CONCEPTS = 1
  MaxChanges = 0
  TypeNames = {"workflow", "note"}
  BuiltIn = {"workflow"}
  MaxLines = 0
INVARIANT ImportedWorkflowsStay
CHECK_DEADLOCK FALSE
