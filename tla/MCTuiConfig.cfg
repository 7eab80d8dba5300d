CONSTANTS
    Edits = {e1}
    Refreshes = {f1}
    Startup = startup
    Logins = {l1}
    CodexLogins = {c1}
    Settings = {openai, codex}
    OAuthProvider = openai
    CodexProvider = codex
    FilesAtStart <- OneFile
    NoConfig = NoConfig
    Empty = Empty
    Garbled = Garbled
    SaveCanFail = TRUE
    MaxStarted = 2
SPECIFICATION FewSpec
INVARIANTS
    PatientEditsAreKept
    FileIsWhole
PROPERTIES
    LoadingEnds
CHECK_DEADLOCK FALSE
