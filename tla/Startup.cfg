SPECIFICATION Spec
CONSTANTS
    note = note
    letter = letter
    Imported = {note, letter}
    Own = {draft, plan}
    Providers = {openai, gemini}
    None = None
    Snapshots <- ThreeSnapshots
INVARIANTS
    EverythingIsImported
    EditsSurviveImports
    LocalDocumentsStayReachable
PROPERTIES
    SettingsOutliveTheProcess
