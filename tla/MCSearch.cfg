SPECIFICATION FairSpec
CONSTANTS
  Calls = {c1, c2}
  NoCall = NoCall
  Queries = {"q1"}
  Posts <- MCPosts
  Terms <- MCTerms
  Detail <- MCDetail
  SitePages <- MCSite
  LinkPages <- MCLinks
  ImagePages <- MCImages
  NoteOf <- MCNoteOf
  MaxRetries = 2
  MaxMishaps = 1
INVARIANTS NothingLeftBehind AnswersPassFilters UsableRowServes
PROPERTIES CallsEnd
CHECK_DEADLOCK FALSE
