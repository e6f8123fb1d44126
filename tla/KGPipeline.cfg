SPECIFICATION Spec
CONSTANTS
  None = None
  Lower <- MCLower
  Checkable = {"must_not_exceed"}
  GuessType <- MCGuess
  SubjectOf <- MCSubjectOf
  Blank = {"blank"}
  Drafts <- MCDrafts
  Answers <- MCAnswers
  Places <- MCPlaces
  MeasuredSubjects <- MCSubjects
  Times = {1, 2}
  NodeEdits <- MCNodeEdits
  EdgeEdits <- MCEdgeEdits
  Keys = {"regulator", "stranger"}
  Anchors = {"regulator"}
  AllowFlat = TRUE
  MaxSigned = 2
  MaxEdits <- MCMaxEdits
INVARIANTS
  RunsWhatWasSigned
  QualitativeAtTierOne
  AppliesWhereWritten
  ConversionKeepsRules
  ExtractionIsWhole
CHECK_DEADLOCK FALSE
