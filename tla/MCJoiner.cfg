SPECIFICATION Spec
CONSTANTS
  Names <- MCNames
  Fold <- MCFold
  Party <- MCParty
  Pages <- MCPages
  Answers <- MCAnswers
INVARIANTS CardsAreOurs VerdictHasWitness ImageIsOwn
CHECK_DEADLOCK FALSE
