SPECIFICATION FairSpec
CONSTANTS
  Callers = {c1, c2}
  MaxTexts = 4
INVARIANTS
  TypeOK
  InterruptedNotCurrent
  NewestTextKept
PROPERTIES
  LateInterruptHarmless
  ImplementsLatestTextWins
  NewestTextStarts
