CONSTANTS
  Irqs <- TypingIrqs
  Keys = {a, b}
  Typed = {a}
  CreatePeriod = 2
  Rise = 3
  Bottom = 3
  MaxLag = 2
  MaxEvents = 2
  MaxDepth = 2
  PoolSize = 3
  NoKey = NoKey
  NoLetter = NoLetter
SPECIFICATION FairSpec
INVARIANTS TypeOK LettersSound PressNotLost
PROPERTIES StrikesFairly ScoreHonest GameGoesOn
