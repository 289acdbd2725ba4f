SPECIFICATION HookSpec
CONSTANTS
  HookTexts <- ShortTexts
  Words <- SixWords
  MaxHops = 2
CHECK_DEADLOCK FALSE
INVARIANTS
  HookTypeOK
  Clean
  InnocentSentencesKept
