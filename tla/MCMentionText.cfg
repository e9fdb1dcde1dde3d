SPECIFICATION CleaningSpec
CONSTANTS
  Runes <- MCRunes
  Space <- MCSpace
  UserIds <- MCUserIds
  BotUserID = "bot"
  MaxInt = 4
  MaxLen = 3
  Texts <- MCTexts
  MentionLists <- MCMentionLists
INVARIANTS
  KeepsTheRest
  PanicsOnlyBackwards

CHECK_DEADLOCK FALSE
