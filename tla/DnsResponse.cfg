CONSTANTS
  MAX_NAME = 255
  LowerCase <- MCLowerCase
  ACME_CHALLENGE_LABEL <- MCAcme
  Messages <- MCMessages
  Values <- MCValues
  V4 <- MCV4
  V6 <- MCV6
  MAX_ANSWERS = 2
SPECIFICATION RSpec
INVARIANTS ReadingEnds RTypeOK NameIsWhole EchoesQuestion ParentIsName NamesAreRead DecisionsAgree MatchesQuery AnswersReadBack DataReadsBack
