SPECIFICATION FairSpec
CONSTANTS
  Letter = {"a"}
  Digit = {"0"}
  Stray = {"?"}
  Keywords <- Reserved
  Texts <- ShortTexts
  MAXTOKSIZE = 3
  Width = 3
  MaxLineno = 7
INVARIANTS TokensAreLexemes LinesCounted
PROPERTY Scanned
CHECK_DEADLOCK FALSE
