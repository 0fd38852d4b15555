SPECIFICATION FairSpec
CONSTANTS
  Hits = {h1, h2}
  LocalDigits = 1
  Texts <- ShortTexts
INVARIANTS
  TypeOK
  AckWhateverFails
  ProductionCallbacksAreListed
  BareAnswersAreKnown
  PhoneIsRead
PROPERTIES
  ReadyIsTrue
  HitsEnd
