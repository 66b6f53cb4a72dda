SPECIFICATION FairSpec
CONSTANTS
  Kinds = {"get", "bad", "finished", "mtr"}
  RcLines <- ShortRcFile
  Senders = {"mtr"}
  MaxDatagrams = 2
INVARIANTS AnswersOwn
PROPERTIES EveryCommandAnswered RequestsServed RunningRadioStops
CHECK_DEADLOCK FALSE
