CONSTANTS
  Challenge = {"note", "renewal", "code", "revision"}
  Form = {"code", "revision"}
  Check = {"renewal"}
  Left = {"revision"}
  Cancelable = {"note", "renewal", "code", "revision"}
  Prompt = {1, 2}
  MaxSubmissions = 2
SPECIFICATION FairSpec
CHECK_DEADLOCK FALSE
INVARIANTS ObserversKnowTheEnd
PROPERTIES AnswersAreRight RightValuesPass
