SPECIFICATION DeliverySpec
CONSTANTS
  Inputs <- MCInputs
  Answers <- MCAnswers
  RichSize = 5
  TextSize = 2
  TextCap = 3
  MaxBytes = 2
  PickerText <- MCPickerText
INVARIANTS ShownOnceInOrder AnsweredOrTold OnlyWholeInput
CHECK_DEADLOCK FALSE
