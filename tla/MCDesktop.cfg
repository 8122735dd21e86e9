SPECIFICATION Spec
CONSTANTS
  None = None
  Registrations <- MCRegistrations
  Arguments <- MCArguments
  EinsArguments <- MCEinsArguments
  PastTable = {"z"}
  MaxArguments = 3
  Places = {1, 2, 3}
  Sizes = {7, 8}
  Start = 2
  Width = 7
  MaxInputs = 4
INVARIANTS ReadsAsGiven RecordsWhatIsHeld CameraFollows StartsAsAsked
PROPERTY StopsInTheEnd
CHECK_DEADLOCK FALSE
