CONSTANTS
  Lines = 3
  MaxMail = 3
SPECIFICATION Spec
INVARIANTS TypeOK Rendezvous Balanced ErrorsStayHome
PROPERTIES IsRemoteCall Answered
CHECK_DEADLOCK FALSE
