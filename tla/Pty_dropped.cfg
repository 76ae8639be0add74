CONSTANTS
  Managed = FALSE
  MaxInbox = 2
  MaxFaults = 1
SPECIFICATION ReconnectingSpec
PROPERTIES MailIsNoticed
CHECK_DEADLOCK FALSE
