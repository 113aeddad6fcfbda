CONSTANTS
  MaxEntries = 2
  MaxRequests = 2
  SEND_CONFIRM_DELAY = 3
SPECIFICATION Spec
INVARIANT IdleAllowsRecipients
