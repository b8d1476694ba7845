CONSTANTS
  Updates = {u1, u2, u3}
  Malformed = {u3}
  MaxFaults = 3
SPECIFICATION FairSpec
INVARIANT WebhookTypeOK
INVARIANT AgainOnlyIfAckLost
PROPERTY LostOnlyInCrash
PROPERTY StartDelivers
CHECK_DEADLOCK FALSE
