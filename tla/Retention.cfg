\* Two relays overlap and fail; one mail cannot be sent; a sweep deletes.
CONSTANTS
  Events = {1, 2}
  Undeliverable = {2}
  Relays = {w1, w2}
  Notifiers = {n1}
  BatchSize = 1
  MaxAttempts = 2
  MaxFaults = 2
  NoEvent = NoEvent
  w1 = w1  w2 = w2  n1 = n1
  RetentionBatch = 1
  MaxRounds = 1
SPECIFICATION FairRetainSpec
INVARIANTS DeletedIsDone PushedTwiceByFailure MailIsNotLost
PROPERTIES KeepsDelivery OldGoesAway MailGoesOut PendingIsResolved
CHECK_DEADLOCK FALSE
