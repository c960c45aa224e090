CONSTANTS
  N = 3
  Leaving = 2
  Trackers = {t1,t2}
  MaxRetries = 1
  MaxRestarts = 1
SPECIFICATION Spec
CHECK_DEADLOCK FALSE
INVARIANT TypeOK
INVARIANT ShownIsTrue
INVARIANT NotifiedIsDelivered
INVARIANT StillFollowed
INVARIANT CountedOnce
PROPERTY DeliveryIsShown
PROPERTY RefundIsShown
