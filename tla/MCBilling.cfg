SPECIFICATION BillingSpec
CONSTANTS
  Servers = {s1}
  Admins = {a1}
  Plans = {"starter"}
  Unmapped = "unmapped"
  Statuses = {"active", "past_due"}
  Subscribed = {"active"}
  OtherKinds = {"checkout", "payment_failed", "paid", "other"}
  MaxCheckouts = 2
  MaxEvents = 3
  MaxSeconds = 2
  MaxFaults = 1
INVARIANTS
  BillingTypeOK
  LimitsMatchBilling
  EventsApplyOnce
  ReflectsNewestSecond
  
CHECK_DEADLOCK FALSE
