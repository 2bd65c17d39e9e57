SPECIFICATION BillingSpec
CONSTANTS
  Servers = {s1}
  Admins = {a1}
  Plans = {"starter"}
  Unmapped = "unmapped"
  Statuses = {"active"}
  Subscribed = {"active"}
  OtherKinds = {"checkout", "payment_failed", "paid", "other"}
  MaxCheckouts = 1
  MaxEvents = 1
  MaxSeconds = 1
  MaxFaults = 1
INVARIANTS
  AuditedWithItsEffect
CHECK_DEADLOCK FALSE
