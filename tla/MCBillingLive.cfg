SPECIFICATION BillingLiveSpec
CONSTANTS
  Servers = {s1}
  Admins = {a1}
  Plans = {"starter"}
  Unmapped = "unmapped"
  Statuses = {"active", "past_due"}
  Subscribed = {"active"}
  OtherKinds = {"checkout", "other"}
  MaxCheckouts = 1
  MaxEvents = 3
  MaxSeconds = 2
  MaxFaults = 1
PROPERTIES
  EventsTakeEffect
CHECK_DEADLOCK FALSE
