SPECIFICATION Spec
CONSTANTS
  Accounts = {a1}
  PaidTiers = {"pro", "ultimate"}
  Grace = 2
  Reminders = {0, 1}
  Month = 2
  Never = Never
  Facts <- FactKinds
  MaxFacts = 3
  MaxDay = 3
INVARIANTS GraceIsKept RemindersRecorded PaidIsServed GoneIsFree
CHECK_DEADLOCK FALSE
