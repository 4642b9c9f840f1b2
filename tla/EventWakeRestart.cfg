SPECIFICATION WakeSpec
CONSTANTS
  Profiles = {p, q}
  Foreign = f
  FirstMark = 2
  Places = 1
  MaxMail = 2
  MaxFaults = 1
  MaxCrashes = 0
PROPERTY MailReachesDrain
CHECK_DEADLOCK FALSE
