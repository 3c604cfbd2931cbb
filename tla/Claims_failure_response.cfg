SPECIFICATION Spec
CONSTANTS
  Callbacks = {}
  Contacts = {1}
  Tenants = {t1}
  Campaigns = {c1}
  CampaignOf <- MCCampaignOf
  CallbackMax = 2
  ContactMax = 3
  Attempts = {a1, a2, a3}
  Sources = {s1}
  Threads = {h1}
  EventQueueCap = 2
  MaxEvents = 4
  MaxRestarts = 0
  None = None
SYMMETRY Symmetry
PROPERTIES
  FailuresAreNotRedialled
CHECK_DEADLOCK FALSE
