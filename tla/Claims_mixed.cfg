SPECIFICATION Spec
CONSTANTS
  Callbacks = {1}
  Contacts = {2}
  Tenants = {t1}
  Campaigns = {c1}
  CampaignOf <- MCCampaignOf
  CallbackMax = 1
  ContactMax = 2
  Attempts = {a1, a2, a3}
  Sources = {s1}
  Threads = {h1, h2}
  EventQueueCap = 2
  MaxEvents = 2
  MaxRestarts = 1
  None = None
SYMMETRY Symmetry
INVARIANTS
  AttemptsAreFenced
  OutcomesAreTrue
PROPERTIES
  OutreachSpec
  OnlyFailureRequeues
  FinalIsFinal
CHECK_DEADLOCK FALSE
