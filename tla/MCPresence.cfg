INIT PresenceInit
NEXT PresenceNext
CONSTANTS
  Actors = {"agent", "client"}
  Agent = "agent"
  MaxActs = 4
INVARIANTS
  LightHonest
CHECK_DEADLOCK FALSE
