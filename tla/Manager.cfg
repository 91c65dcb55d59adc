\* One nick, three overlapping requests, every spawner.
CONSTANTS
  Nicks = {n1}
  Requests = {r1, r2, r3}
  Spawners = {"local", "ssh", "docker"}
  NoRequest = NoRequest
  MaxFaults = 1
SPECIFICATION Spec
INVARIANTS StoppedIsDead SpawnedIsStoppable
PROPERTY StopsEnd
CHECK_DEADLOCK FALSE
