CONSTANTS
 Drone = {d1, d2}
 Reporter = {d1}
 Ttl = 2
 Thresholds = {1, 3}
 MaxAge = 3
 Nothing = Nothing
 MaxKills = 1
 MaxRestarts = 2
 Class = {"car", "man"}
 Object = {"car1", "car2", "man1"}
 ClassOf <- ClassTable
 MaxBoxes = 2
 Width = {1, 4, 5, 6}
 Engine = {telemetry, object}
 LocalClient = TRUE
 RemoteClient = TRUE
SPECIFICATION Parts
CHECK_DEADLOCK FALSE
INVARIANTS TypesOK LiveListed OnePerClass VectorInRange TargetsFollow
PROPERTIES PagesRaiseRarely
