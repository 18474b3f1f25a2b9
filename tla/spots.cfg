CONSTANTS
 None = None
 HopBands = {"a", "b", "c"}
 Coordinated <- TwoSlots
 Enabled0 = {"a", "c"}
 RxOnly0 = {"c"}
 Bands = {"a", "b"}
 MaxDialog = 1
 MaxHand = 1
 MaxButtons = 1
 Rows = 3
 Cols = 3
 Gaps <- TwoGaps
 Pcts = {0, 25, 40, 80}
 MaxRounds = 2
 MaxPercents = 1
 MaxSpots = 2
 MaxIntervals = 2
 MaxReplays = 1
 MaxEvents = 1
 MaxChanges = 2
 MaxQueue = 2
SPECIFICATION MCSpec
INVARIANTS OnHoppedBand ScheduleKept SpotsTrue
PROPERTIES EveryBand SpotsTold
CHECK_DEADLOCK FALSE
