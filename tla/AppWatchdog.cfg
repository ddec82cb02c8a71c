\* More tasks than slots: slots are refused, given up and reused; the TWDT may
\* fail to add one of the tasks.
SPECIFICATION Spec
CONSTANTS
  Tasks = {control, sensor, heartbeat, clock}
  NoTask = NoTask
  SlotCount = 3
  QuorumAll = TRUE
  Unsubscribable = {clock}
INVARIANTS TypeOK MasksAgree OneSlotPerTask
PROPERTIES RtcFeedMeansAllReported HealthyTasksFeedRtc
