CONSTANTS
  MAX_NPROCESS = 4
  MLFQ_NLEVELS = 2
  GPID_SHELL = 2
  GPID_USER_START = 2
  Contents = {m1}
  NoContent = none
  MaxPid = 3
SPECIFICATION Spec
INVARIANTS NoMissedRendezvous IdleOnlyWhenAllBlocked PicksBestLevel NoStrandedMessage UnmappedOnlyWhileFreed
PROPERTIES DeliveryIsFaithful LifeCycle ImplementsSyncIPC
VIEW GrassView
