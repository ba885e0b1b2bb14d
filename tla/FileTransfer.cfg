SPECIFICATION Spec
CONSTANTS
  Jobs <- AllJobs
  Total = 2
  MaxGen = 2
INVARIANTS DestinationSafe DeliveryIsTrue CleanCancel ConfirmedIsOnDisk
PROPERTIES WorkerSettles
CHECK_DEADLOCK FALSE
