SPECIFICATION Spec
CONSTANTS
  Jobs <- MCJobs
  Window = 3
  MaxArrivals = 7
INVARIANT ReturnsRecognised
CHECK_DEADLOCK FALSE
