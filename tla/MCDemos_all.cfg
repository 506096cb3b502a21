CONSTANTS
  StopMax = 2
  Others = {"job1", "job2"}
  Length = 2
  Lines = 4
  Block = 3
SPECIFICATION Spec
INVARIANTS ZombieReported CleanedUp Redirected ForkOutput BufferLost
PROPERTY ProgramsLeave
CHECK_DEADLOCK FALSE
