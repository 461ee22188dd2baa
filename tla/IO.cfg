\* A file and the two standard streams that can be written to.
SPECIFICATION Spec
CONSTANTS
  stdout = stdout
  stderr = stderr
  Stream = {f1, stdout, stderr}
  MaxItems = 2
INVARIANTS NoHandleLeak FailureSticks ReportsExact ErrnoExplained
