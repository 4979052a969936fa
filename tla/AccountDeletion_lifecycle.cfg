\* One user, two deletion requests, two concurrent requests and the job.
CONSTANTS
  None = None
  Job = Job
  User = {u1}
  Row = {r1, r2}
  Tx = {t1, t2}
SPECIFICATION FairSpec
INVARIANTS
  IInv
  ExecutedNeverCancelled
  StatusTellsRequests
PROPERTIES
  DeletedIsFinal
  RequestsResolve
