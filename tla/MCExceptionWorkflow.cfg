SPECIFICATION Spec
CONSTANTS
    sales = sales
    worker = worker
    verifier = verifier
    salesFile = salesFile
    workerFile = workerFile
    verifierFile = verifierFile
    Users = {sales, worker, verifier}
    Actions = {a1, a2}
    Files = {salesFile, workerFile, verifierFile}
    FileOwner <- MCFileOwner
    NoUser = NoUser
    NoFile = NoFile
CHECK_DEADLOCK FALSE
INVARIANTS TypeOK ClosedOnVerifiedWork
PROPERTY TrailIsKept
