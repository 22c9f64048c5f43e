CONSTANTS
  Pcbs = {p1, p2}
  NoPcb = NoPcb
  FirstWait = 1
  UploadWait = 3
  WaitBeforeClose = 0
  MaxWriteErr = 1
  MaxBatch = 2
  Pieces = 2
  Troubles = {"server_closes"}
SPECIFICATION FairSpec
PROPERTIES UploadsRecur
