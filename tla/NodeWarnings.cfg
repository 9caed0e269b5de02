\* Every case of the parts, with up to two collectors failing.
SPECIFICATION AnswerSpec
CONSTANTS
  Inputs <- Cases
  MaxFailing = 2
INVARIANTS DriveJudged FullDiskOnce CertWarnedOnce KernelFaultCountedOnce EtcdFlagged FailureCostsOneSource
CHECK_DEADLOCK FALSE
