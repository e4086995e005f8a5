\* one command, its listener, the network and the app
CONSTANTS
  Jobs <- MCJobs
  FrameCap = 1
  MaxLooks = 3
SPECIFICATION Spec
INVARIANTS PressedIsNotRetryable KnownFormsAreSettled DeletionIsConfirmed
PROPERTIES BothEnd
