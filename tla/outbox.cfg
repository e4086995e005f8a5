\* two commands that write, their reruns after lost answers, and the user in the app
CONSTANTS
  p1 = p1  p2 = p2  d1 = d1  d2 = d2  f1 = f1  f2 = f2  f3 = f3  f4 = f4
  l1 = l1  u1 = u1  u2 = u2  old = old  new = new  app = app
  Procs = {p1, p2}
  Jobs <- MCJobs
  DraftIds = {d1, d2}
  FileIds = {f1, f2, f3, f4}
  Users = {u1, u2}
  Bodies = {app}
  StartDrafts <- MCDrafts
  StartMessage <- MCMessage
  MaxReruns = 1
  MaxApp = 1
SPECIFICATION Spec
INVARIANTS DraftPostedOnce OnlyReadyFilesUsed InvitesAreReported
PROPERTIES EditsKeepTheRest
CHECK_DEADLOCK FALSE
