CONSTANTS
  Runs = {r1}
  Plans <- AllPlans
  Users <- AllUsers
  MaxCalls = 2
  MaxCancel = 1
SPECIFICATION FairSpec
INVARIANTS  RunStateFollows UserComponentsKept ScriptSandboxed
PROPERTY RunsFinish
CHECK_DEADLOCK FALSE
