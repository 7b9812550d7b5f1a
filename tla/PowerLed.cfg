SPECIFICATION WatchedFairSpec
CONSTANTS
  HardwareInfos <- MCBoards
  Delay = 2
  Settle = 2
  Heartbeat = 4
  Restore = 1
INVARIANTS
  OldBoardsUntouched
  LoopsBounded
  BeliefSound
  SettleCoversRestore
  AnsweredPromptly
  HeartbeatHeals
PROPERTIES
  BriefFlapsIgnored
  ResumeIsHandled
  LedSettles
  StopEndsThread
