CONSTANTS
  MaxFields = 3
  Retries = 4
  MaxReplans = 1
  Tiers <- PrimaryAndFast
  Names = {"a", "d"}
  MaxUser = 1
  MaxFaults = 1
  MaxEdits = 1
  Jobs = {1, 2}
  MaxBack = 1
  MaxMoves = 2
  MaxTools = 1
  Threads = {t1, t2}
  Writers = {w1, w2}
  MaxCalls = 2
  MaxSaves = 2
  MaxTokens = 1
  Ttl = 1
  MaxTime = 1
  Requests = {1, 2}
  Mic = {1}
  Aloud = {2}
  VoiceJobs = {1, 2}
  MaxOthers = 1
  AutoIds = {1, 2}
  MaxTurns = 3
  MaxElsewhere = 1
  MaxMishaps = 1
SPECIFICATION Spec
SYMMETRY Symmetry
INVARIANT WhatRunsIsSound
INVARIANT PlansStayInBounds
INVARIANT ControlPlaneUntouched
INVARIANT FilesSurvive
INVARIANT NothingUnasked
INVARIANT UpkeepIsHarmless
INVARIANT SeenOrSentBack
INVARIANT SpeechIsShared
INVARIANT NoAudioLeft
INVARIANT VoiceByConsent
INVARIANT VoiceIsTrue
INVARIANT DoneAsTold
PROPERTY UnparsableIsUnfinished
PROPERTY DryRunIsHonest
PROPERTY RevisionsKeepTheDraft
CHECK_DEADLOCK FALSE
