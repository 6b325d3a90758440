SPECIFICATION FairAgentSpec
CONSTANTS MaxPage = 2 MaxResponses = 1 MaxEvents = 5 MaxCommands = 9
INVARIANTS AnswersKept CleanIsWhole InterceptionHeld
PROPERTIES AgentEnds
