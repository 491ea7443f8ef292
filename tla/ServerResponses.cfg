SPECIFICATION FairSpec
CONSTANTS
  c1 = c1
  c2 = c2
  a1 = a1
  a2 = a2
  e1 = e1
  e2 = e2
  e3 = e3
  Chans = {c1}
  Events = {e1}
  Responses = {r1}
  Cap = 1
  Agents <- MCAgents
  AgentOf <- MCAgentOf
  NoChan = NoChan
  NoAgent = NoAgent
PROPERTIES ResponseRouted
CHECK_DEADLOCK FALSE
