SPECIFICATION Spec
CONSTANTS
  Base = 2
  Nodes = {"server", "client"}
  h1 = h1
  h2 = h2
  Hosts <- MCHosts
  INADDR_ANY = INADDR_ANY
  LOOPBACK = LOOPBACK
  Names <- MCNames
  Lookup <- MCLookup
  ListenPorts = {CHAT_PORT}
  Calls <- MCCalls
  MaxAsked <- MCMaxAsked
  MaxPeers <- MCMaxPeers
  CHAT_PORT = CHAT_PORT
  Platforms = {"Unix64", "Windows64", "Unix32"}
  Layout <- MCLayout
  Deployments <- MCDeployments
  Schema <- MCSchema
  KEEP_ALIVE = 15
  Windows <- MCWindows
  id = 1
  RECV_SIZE = 35
  MaxDatagram = 42
  MaxLength <- MCMaxLength
  Junk = {0, 200}
INVARIANT TypeOK FaithfulValues BindExplained UnpackExplained AnswersMatched
CHECK_DEADLOCK FALSE
