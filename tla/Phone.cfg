\* Two machines, two sockets of three, a session with a prompt, one message.
CONSTANTS
  home = home  work = work  c1 = c1  c2 = c2  c3 = c3  s1 = s1  None = None
  Hosts = {home, work}
  Stored = {home}
  Sockets = {c1, c2, c3}
  MaxSockets = 2
  Machine <- MCMachine
  First <- MCFirst
  Sessions = {s1}
  HostOf <- MCHostOf
  Prompts = {"p"}
  AskedIn <- MCAskedIn
  MaxWire = 1
  MaxLocal = 1
SPECIFICATION Spec
INVARIANTS TypeOK NeverStranded ChatOfOneHost OfferedIsPending
CHECK_DEADLOCK FALSE
