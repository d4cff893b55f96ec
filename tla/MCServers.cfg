CONSTANTS
  Programs = {"prefork", "thread", "chat", "udp", "uv", "hello", "send_fd", "client"}
  NULL = NULL
  Clients = {c1, c2, c3}
  Bytes <- MCBytes
  Text <- MCText
  Upper <- MCUpper
  Children = {k1, k2}
  PreforkMaxSent = 2
  Threads = {k1, k2}
  Infos = {i1, i2, i3}
  ThreadMaxFd = 2
  ThreadMaxSent = 1
  ChatClients = {d1, d2, d3}
  Senders = {d1, d2}
  ChatMaxFd = 2
  ChatMaxSent = 2
  u1 = u1
  u2 = u2
  UdpClients = {u1, u2}
  Messages <- MCMessages
  Size = 1
  Host = Host
  MaxLost = 1
  MaxCopies = 1
  UvMaxFd = 2
  UvMaxSent = 2
  MaxQueued = 1
  MaxTalkers = 1
  Slow = {d1}
  HelloClients = {h1, h2}
  HelloSize = 1
  response <- MCResponse
  HelloMaxSent = 2
  FdClients = {s1, s2, s3}
  FdMaxFd = 4
  LineSize = 3
  Lines <- MCLines
SPECIFICATION Spec
SYMMETRY Symmetry
INVARIANTS NothingLost Owned  SelectSafe HeardAll  Passed
PROPERTY Implements
