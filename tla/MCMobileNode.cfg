SPECIFICATION Spec
CONSTANTS
  Handlers = {h1, h2}
  Uploads = {u1, u2}
  Objects = {o1, o2}
  Nodes = {1, 2}
  DataShards = 2
  ParityShards = 1
  Length <- Bytes
  Overhead = 1
  MetaSize = 2
  Margin = 6
  Quota = 21
  u1 = u1
  MaxFaults = 1
INVARIANTS TypeOK CommittedWhole OncePerUpload QuotaHeld KeyKept
PROPERTIES DownloadServes MutexReleased
