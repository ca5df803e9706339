CONSTANTS
    c1 = c1  c2 = c2  c3 = c3  c4 = c4
    a = a  b = b  d = d  s = s  x = x  y = y  z = z
    t1 = t1  t2 = t2
    None = None
    Cases = {c1, c2, c3, c4}
    Campaigns <- MCCampaigns
    Requests = {a, b, d, s, x, y, z}
    Kind <- MCKind
    Plan <- MCPlan
    Backup <- MCBackup
    Threads = {t1, t2}
    Maximum <- MCMaximum
    MaxAccepted = 1
    OfficialLinks = TRUE
    MaxStarts = 2
    MaxFolders = 2
SPECIFICATION Spec
PROPERTIES LedgerKept CasesEnd
INVARIANTS CeilingHolds
CHECK_DEADLOCK FALSE
