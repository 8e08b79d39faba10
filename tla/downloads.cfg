CHECK_DEADLOCK FALSE
SPECIFICATION DownloadsSpec
CONSTANTS
  p1 = p1
  p2 = p2
  s1 = s1
  s2 = s2
  c1 = c1
  c2 = c2
  c3 = c3
  t1 = t1
  None = None
  Procs <- MCProcs
  SessionIds <- MCSessionIds
  Clients <- MCClients
  Tickets <- MCTickets
  MaxPasswords = 2
  Capacity = 2
  Selections <- MCSelections
SYMMETRY MCSymmetry
INVARIANTS DownloadsTypeOK OneAdministratorUnlessRaced SessionIsOfThisPassword OneArchivePerTicket SlotsAreHeld 
PROPERTIES NoArchiveAfterSession
