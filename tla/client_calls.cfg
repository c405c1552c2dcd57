CONSTANTS
  c1 = c1
  c2 = c2
  k1 = k1
  k2 = k2
  k3 = k3
  Client = {c1, c2}
  Pack = {k1, k2, k3}
  Owner <- TwoClients
  Updates = {k2}
  Chunks <- LongUpdate
  MaxConn = 2
  Faults = {"lost", "refused"}
  None = None
SYMMETRY Executes
SPECIFICATION Spec
INVARIANTS TypeOK OnePerClient NoneStuck OwnReply
