SPECIFICATION Spec
CONSTANTS
  None = None
  usuario4 = usuario4  usuario45 = usuario45
  ip1 = ip1  ip12 = ip12
  Nick = {usuario4, usuario45}
  Ip = {ip1, ip12}
  Cuts <- Beginnings
INVARIANTS TypeOK Durable NothingRevived
