SPECIFICATION Spec
CONSTANTS
  lobby = lobby  sala = sala
  usuario4 = usuario4  usuario5 = usuario5
  Console = Console  None = None
  Client = {4, 5}
  Room = {lobby, sala}
  Lobby = lobby
  Nick = {usuario4, usuario5}
  DefaultNick <- DefaultNicks
  Requested = {usuario4, usuario5}
INVARIANTS TypeOK MembershipAgrees TargetsLive NamesUnique
PROPERTIES OneOrder
