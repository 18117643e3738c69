SPECIFICATION ThreadsFair
CONSTANTS
  Server = Server  None = None
  Client = {c1}
  Room = {lobby}
  Admin = {Console}
  Cap = 1
PROPERTIES CommandsEnd
