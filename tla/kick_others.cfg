SPECIFICATION Spec
CONSTANTS
  c1 = c1  c2 = c2
  usuario4 = usuario4  usuario5 = usuario5
  home = home
  Main = Main  Console = Console  BansFile = BansFile  None = None
  Client <- TwoClients
  Fd <- TwoFds
  Ip <- OneIp
  Nick <- Defaults
  DefaultNick <- DefaultNicks
  Saved <- NoBans
  Requested = {}
  Typed = {usuario4}
  Op = {"kick"}
INVARIANT KickSparesOthers
