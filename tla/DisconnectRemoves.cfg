SPECIFICATION CfgSpec
CONSTANTS
  Call = {c1, c2}
  Server = {u1}
  Setting = {o1}
  Places = {"~/.openclaw", "~/.ironclaw", "~/.config/ironclaw", "~/.config/Claude", "cwd"}
  Groups = {{"openclaw"}}
  Absent = Absent
CHECK_DEADLOCK FALSE
INVARIANT DisconnectRemoves
