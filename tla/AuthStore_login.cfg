\* One tab: the refresh at the start is under way when the user logs in.
SPECIFICATION Spec
CONSTANTS
  Tabs = {t1}
  Slots = {f1, f2}
  Users = {u1}
  NoUser = NoUser
  NoSlot = NoSlot
  MaxSession = 4
  MaxCommands = 2
  MaxFaults = 1
PROPERTY
  LoginStands
CHECK_DEADLOCK FALSE
