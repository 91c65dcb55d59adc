CONSTANTS
  a1 = a1  a2 = a2  a3 = a3
  Tasks <- Names
  Nicks = {a1, a2, a3}
  NoTask = NoTask
  NoNick = NoNick
  Topics = {"v"}
  Roles <- MCRoles
  Rules <- MCRules
  NotifyOn <- MCNotifyOn
  Says <- MCSays
  MaxSends = 2
  Bridges = {"bridge1", "bridge2"}
  Places = {"home", "there", "far"}
  Texts = {t1}
  Links <- MCLinks
  Mappings <- MCMappings
SPECIFICATION ChannelsSpec
INVARIANTS DeniedLeavesNoTrace ReviewsAreSettled StoresAgree RelayedOnce
PROPERTIES ReactionsEnd UsersAreHeard
CHECK_DEADLOCK FALSE
