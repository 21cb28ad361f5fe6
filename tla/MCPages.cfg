SPECIFICATION MCSpec
CONSTANTS
  Catalog <- MCCatalog
  Choices <- MCChoices
  Stacks <- MCStacks
  Tasks = {"new_gluetun_setup", "configure_openvpn", "route_app_manually", "set_server_selection", "review_existing_configuration"}
  Providers = {"custom", "mullvad"}
  Typed = {"openvpnUser", "wireguardPrivateKey"}
  MaxEdits = 3
  MaxDrafts = 1
  Expiry = 1
  Fields = {"countries", "cities"}
  Narrows <- MCNarrows
  Servers <- MCServers
  Tabs = {tab1}
  Page = tab1
  NoValue = ""
  MaxRefreshes = 1
  Projects = {p1, p2}
  NoProject = NoProject
  Inputs = {0}
  Extras = {{}, {"removals"}}
  Observed <- MCObserved
  MaxPlans = 2
  MaxOps = 1
CHECK_DEADLOCK FALSE
INVARIANTS
  ShownForForm
  SecretsExpire
  DraftsRedacted
  ProposalsWellFormed
  ConfirmedAsShown
  OfferedAccepted
