SPECIFICATION Spec
CONSTANTS
  Catalog <- MCCatalog
  Choices <- MCChoices
  Stacks <- MCStacks
  Tasks = {"new_gluetun_setup", "configure_openvpn", "route_app_manually", "set_server_selection", "review_existing_configuration"}
  Providers = {"custom", "mullvad"}
  Typed = {"openvpnUser", "wireguardPrivateKey"}
  MaxEdits = 2
  MaxDrafts = 1
  Expiry = 1
CHECK_DEADLOCK FALSE
INVARIANTS
  DraftsReopen
