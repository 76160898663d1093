CONSTANTS
  old = old
  new = new
  cloud = cloud
  other = other
  reconfigure = reconfigure
  Reauth = Reauth
  Hass = Hass
  Nobody = Nobody
  Credentials <- TwoCredentials
  Servers <- TwoServers
  Intervals <- ShortAndLong
  Reconfigurings <- OneReconfigure
  MaxSaves = 3
SPECIFICATION Spec
INVARIANT OptionsReload
CHECK_DEADLOCK FALSE
