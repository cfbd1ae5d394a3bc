SPECIFICATION Spec
CONSTANTS
  Devices = {hdd, app}
  Apps = {app}
  Displayed <- MCDisplayed
  Titles = {1, 2}
  MaxItems = 4
  hdd = hdd
  app = app
INVARIANTS
  CurrentDisplayed
