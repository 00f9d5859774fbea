SPECIFICATION AtcSpec
CONSTANTS CableModes = {"usb3dp", "dp"}  LinkRates = {1620}  MaxSlow = 0  MaxProbes = 1  MaxRequests = 0
PROPERTY DisplayModeIsEntered
CHECK_DEADLOCK FALSE
