CONSTANTS
  MaxId = 2
  MaxClients = 1
SPECIFICATION Spec
PROPERTY WaitDelivers
