CONSTANTS
  Addresses <- MCAddresses
  AddrLists <- MCLists
  EnvAddrs <- MCEnvAddrs
  DEFAULT_ADDR_V4 <- MCAny4
  DEFAULT_ADDR_V6 <- MCAny6
  Garbage = Garbage
  None = None
  MAX_ARGS = 2
SPECIFICATION Spec
INVARIANTS TypeOK RunsAsConfigured AdvertisedIsBound ArgumentsTakePrecedence PrivateOnlyAlone
