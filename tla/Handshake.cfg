\* Every security type; version 3.3 with the types that ask for nothing.
CONSTANTS
  Versions = {"3.3", "3.7", "3.8", "repeater", "other"}
  Schemes = {"None", "VNCAuth", "XVP", "ARD", "Tight", "VeNCrypt", "Plain", "RA2ne", "MSLogonII", "unsupported"}
  Schemes33 = {"None", "unsupported"}
  SubAuths = {"empty", "noauth", "vnc", "unix", "unsupported"}
  UserFields = {"username", "password", "target"}
  RandomIsWhole = TRUE
SPECIFICATION Spec
INVARIANTS
  TypeOK
  InStep
  OutcomeIsJustified
PROPERTIES
  Ra2SecretIsGuarded
  HandshakeEnds
CHECK_DEADLOCK FALSE
