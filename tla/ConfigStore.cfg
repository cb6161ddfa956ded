\* The settings page with its own saves, the two tools it starts and another writer.
SPECIFICATION Spec
CONSTANTS
  Key = {disabled, certainty}
  Disabled = disabled
  Value = {v0, v1}
  Default = v0
  Missing = missing
  NoEdit = noedit
INVARIANT StaleIsKnown
PROPERTY EditsKept
