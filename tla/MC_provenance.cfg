\* Deployers, owners and flat-name buyers writing a scoped and a flat name.
CONSTANTS
  None = None
  alice = alice  bob = bob  dev = dev
  handle1 = handle1  label1 = label1  flat1 = flat1
  canister1 = canister1  canister2 = canister2
  tag1 = tag1  note1 = note1  module1 = module1  module2 = module2
  Handles = {handle1}
  Tags = {tag1}
  Notes = {note1}
  TagLists = {{tag1}}
  Principals = {alice, bob, dev}
  Controllers = {dev}
  Labels = {label1}
  FlatNames = {flat1}
  Canisters = {canister1, canister2}
  Modules = {module1, module2}
  MaxText = 1
  Stored <- OldMemories
SPECIFICATION Spec
INVARIANTS TypeOK IndexInStep TreeInStep OwnersAgree
PROPERTIES HandlesPermanent AttestationsGenuine NoStaleProvenance
