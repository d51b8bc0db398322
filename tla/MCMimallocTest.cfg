CONSTANTS
  Images <- MCImages
  Resident = {"exe", "libc", "helper"}
  Slots <- MCSlots
  Refused = {"sealed"}
  Interposed <- MCInterposed
  Arguments <- MCArguments
  MaxCalls = 2
SPECIFICATION Spec
INVARIANTS TypeOK AllOrNothing HooksReturn
