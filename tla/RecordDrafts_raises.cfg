SPECIFICATION Spec
CONSTANTS
Starts <- MCStarts
Fields <- MCFields
Values <- MCValues
UriOf <- MCUris
CoseOf <- MCCose
KeyOf <- MCKeys
ExtensionKeys = {"x-a"}
Supported = {"x-a"}
MAX_SLOTS = 3
MAX_ENVELOPE_BYTES = 2400
UINT32_MAX = 40
Floors <- MCFloors
Ceiling <- MCCeiling
MaxEdits = 2
INVARIANT ValidatorNeverRaises
CHECK_DEADLOCK FALSE
