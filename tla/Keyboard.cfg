SPECIFICATION Spec
CONSTANTS
  NumChannels = 2
  Notes = {0, 23, 60, 127}
  Distance = 3
  MaxHeld = 3
INVARIANT OneVoicePerKey
PROPERTIES SoundingUndisturbed KeepsPromise
CHECK_DEADLOCK FALSE
