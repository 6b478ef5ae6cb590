CONSTANTS
  bksp = bksp  letter = letter
  Keys = {bksp, letter}
  Backspace = bksp
  Env <- MCEnv
  Chords <- MCChords
  HostModifiers <- MCHostModifiers
  KeysymLower <- MCKeysymLower
  Layout <- MCLayout
  NoSymbol = "NoSymbol"
  None = None
  SerialMod = 16
  FirstSerial = 14
  MaxTransitions = 4
  MaxGenerations = 2
  PressesPrompt = TRUE
SPECIFICATION Spec
VIEW MCView
INVARIANTS OpenPressHasOneOwner 
PROPERTIES OnePressPerKeystroke AcceleratorStaysWithHost
