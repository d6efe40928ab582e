SPECIFICATION PortSpec
CONSTANTS
  Families <- MCFamilies
  Words <- MCWords
  Values = {4095, 8191, 20000}
  AnalogOutputs = {0, 9}
  VoltageModes = {0, 1, 2}
  Directions = {0, 1, 2}
  Flags = {1, 2}
  Reloads = {255, 256}
INVARIANTS
  StatusIsWord
  ValuesFitMode
