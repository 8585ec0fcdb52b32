SPECIFICATION Spec
CONSTANTS
  injector1 = injector1
  injector2 = injector2
  program1 = program1
  program2 = program2
  section = section
  mode = mode
  ports = ports
  Injectors = {injector1, injector2}
  Processes = {injector1, injector2, program1, program2}
  Child <- Program
  Sections = {section}
  Keys = {mode, ports}
  Missing = Missing
  Garbled = Garbled
  MaxEdits = 2
  MaxKills = 1
INVARIANTS
  UserTextsKept
  SessionAgrees
CHECK_DEADLOCK FALSE
