SPECIFICATION Spec
CONSTANTS
  Handler = {h1, h2}
  Build = {b1, b2}
  Steps = 2
  None = None
PROPERTY TerminalUnchanged
