\* The code as it is: a dialog comes up while the drag is armed.
SPECIFICATION Spec
CONSTANTS
  Files = {2}
  TopOnly = {}
  Far = {5}
PROPERTY DropsAreDrags
