\* The code as it is: the click on the menu's item also lands on the row beneath it.
SPECIFICATION Spec
CONSTANTS
  Files = {2}
  TopOnly = {}
  Far = {5}
PROPERTY MenuKeepsItsFiles
