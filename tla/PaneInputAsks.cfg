\* The code as it is: the press that picks the item also confirms the dialog it opens.
SPECIFICATION Spec
CONSTANTS
  Files = {2}
  TopOnly = {}
  Far = {5}
PROPERTY AsksFirst
