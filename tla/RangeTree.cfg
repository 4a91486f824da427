SPECIFICATION RSpec
CONSTANTS
    Alignment = 2
    HeapLimit = 12
    Sizes = {2, 3}
    Key = {2, 4, 6, 8, 10}
INVARIANTS
    NoFalseAlarm
    DoublyLinked
    SearchTree
PROPERTIES
    ImplementsFiniteMap
    CallsReturn
