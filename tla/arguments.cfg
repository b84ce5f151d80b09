SPECIFICATION Spec
CONSTANTS
  Words = {"-h", "--help", "-t", "v"}
  MaxArguments = 2
  MaxNargs = 2
  MaxWords = 4
INVARIANT TypeOK
INVARIANT AcceptsSentences
INVARIANT ValuesInOrder
INVARIANT SetOptionsHaveValues
INVARIANT NoHelpAsked
