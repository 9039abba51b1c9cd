CONSTANT MaxMessages = 3
SPECIFICATION Spec
INVARIANTS
  SeenWhatCame
  ResultsAreTrue
PROPERTY HandshakeEnds
