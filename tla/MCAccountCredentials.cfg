CONSTANTS
  chat = chat  translation = translation
  Cli = {chat, translation}
  Uncounted = {translation}
  MaxToken = 3
  MaxTroubles = 1
SPECIFICATION Spec
INVARIANTS TypeOK NewestLives AppDefers
CONSTRAINT NothingLost
