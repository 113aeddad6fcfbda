CONSTANTS
  Entropies = {e1, e2}
  BadEntropies = {}
  Passwords = {"", "secret"}
  Languages = {"english", "french"}
  English = "english"
  EntropyArgs = {NotANumber, 15, 16, 65}
  NotANumber = NotANumber
  Garbage = Garbage
  Blank = Blank
  MAX_DERIVE_TRIES = 2
  MaxNew = 2
SPECIFICATION Spec
INVARIANT TypeOK
PROPERTY NewDecodeRoundTrip
