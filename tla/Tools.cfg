CONSTANTS
  FLOAT_SEED_BITS <- MC_FLOAT_SEED_BITS
  COMMANDS = 4
  MAX_CONTINUE = 12
  ADDRS = {4, 8, 16, 28}
  MAX_STEPS = 40
  MOMENTS = {1, 9, 10, 11, 12, 13, 14, 15, 16, 17}
SPECIFICATION Spec
INVARIANTS ReadersAgree AluMatchesIss Contained Resumes StopsWhereAsked
PROPERTY Halts
