CONSTANTS
  flash = flash
  sol = sol
  old = old
  new = new
  openai = openai
  deepseek = deepseek
  none = none
  KnownModels = {flash, sol, old}
  CurrentModels = {sol}
  OtherModels = {new}
  Flash = flash
  Providers = {openai, deepseek}
  OpenAI = openai
  NoProvider = none
  Inferred <- MCInferred
  Events <- MCEvents
  MaxConsecutive = 1
  Cooldown = 1
  MaxTime = 1
  MaxDeliveries = 4
  MaxLost = 1
  MaxRollbacks = 0
  MaxRestarts = 1
SPECIFICATION Spec
CHECK_DEADLOCK FALSE
INVARIANT ModeTold
