CONSTANTS
  NoTurn = NoTurn
  t1 = t1 t2 = t2 r1 = r1 r2 = r2 p1 = p1 n1 = n1 d1 = d1 c1 = c1 c2 = c2
  Turns = {t1, t2}
  Replicas = {r1, r2}
  Policy = {p1}
  Native = {n1}
  Deciders = {d1}
  Calls = {c1, c2}
SPECIFICATION NamedSpec
INVARIANTS NoOrphanPrompt DurableBeforeResume OneDispatch
PROPERTIES ImplementsConsent WaitSettles PromptCloses
CHECK_DEADLOCK FALSE
