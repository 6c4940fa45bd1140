SPECIFICATION Spec
CONSTANTS
  t1 = t1
  t2 = t2
  tex = tex
  txt = txt
  tmp = tmp
  TEXTURE = TEXTURE
  TEXT = TEXT
  Threads = {t1, t2}
  Names = {tex, txt, tmp}
  Durable = {tex, txt}
  Types = {TEXTURE, TEXT}
  TypeOf <- MCTypeOf
  PoolSize = 3
  Null = Null
INVARIANT OpenAssertion
CHECK_DEADLOCK FALSE
