SPECIFICATION MCSpec
CONSTANTS
  Threads = {t1, t2, t3}
  Null = Null
  Values = {a, b}
  Nodes = {1, 2, 3, 4}
  MaxCount = 4
  MaxCalls = 4
  MaxQueueCalls = 3
  Variants = {v1, v2}
  Anys = {x}
  Alternatives = 2
  MaxObjects = 4
INVARIANTS LlNoNullNode
CHECK_DEADLOCK FALSE
