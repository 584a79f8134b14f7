SPECIFICATION MCSpec
CONSTANTS
  Threads = {t1, t2}
  Devs = {d1, d2, d3}
  Atlas = {d1, d2}
  Fws = {"pmu", "hqc"}
  None = None
  IndexRange = 16
INVARIANTS RunsOnItsDevice ContextsScoped InventoryAgrees PolicyReadBack
PROPERTIES CallsReturn
