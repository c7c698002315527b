CONSTANTS
  Tables = {t1, t2}
  Rows = {r1, r2}
  NoRow = NoRow
  Texts <- MCTexts
  Ints <- MCInts
  NotInt = NotInt
  Format <- MCFormat
  Parse <- MCParse
  Schema = Schema
  MaxRows = 2
  MaxCalls = 6
SPECIFICATION Spec
INVARIANTS TypeOK
PROPERTIES ImplementsTables InsertsAddAllRows
CHECK_DEADLOCK FALSE
