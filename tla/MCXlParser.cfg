CONSTANTS
  Parsers <- MCParsers
  Topics = {"params", "deals"}
  Sizes <- MCSizes
  Texts <- MCTexts
  Numbers <- MCNumbers
  Surplus = {0, 1}
  Missing = {0, 1, 12}
  Others <- MCOthers
SPECIFICATION Spec
INVARIANTS
  TypeOK
  DeliversTable
