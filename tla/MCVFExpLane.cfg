SPECIFICATION Spec
CONSTANTS
  Operands <- MCOperands
  IdleBits <- MCIdleBits
  PowerUp <- MCPowerUp
  PowerUpN <- MCPowerUpN
  PowerUpSpecial <- MCPowerUpSpecial
INVARIANTS
  TypeOK
  OutputMatchesOperand
  NoPowerUpValueEmitted
