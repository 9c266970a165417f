CONSTANTS
  Req = {r1, r2, r3}
  Existing = {a1, a2}
  Sku = {k1}
  None = None
  MaxInt = 1
  Inputs <- SchemaInputs
  Bikes = {b}
  Vin = {v1}
  Null = Null
  ShopInputs <- SchemaShopInputs
SPECIFICATION AllFairSpec
INVARIANT ConsumptionTraceable
PROPERTY EverybodyAnswered
