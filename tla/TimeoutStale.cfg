SPECIFICATION Spec
CONSTANT MaxOps = 2
PROPERTY DoneMeansNoFire
