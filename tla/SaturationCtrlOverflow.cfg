SPECIFICATION Spec
CONSTANT Sums = {0, 876, 5000, 10230, 10240}
INVARIANT NoSaturationMissed
