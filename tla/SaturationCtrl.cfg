SPECIFICATION Spec
CONSTANT Sums = {0, 876, 1024, 2777, 5000, 9000, 10229, 10230, 10231, 10237, 10240}
INVARIANTS TypeOK SaturatedNeedsLoud ReportedInTime
