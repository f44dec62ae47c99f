SPECIFICATION SafeSpec
CONSTANT Jobs <- MCTwists
INVARIANT OrderIsCurveOrder
