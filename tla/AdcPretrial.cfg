SPECIFICATION FairPretrialSpec
CONSTANT Cases <- MCCases
INVARIANTS NothingLeftUndecided
PROPERTIES RulingsAreHeard PretrialEnds
