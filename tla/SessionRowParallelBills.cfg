SPECIFICATION Spec
CONSTANTS
    main = main  sub1 = sub1  sub2 = sub2
    Session = {main, sub1, sub2}
    Parent <- TwoSubs
    NoSession = NoSession
    NoRow = NoRow
    Remote = FALSE
    MaxSteps <- StepsOf
    MaxSummaries <- SummariesOf
SYMMETRY SubSymmetry
PROPERTIES CostAccumulates
