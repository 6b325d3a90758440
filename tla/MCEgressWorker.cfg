SPECIFICATION Spec
INVARIANTS ReportIsHonest OrphanNeverServes
PROPERTIES ContractKept CallReturns
CHECK_DEADLOCK FALSE
