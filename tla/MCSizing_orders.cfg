\* Every order of up to 6000 GPUs, of either variant.
SPECIFICATION Spec
CONSTANTS
    MaxGpus = 6000
    None = None
INVARIANTS TypeOK FedOnce ContainersHoldNodes SiteWithinDesignLoad FeedsWithinNameplate
\* One order is resolved once.
CHECK_DEADLOCK FALSE
