\* One ladder, no fault of any kind: the poll reads the venue ahead of a queued fill.
CONSTANT Setups <- CalmSetups
SPECIFICATION Spec
INVARIANTS CoversWhenOvertaken
