SPECIFICATION Spec
INVARIANT PublishFailureReported
