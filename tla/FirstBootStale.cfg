CONSTANT Sessions = 2
SPECIFICATION Spec
INVARIANT WizardInheritsNothing
