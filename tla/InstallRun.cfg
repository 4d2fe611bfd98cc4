SPECIFICATION Spec
INVARIANT TypeOK
INVARIANT OneKeyringUser
INVARIANT HandedOverSound
INVARIANT FailedInstallIsQuiet
INVARIANT ChrootsKeepTheirMounts
PROPERTY CleanRunCompletes
PROPERTY AlwaysEnds
