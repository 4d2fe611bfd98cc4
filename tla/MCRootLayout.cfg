CONSTANTS
  Names <- MCNames
  Mountpoints <- MCMountpoints
  FatMounts <- MCFatMounts
  MaxExtra = 3
  ImageDirs <- MCImageDirs
  Home <- MCHome
SPECIFICATION Spec
INVARIANT TypeOK
INVARIANT ImageFilesVisible
INVARIANT AcceptedIsPlaced
