SPECIFICATION Spec
CONSTANTS
  NFRAMES = 9
  MAX_FRAMES_PER_SPACE = 8
  MAX_PRIVATE_PDES_PER_SPACE = 2
  NPAGES = 12
  WINDOW = 5
  IdentityWindows = {0}
  Ids = {s1, s2}
  APP_BASE = 0
  APP_PAGES = 1
  GFX_SURFACE_VA = 2
  STACK_OF <- MCStacks
  BRK_MIN = 5
  HEAP_PAGES = 1
  VNU_FB_VA = 10
  EmbeddedPages = {1, 2}
  FilePages = {3}
  RootPages = 1
  CanvasSizes = {1, 2}
  Modes = {1, 2}
SYMMETRY MCSymmetry
INVARIANTS TypeOK FramesAccounted HoldersApart ProgramBacked CanvasOneSurface
PROPERTY PagesStay
