SPECIFICATION Spec
CONSTANTS
  Gone = Gone
  NoData = NoData
  desktop = desktop
  app = app
  Desktop = desktop
  AppWindows = {app}
  Titled <- MCTitled
  Geometries <- MCGeometries
  Lines <- MCLines
  MaxLines = 2
  Forms <- MCForms
  ScreenBytes = 3
  MaxShown = 5
INVARIANTS TypeOK  SourceIsAsked PictureShowsWindow
PROPERTIES PaintedIsSent
CHECK_DEADLOCK FALSE
