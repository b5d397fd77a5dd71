SPECIFICATION TraySpec
CONSTANTS
  Readings = {"calm", "busy", "full"}
  UsedPercent <- Used
  Pressure <- Pressed
  SwapUsed <- Swapped
  Trends = {"Stable"}
  Figures = {"a", "b"}
  Modules <- Shown
  APP_ROW_POOL = 2
INVARIANTS DropdownShowsModel IconMatchesDropdown
