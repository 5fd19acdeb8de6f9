\* An element is clicked.
CONSTANTS
    Points = {"origin", "p1", "p2"}
    Origin = "origin"
    Buttons = {"left", "right"}
    Elements = {"link", "menu"}
    Center <- MCCenter
    MaxHeld = 2
SPECIFICATION MouseSpec
INVARIANT ClickLands
