CONSTANTS
  TextLines <- MCTextLines
  Name = {}
  NoGoto = NoGoto
  Iso = FALSE
  Managed = FALSE
  Slashes = FALSE
  ActiveSkipLevels = {1}
  RawLines <- MCRawLines
  Texts <- MCTexts
  Entries <- MCEntries
  EditLines <- MCEditLines
  MaxEdits = 2
SPECIFICATION SessionSpec
INVARIANT DiffComesAbout
