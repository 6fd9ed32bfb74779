SPECIFICATION PreviewSpec
CONSTANTS
  None = None
  Missing = Missing
  Files = {1, 2, 3}
  Valid = {1, 2, 3}
  MaxFileCount = 3
  MaxChosen = 2
  MaxClicks = 2
  AllowedTags = {"p", "img", "form", "#text"}
  ForbidContents = {"style"}
  Leaves = {"#text"}
  RawTags = {"iframe"}
  ClobberedForms = {"clobbered form"}
  AllowedAttr = {"id", "name", "src"}
  UriSafe = {"id", "name"}
  DataUriTags = {"img"}
  TagType <- Types
  Pictures = {1, 3}
  Broken = {3}
  ExifChoices <- Choices
  Html = {2}
  HtmlDocuments <- Documents
INVARIANTS RemovedNotRevived AllResized ExifKept PurifiedAsDefined
CHECK_DEADLOCK FALSE
