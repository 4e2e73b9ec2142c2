SPECIFICATION DownloadsSafety
CONSTANTS
  Pages = {"a"}
  MaxDownloads = 2
INVARIANT
  NamesApart
CHECK_DEADLOCK FALSE
