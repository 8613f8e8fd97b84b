\* Two domains, pages of one or two rows; the menu of top-level domains is left alone.
CONSTANTS
  Ids = {1, 2}
  Statuses = {"healthy", "watch"}
  Filters = {"all", "warning"}
  PageSizes = {1, 2}
  Looks = {"cards"}
  Fields = {"url"}
  Matching = {1}
  InTld = {1}
  Menu = {FALSE}
  None = none
SPECIFICATION Spec
INVARIANTS PageShowsRows SelectionIsShown NarrowedObeysFilter
