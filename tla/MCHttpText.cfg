CONSTANTS
  Chars <- MCChars
  Requests <- MCRequests
  Leftovers <- MCLeftovers
  Capacity = 25
  index <- MCIndex
  WorkDir <- MCWorkDir
  Entries <- MCEntries
  Mime <- MCMime
SPECIFICATION Spec
INVARIANTS
  TypeOK
  RequestLineIsOwn
  OwnHeaderWins
  LinksLead
  TypeIsOfName
