CONSTANTS
  Workers = {w1, w2}
  site = site
  page = page
  git = git
  echo = echo
  index = index
  Hidden = {git}
  IndexDoc = indexhtml
  Names = {echo, index, site, page, git, indexhtml}
  Tree <- MCTree
  Types = {"text/plain", "text/html", "text/css"}
  Uris <- MCUris
  Mime <- MCMime
SYMMETRY Symmetry
SPECIFICATION Spec
INVARIANTS
  TypeOK
  AnswersUndisturbed
