\* Two replicas share Redis; a tool or an override is written while flights run.
SPECIFICATION Spec
CONSTANTS
  near = near  far = far  q1 = q1  q2 = q2  q3 = q3  echo = echo  search = search
  Replicas = {near, far}
  Tools = {echo, search}
  Remote = {search}
  Pages <- TwoPages
  Requests = {q1, q2, q3}
  Home <- Routed
  Admins = {near}
  Redis = TRUE
  MaxWrites = 1
  MaxEdits = 1
  MaxExpiries = 1
CHECK_DEADLOCK FALSE
CONSTRAINT Searched
INVARIANTS CatalogCurrent DefinitionsMatchRow OwnEditsSeen
