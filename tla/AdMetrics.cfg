\* Views and clicks around the edges of windows, saves that fail, kills.
SPECIFICATION Spec
CONSTANTS
  Ads = {ad1}
  Ips = {ip1}
  Window = 2
  MaxCount = 3
  Damaged = Damaged
INVARIANT
  OncePerWindow
PROPERTY
  CountsPersist
