\* Clients that go away while the backend is well.
SPECIFICATION SafeSpec
CONSTANTS
  Calls = {c1, c2}
  Threshold = 2
  Backoffs = {2}
  Timeouts = {1, 3}
  MaxTimeout = 3
PROPERTY OpensOnlyOnBackendFailure
