SPECIFICATION Spec
CONSTANTS
  Services = {s1, s2}
  Folders = {"f1"}
  Groups = {"g1"}
  Users = {"ann"}
  Events = {"e1"}
  Posted <- MCPosted
SYMMETRY Interchangeable
INVARIANTS FollowersMatchFolder PagesHideTheHidden
PROPERTIES MovingShowsToNobodyNew EventsKeepTheirServices
CHECK_DEADLOCK FALSE
