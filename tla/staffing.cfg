\* Two crews choose among three bartenders; one request may fail.
SPECIFICATION StaffSpec
CONSTANTS
  Crews = {c1, c2}
  Bartenders = {b1, b2, b3}
  PaxPerBartender = 2
  HeadPax = 2
  Guests = {2, 3}
  Ratings = {3, 5}
  MaxStaffFaults = 1
CHECK_DEADLOCK FALSE
INVARIANT TeamMarked
INVARIANT OneTeamEachAlone
PROPERTY BestTeam
