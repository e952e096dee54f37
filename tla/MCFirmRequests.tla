--------------------------- MODULE MCFirmRequests ---------------------------
(* Small instances of FirmRequests for TLC. *)
EXTENDS FirmRequests

Firms == {"read", "update", "suspend", "activate"}
Roles == {"read", "assign"}

\* All operations one after another; with crashes or races, those on the
\* firm and those on the roles by turns.
Modes == [how : {"serial"}, ops : {Firms \cup Roles}]
            \cup [how : {"crashing"}, ops : {Firms, Roles}]
            \cup [how : {"racing"}, ops : {{"suspend", "activate"}, {"assign"}}]

\* Nobody loses a role here.
OneByOne == [how : {"serial"}, ops : {Firms}]
=============================================================================
