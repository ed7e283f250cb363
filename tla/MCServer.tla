---------------------------- MODULE MCServer ----------------------------
(* Instances of Server for TLC: see README.md for the bounds. *)
EXTENDS Server

CONSTANTS s1, s2, s3, s4   \* sessions (model values)

(* Logins: an account with a password, one without, two peers at each address. *)
LoginSessions == {s1, s2, s3, s4}
LoginUsers == {"alice", "anonymous"}
LoginGuarded == {"alice"}
LoginLimit == [u \in LoginUsers |-> 1]
LoginIp == [s \in LoginSessions |-> IF s \in {s1, s2} THEN "near" ELSE "far"]
LoginCommands == {"USER", "PASS", "REIN", "QUIT"}

(* Transfers: two peers of one account.  A logged-in peer never gives USER. *)
TwoSessions == {s1, s2}
OneUser == {"alice"}
NoLimit == [u \in OneUser |-> 0]
OneAddress == [s \in TwoSessions |-> "near"]
NoReinCommands == CommandNames \ {"REIN", "USER again"}
MostCommands == CommandNames \ {"USER again", "REST", "RNFR", "CWD"}
AllFaults == {"open", "lock", "disk", "exception"}
OpenFault == {"open"}
DiskFaults == {"disk", "exception"}
TwoFds == 1..2
ThreeFds == 1..3
========================================================================
