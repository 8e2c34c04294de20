----------------------------- MODULE MCPhoneClient -----------------------------
\* The app starts with the machine "home"; a second socket may take the place of
\* its first one, or "work" is paired.  The session and its prompt are at "home".
EXTENDS PhoneClient

CONSTANTS home, work, c1, c2, c3, s1

MCMachine == [c \in Sockets |-> IF c = c3 THEN work ELSE home]
MCFirst == [h \in Stored |-> c1]
MCHostOf == [s \in Sessions |-> home]
MCAskedIn == [p \in Prompts |-> s1]
===============================================================================
