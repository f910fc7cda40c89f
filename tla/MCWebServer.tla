---------------------------- MODULE MCWebServer ----------------------------
EXTENDS WebServer

\* From the environment: nothing at all, and everything.  From a file: everything,
\* with the stream's name in the environment too or not, and Redis without a cap.
Base == [file |-> FALSE, redisDSN |-> FALSE, maxStreamLength |-> 0, streamName |-> "",
         streamGroup |-> "", dbDSN |-> FALSE, env |-> ""]
Full == [file |-> FALSE, redisDSN |-> TRUE, maxStreamLength |-> 1000, streamName |-> "s1",
         streamGroup |-> "s1", dbDSN |-> TRUE, env |-> "s1"]

MCConfigs == {Base, Full, [Full EXCEPT !.file = TRUE],
              [Full EXCEPT !.file = TRUE, !.env = ""],
              [Full EXCEPT !.file = TRUE, !.env = "s2", !.dbDSN = FALSE, !.maxStreamLength = 0]}
=============================================================================
