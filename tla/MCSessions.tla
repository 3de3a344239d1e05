---- MODULE MCSessions ----
(* Values of the constants of Sessions for TLC.                             *)
EXTENDS Sessions, TLC

CONSTANTS ann, bob, c1, s1, s2, s3, t1, t2

MCAsked == Kinds \ {"recover", "reset"}
MCAlone == Mailing \cup {"checkout", "password", "profile", "read", "sync", "validate"}
Interchangeable == Permutations({s1, s2, s3}) \cup Permutations({t1, t2})
====
