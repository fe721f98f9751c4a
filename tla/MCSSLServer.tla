---------------------------- MODULE MCSSLServer ----------------------------
(* SSLServer for TLC: no descriptor, peer, session or SSLSocket is         *)
(* different from another.                                                 *)
EXTENDS SSLServer, TLC

CONSTANTS f1, f2, f3, p1, s1, s2, s3, x1, x2

Symmetric == Permutations(Fds) \cup Permutations(Sessions) \cup Permutations(Sockets)
=============================================================================
