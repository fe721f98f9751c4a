---------------------------- MODULE SecureSocket ----------------------------
(***************************************************************************)
(* ASecureSocket (socket-cpp): what CTCPSSLClient and CTCPSSLServer share. *)
(* An SSLSocket points to an SSL_CTX and to an SSL; of each SSL_CTX one    *)
(* SSL is made at most, so the two are one session here, which goes when   *)
(* its last reference goes: that of who made the SSL_CTX, and the SSL's.   *)
(* The operators take what OpenSSL has now and say what it has then.       *)
(***************************************************************************)
EXTENDS Integers

CONSTANTS Sessions,  \* structures SSL_CTX, whose addresses are used again
          NULL       \* a null pointer

ASSUME NullIsNoSession == NULL \notin Sessions

(* The SSL has a descriptor once SSL_set_fd has been called. *)
NoSession == [refs |-> 0, state |-> "none", fd |-> NULL]

Unused(session) == {s \in Sessions : session[s].refs = 0}

(* SetUpCtxClient and SetUpCtxServer: SSL_CTX_new. *)
SetUpCtx(session, s) == [session EXCEPT ![s].refs = 1]

(* SSL_new and SSL_set_fd, and how the handshake ends. *)
SetUpSSL(session, s, fd) == [session EXCEPT ![s] = [refs |-> 2, state |-> "new", fd |-> fd]]
EndHandshake(session, s, state) == [session EXCEPT ![s].state = state]

(* Mutant: SSL_CTX_free is not called. *)
ShutdownSSLKeepsContext(session, ssl, ctx) ==
    IF ssl = NULL THEN session
    ELSE [session EXCEPT ![ssl] = [NoSession EXCEPT !.refs = session[ssl].refs - 1]]

(* SSL_shutdown and SSL_free of the one, SSL_CTX_free of the other; with a *)
(* null m_pSSL, nothing, whatever m_pCTXSSL is.                            *)
ShutdownSSL(session, ssl, ctx) ==
    IF ssl = NULL THEN session
    ELSE [s \in Sessions |->
            LET refs == session[s].refs - (IF s = ssl THEN 1 ELSE 0) - (IF s = ctx THEN 1 ELSE 0)
            IN IF refs = 0 THEN NoSession
               ELSE IF s = ssl THEN [NoSession EXCEPT !.refs = refs]
               ELSE [session[s] EXCEPT !.refs = refs]]

(* What is wrong with handing m_pSSL to OpenSSL. *)
Misuse(session, ssl, ctx) ==
    IF ssl = NULL THEN {"null"}
    ELSE IF session[ssl].state = "none" THEN {"freed"}
    ELSE IF ssl # ctx THEN {"stale"} ELSE {}

SessionsOK(session, fds) ==
    /\ session \in [Sessions -> [refs : 0 .. 2, state : {"none", "new", "ready", "broken"},
                                 fd : fds \cup {NULL}]]
    /\ \A s \in Sessions : session[s].refs = 0 => session[s] = NoSession
=============================================================================
