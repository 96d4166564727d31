----------------------------- MODULE NetConnect -----------------------------
(***************************************************************************)
(* net.connect (net.c) from the lookup of the host on, with the sockets it *)
(* opens (sockets.c): the C function is called again from its start        *)
(* whenever what it waited for is there, and finds where it was from its   *)
(* progress struct and the flags of the socket.  An IPv6 address is tried  *)
(* first, which always fails: sockets_IsIPv6 takes no address for one.     *)
(* The IPv4 address follows, and with encryption the handshake.            *)
(*                                                                         *)
(* A request the job queue refuses is left to AsyncSysJob.                 *)
(***************************************************************************)
EXTENDS Integers, FiniteSets

VARIABLE conn
\* has, encrypt  the addresses of the host, and whether TLS is asked for
\* job           resolve_job: none, running, done, failed, abandoned
\* sock, flags   the socket (none, open, destroyed) and its _SOCKFLAG_ flags
\* ssl, failedv6 whether sslobj is there; failedv6connect
\* tcp, tried    what the system knows of the connection; addresses connect() had
\* tls           the handshake: no, begun, done, or shut by the other side
\* wait, result  what the vm thread waits for; how the call ended

Connectcalled  == "CONNECTCALLED"
Knownconnected == "KNOWNCONNECTED"
Notlsleft      == "NOOUTSTANDINGTLSCONNECT"
Success == "success"
NeedToRead  == "read"
NeedToWrite == "write"
OperationFailed == "failed"
OutOfMemory == "OutOfMemoryError"
ResourceError == "ResourceError"
TypeError   == "TypeError"

ConnOf(has, encrypt) ==
    [has |-> has, encrypt |-> encrypt, job |-> "none", sock |-> "none",
     flags |-> {}, ssl |-> FALSE, failedv6 |-> FALSE, tcp |-> "unbound",
     tried |-> {}, tls |-> "no", wait |-> "nothing", result |-> "none"]
ConnectInit == \E has \in SUBSET {"v6", "v4"}, encrypt \in BOOLEAN : conn = ConnOf(has, encrypt)

-----------------------------------------------------------------------------
(* sockets_ConnectClient: sets of [c, ret], one for each answer of the system. *)

Answer(c, ret) == [c |-> c, ret |-> ret]

\* SSL_connect; a handshake shut down by the other side returns 0, which is not below 0.
Handshake(c) ==
    LET begun == [c EXCEPT !.ssl = TRUE, !.tls = "begun"]
        over  == [begun EXCEPT !.flags = @ \cup {Notlsleft}]
    IN  {Answer(begun, NeedToRead), Answer(begun, NeedToWrite), Answer(over, OperationFailed),
         Answer([over EXCEPT !.tls = "done"], Success), Answer([over EXCEPT !.tls = "shut"], Success)}

\* The part of the TLS connection in front of it: an object and the descriptor.
StartTls(c) ==
    IF Notlsleft \in c.flags THEN {Answer(c, OperationFailed)}
    ELSE Handshake(c) \cup {Answer([c EXCEPT !.ssl = TRUE], OutOfMemory)}
         \cup IF c.ssl THEN {} ELSE {Answer([c EXCEPT !.flags = @ \cup {Notlsleft}], OutOfMemory)}

Connected(c) == IF c.encrypt THEN StartTls(c) ELSE {Answer(c, Success)}

\* getpeername and SO_ERROR decide whether the connection is there.
NotConnected(c) == Answer([c EXCEPT !.flags = @ \ {Connectcalled}], OperationFailed)
CheckConnection(c) ==
    IF Knownconnected \in c.flags THEN Connected(c)
    ELSE {NotConnected(IF c.tcp = "error" THEN c ELSE [c EXCEPT !.tcp = "refused"])}
         \cup IF c.tcp = "connected" THEN Connected([c EXCEPT !.flags = @ \cup {Knownconnected}])
              ELSE {}

\* connect(): done at once, in progress, to be called again, or an error.
CallConnect(c, address) ==
    LET called == [c EXCEPT !.flags = @ \cup {Connectcalled}, !.tried = @ \cup {address}]
    IN  CheckConnection([called EXCEPT !.tcp = "connected"])
        \cup {Answer([called EXCEPT !.tcp = "pending"], NeedToWrite),
              Answer([called EXCEPT !.flags = @ \ {Connectcalled}, !.tried = @ \ {address}], NeedToWrite),
              Answer([called EXCEPT !.tcp = "error"], OperationFailed)}

\* sockets_IsIPv6 refuses the second ":" of "::", as no digit is before it, and the
\* seventh ":" of an address without "::"; what it refuses is not connected to.
RecognisedAsIP == {"v4"}
ConnectClient(c, address) ==
    IF address \notin RecognisedAsIP THEN {Answer(c, OperationFailed)}
    ELSE {Answer(c, OutOfMemory)}
         \cup IF Connectcalled \in c.flags THEN CheckConnection(c) ELSE CallConnect(c, address)

-----------------------------------------------------------------------------
(* netlib_connect *)

\* _netlib_connect_abort, called when the error is raised and left-over work is dropped.
Abort(c) ==
    [c EXCEPT !.job = IF @ = "none" THEN @ ELSE "abandoned",
              !.sock = IF @ = "open" THEN "destroyed" ELSE @]
ReturnFuncError(c, error) == [Abort(c) EXCEPT !.result = error, !.wait = "nothing"]
SuspendFunc(c, for) == [c EXCEPT !.wait = for]

\* The connection moves to the stream, the job is given up.
ReturnStream(c) ==
    {[c EXCEPT !.job = "abandoned", !.sock = "stream", !.result = "stream", !.wait = "nothing"],
     ReturnFuncError(c, OutOfMemory)}

\* What the answer of a connect leads to; a failure is left to the caller.
Outcome(a) ==
    CASE a.ret \in {NeedToRead, NeedToWrite} -> {SuspendFunc(a.c, a.ret)}
      [] a.ret = OutOfMemory                 -> {ReturnFuncError(a.c, OutOfMemory)}
      [] a.ret = Success                     -> ReturnStream(a.c)

ConnectV4(c) ==
    IF (c.failedv6 \/ "v6" \notin c.has) /\ "v4" \in c.has
    THEN UNION {IF a.ret = OperationFailed
                THEN {ReturnFuncError([a.c EXCEPT !.failedv6 = TRUE], ResourceError)}
                ELSE Outcome(a) : a \in ConnectClient(c, "v4")}
    ELSE {ReturnFuncError(c, ResourceError)}

\* A mutant: that IPv6 failed is not noted, and the IPv4 address is passed over.
FailureNotNoted(c) ==
    IF ~c.failedv6 /\ "v6" \in c.has
    THEN UNION {IF a.ret # OperationFailed THEN Outcome(a)
                ELSE IF "v4" \notin c.has THEN {ReturnFuncError(a.c, ResourceError)}
                ELSE ConnectV4(a.c) : a \in ConnectClient(c, "v6")}
    ELSE ConnectV4(c)

ConnectV6(c) ==
    IF ~c.failedv6 /\ "v6" \in c.has
    THEN UNION {IF a.ret # OperationFailed THEN Outcome(a)
                ELSE IF "v4" \notin c.has THEN {ReturnFuncError(a.c, ResourceError)}
                ELSE ConnectV4([a.c EXCEPT !.failedv6 = TRUE]) : a \in ConnectClient(c, "v6")}
    ELSE ConnectV4(c)

\* sockets_New
OpenSocket(c) ==
    IF c.sock = "open" THEN ConnectV6(c)
    ELSE ConnectV6([c EXCEPT !.sock = "open"]) \cup {ReturnFuncError(c, OutOfMemory)}

\* The first call: the arguments are checked and the lookup is requested.
RequestLookup ==
    /\ conn.job = "none" /\ conn.result = "none"
    /\ \/ conn' = [conn EXCEPT !.job = "running", !.wait = "job"]
       \/ \E error \in {TypeError, OutOfMemory} : conn' = ReturnFuncError(conn, error)

\* A later call, when the job is done or the socket is ready or failed.
CallAgain ==
    /\ conn.result = "none"
    /\ \/ conn.wait = "job" /\ conn.job \in {"done", "failed"}
       \/ conn.wait = "read"
       \/ conn.wait = "write" /\ conn.tcp # "pending"
    /\ IF conn.job = "failed" THEN conn' = ReturnFuncError(conn, ResourceError)
       ELSE conn' \in OpenSocket(conn)

LookupEnds ==
    /\ conn.job = "running"
    /\ \E how \in {"done", "failed"} : conn' = [conn EXCEPT !.job = how]

NetworkAnswers ==
    /\ conn.tcp = "pending"
    /\ \E how \in {"connected", "refused"} : conn' = [conn EXCEPT !.tcp = how]

ConnectNext == RequestLookup \/ CallAgain \/ LookupEnds \/ NetworkAnswers

ConnectSpec == ConnectInit /\ [][ConnectNext]_conn

-----------------------------------------------------------------------------
\* The other side shut the handshake down in order: SSL_connect returns 0, which the code
\* takes for success, as it tests for values below 0 only (sockets.c:729).
HandshakeShut == conn.tls = "shut"
\* A stream has the open socket of a connection that is there, and nobody else has it;
\* when it is to be encrypted the handshake is done, unless HandshakeShut, when the code
\* returns a stream without one.  After an error the socket is closed.  The lookup's job
\* is given up exactly when the call has ended, and while the thread waits its socket is
\* open.  A call that had a socket and an IPv4 address does not report that the
\* connection failed before it connected to that address, whatever became of the IPv6
\* address, which is never connected to (net.c:310-635, sockets.c:464-770).
ConnectsOrCleansUp ==
    /\ conn.result = "stream" =>
         conn.sock = "stream" /\ conn.tcp = "connected" /\ (conn.encrypt => conn.tls = "done" \/ HandshakeShut)
    /\ conn.result \notin {"none", "stream"} => conn.sock \in {"none", "destroyed"}
    /\ (conn.result # "none" /\ conn.job # "none") <=> conn.job = "abandoned"
    /\ conn.wait \in {NeedToRead, NeedToWrite} => conn.sock = "open"
    /\ conn.result = ResourceError /\ conn.sock # "none" /\ "v4" \in conn.has => "v4" \in conn.tried
=============================================================================
