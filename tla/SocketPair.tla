----------------------------- MODULE SocketPair -----------------------------
(***************************************************************************)
(* sockets_NewPair (sockets.c): the two connected sockets a threadevent is *)
(* made of.  The caller listens on the loopback address, starts a thread   *)
(* that accepts, connects to itself and sends a random key; the thread     *)
(* takes the connection the key came over.  Any other process of the       *)
(* machine may connect to the same port.                                   *)
(*                                                                         *)
(* Changing whether a socket blocks never fails on POSIX systems.          *)
(***************************************************************************)
EXTENDS Integers, Sequences, SequencesExt

CONSTANTS Key,        \* the random key, as the pieces it may arrive in
          Strangers,  \* connections of other processes
          Junk        \* a piece they may send

VARIABLE pair
\* main, accepter  where the two threads are   failure    te.failure
\* server, trigger whether te's sockets are open
\* tcp    by connection: away, queued, accepted, closed (its accepted end)
\* line   the pieces sent and not read yet     backlog    connections to accept
\* conns  the accepted connections: [of, got]  at         which one is read next
\* result the accepted end that was chosen     short      accept ran out of memory

Own  == "own"
Ends == {Own} \cup Strangers
None == "none"

\* The other processes do not know the key.
ASSUME PairAssumption ==
    /\ Key \in Seq(Range(Key)) /\ \E i \in DOMAIN Key : Key[i] # Junk
    /\ Own \notin Strangers /\ None \notin Strangers

PairInit ==
    pair = [main |-> "setup", accepter |-> None, failure |-> FALSE,
            server |-> FALSE, trigger |-> FALSE, tcp |-> [c \in Ends |-> "away"],
            line |-> [c \in Ends |-> <<>>], backlog |-> <<>>, conns |-> <<>>, at |-> 1,
            result |-> None, short |-> FALSE]

\* sockets_Destroy of the listening socket: what was not accepted is reset.
ServerClosed(p) ==
    [p EXCEPT !.server = FALSE, !.backlog = <<>>,
              !.tcp = [c \in Ends |-> IF @[c] = "queued" THEN "closed" ELSE @[c]]]

\* sockets_FreeSocketPairSetupData
FreeSetup(p) ==
    LET freed == [ServerClosed(p) EXCEPT !.trigger = FALSE, !.result = None]
    IN  IF p.result = None THEN freed ELSE [freed EXCEPT !.tcp[p.result] = "closed"]
GiveUp(p) == [FreeSetup(p) EXCEPT !.main = "failed"]

-----------------------------------------------------------------------------
(* The caller *)

\* Both sockets, the key, bind to IPv6 or once more with new sockets to IPv4, listen
\* and the port: each may fail.
SetUp ==
    /\ pair.main = "setup"
    /\ \E bound \in {"v6", "v4", None}, rest \in BOOLEAN :
         pair' = IF bound # None /\ rest
                 THEN [pair EXCEPT !.main = "spawn", !.server = TRUE, !.trigger = TRUE]
                 ELSE GiveUp(pair)

SpawnAccepter ==
    /\ pair.main = "spawn"
    /\ \/ pair' = [pair EXCEPT !.main = "connect", !.accepter = "accept"]
       \/ pair' = GiveUp(pair)

ConnectTrigger ==
    /\ pair.main = "connect"
    /\ \/ /\ pair.server
          /\ pair' = [pair EXCEPT !.main = "send", !.tcp[Own] = "queued",
                                  !.backlog = Append(@, Own)]
       \/ pair' = [pair EXCEPT !.main = "join", !.failure = TRUE]

\* The key may arrive in pieces; the call blocks until it is handed over.
SendKey ==
    /\ pair.main = "send"
    /\ \/ pair' = [pair EXCEPT !.main = "join", !.line[Own] = Key]
       \/ pair' = [pair EXCEPT !.main = "join", !.failure = TRUE]

Evaluate ==
    /\ pair.main = "join" /\ pair.accepter = "left"
    /\ IF pair.failure THEN pair' = GiveUp(pair)
       ELSE \/ pair' = [FreeSetup([pair EXCEPT !.result = None]) EXCEPT
                          !.main = "returned", !.trigger = TRUE, !.result = pair.result]
            \/ pair' = GiveUp(pair)  \* no memory for the second socket

-----------------------------------------------------------------------------
(* The accepting thread *)

\* What the thread does when it leaves: all connections but the chosen one are closed.
Leave(p) ==
    LET others == {c.of : c \in Range(p.conns)} \ {p.result}
    IN  [ServerClosed([p EXCEPT !.tcp = [c \in Ends |-> IF c \in others THEN "closed" ELSE @[c]]])
           EXCEPT !.accepter = "left"]

\* One round of the loop: accept one connection or none, then read from all.
Accept ==
    /\ pair.accepter = "accept"
    /\ IF pair.failure THEN pair' = Leave(pair)
       ELSE \/ /\ pair.backlog # <<>>
               /\ LET c == Head(pair.backlog)
                  IN  pair' = [pair EXCEPT !.accepter = "read", !.at = 1,
                                 !.backlog = Tail(@), !.tcp[c] = "accepted",
                                 !.conns = Append(@, [of |-> c, got |-> <<>>])]
            \/ /\ pair.backlog = <<>> /\ pair.conns # <<>>
               /\ pair' = [pair EXCEPT !.accepter = "read", !.at = 1]
            \/ pair' = [pair EXCEPT !.accepter = "left", !.failure = TRUE, !.short = TRUE]

\* The connection is closed and its place taken by the next one.
CloseConn(p, i) == [p EXCEPT !.tcp[p.conns[i].of] = "closed", !.conns = RemoveAt(@, i)]

\* A mutant: whoever sends enough is taken for the caller.
AnyFullKey(p, i, got) == Leave([p EXCEPT !.result = p.conns[i].of])

\* One recv: a piece, nothing yet, or an error; a full key is compared.
FullKey(p, i, got) == IF got = Key THEN Leave([p EXCEPT !.result = p.conns[i].of])
                                   ELSE CloseConn(p, i)
ReadConn ==
    /\ pair.accepter = "read"
    /\ LET i == pair.at
           c == pair.conns[i]
           got == Append(c.got, Head(pair.line[c.of]))
           read == [pair EXCEPT !.conns[i].got = got, !.line[c.of] = Tail(@)]
       IN  IF i > Len(pair.conns) THEN pair' = [pair EXCEPT !.accepter = "accept"]
           ELSE \/ pair.line[c.of] = <<>> /\ pair' = [pair EXCEPT !.at = @ + 1]
                \/ c.of # Own /\ pair' = CloseConn(pair, i)
                \/ /\ pair.line[c.of] # <<>>
                   /\ pair' = IF Len(got) < Len(Key) THEN [read EXCEPT !.at = @ + 1]
                              ELSE FullKey(read, i, got)

-----------------------------------------------------------------------------
(* Other processes: they connect while the port is open and send what they like. *)

StrangerConnects(c) ==
    /\ pair.server /\ pair.tcp[c] = "away"
    /\ pair' = [pair EXCEPT !.tcp[c] = "queued", !.backlog = Append(@, c)]

StrangerSends(c) ==
    /\ pair.tcp[c] \in {"queued", "accepted"}
    /\ Len(pair.line[c]) < Len(Key)  \* bound: pieces not read yet
    /\ pair' = [pair EXCEPT !.line[c] = Append(@, Junk)]

PairNext ==
    \/ SetUp \/ SpawnAccepter \/ ConnectTrigger \/ SendKey \/ Evaluate
    \/ Accept \/ ReadConn
    \/ \E c \in Strangers : StrangerConnects(c) \/ StrangerSends(c)

PairSpec == PairInit /\ [][PairNext]_pair

-----------------------------------------------------------------------------
\* A pair is the two ends of the connection the caller made itself, whoever else
\* connected and sent meanwhile, and nothing but these ends is left open; without a
\* pair nothing is, except that connections accepted before accept ran out of memory
\* are never closed (sockets.c:1046-1190, 1192-1428).
PairIsOwnConnection ==
    LET open == {c \in Ends : pair.tcp[c] = "accepted"}
    IN  /\ pair.main = "returned" =>
             pair.result = Own /\ pair.trigger /\ ~pair.server /\ open = {Own}
        /\ pair.main = "failed" =>
             ~pair.trigger /\ ~pair.server /\ (open # {} => pair.short)
=============================================================================
