------------------------------ MODULE WsServer ------------------------------
(***************************************************************************)
(* src/wsserver.c with the callbacks of app/sdrserver.c: the listening     *)
(* thread, a thread per accepted connection that serves a file or a        *)
(* websocket, and the library's reader thread, which sends every encoded   *)
(* packet to srv->clientWs through codecOutput.                            *)
(*                                                                         *)
(* The process's descriptor table is modelled, because the threads share   *)
(* it: socket() and fopen() take the lowest free number, and a number      *)
(* closed twice may belong to somebody else the second time.               *)
(***************************************************************************)
EXTENDS Naturals

CONSTANTS Handlers,   \* connections, each with the WsHandler record that malloc
                      \* hands out for it, if it does
          Fds,        \* descriptor numbers left for connections and files
          Null, Junk  \* values of clientWs: NULL, and what wsCreate's malloc
                      \* left there

ASSUME FdsAssumption == Fds \subseteq Nat \ {0}
ASSUME HandlersAssumption == Handlers \cap {Null, Junk} = {} /\ Null # Junk

VARIABLES
  up,                 \* the process lives
  hpc, sock, file,    \* per handler: control, its socket and file numbers
  peer,               \* its peer: "up", "fin" (closed) or "rst" (reset)
  desc,               \* what each number stands for
  clientWs,           \* the field of WsServer
  streaming,          \* sdrStart succeeded: the reader thread encodes
  spc, sws, sfd       \* reader thread in codecOutput: control, ws, sock

server  == <<up, clientWs, streaming>>
handler == <<hpc, sock, file>>
sender  == <<spc, sws, sfd>>
vars == <<server, handler, peer, desc, sender>>

Free    == <<"free">>
Sock(h) == <<"sock", h>>
File(h) == <<"file", h>>

FreeFds == {n \in Fds : desc[n] = Free}
Lowest(n) == n \in FreeFds /\ \A m \in FreeFds : n <= m
NoFd == 0   \* stands for no number taken yet

Init == /\ up = TRUE
        /\ hpc = [h \in Handlers |-> "free"]
        /\ sock = [h \in Handlers |-> NoFd]
        /\ file = [h \in Handlers |-> NoFd]
        /\ peer = [h \in Handlers |-> "up"]
        /\ desc = [n \in Fds |-> Free]
        /\ clientWs = Junk
        /\ streaming = FALSE
        /\ spc = "idle" /\ sws = Null /\ sfd = NoFd

At(h, l, m) == up /\ hpc[h] = l /\ hpc' = [hpc EXCEPT ![h] = m]
CloseFd(n)  == desc' = [desc EXCEPT ![n] = Free]

\* write() to number n.  A peer that closed answers with a reset, and a
\* write after the reset raises SIGPIPE, which nobody handles.
Write(n) ==
  IF \E h \in Handlers : desc[n] = Sock(h)
  THEN LET h == CHOOSE h \in Handlers : desc[n] = Sock(h) IN
       /\ up' = (peer[h] # "rst")
       /\ peer' = IF peer[h] = "fin" THEN [peer EXCEPT ![h] = "rst"] ELSE peer
  ELSE UNCHANGED <<up, peer>>   \* -1, which every caller survives
-----------------------------------------------------------------------------
\* listenForClients.  After accept() either call may fail: without a record
\* ("none") it goes on to the next connection, without a thread ("unstarted") it
\* returns; neither closes the socket.
Listening == up /\ \A h \in Handlers : hpc[h] # "unstarted"

Accept(h) ==
  \E n \in Fds, outcome \in {"request", "none", "unstarted"} :
    /\ Listening /\ Lowest(n)
    /\ At(h, "free", outcome)
    /\ sock' = [sock EXCEPT ![h] = n]
    /\ desc' = [desc EXCEPT ![n] = Sock(h)]
    /\ peer' = [peer EXCEPT ![h] = "up"]
    /\ UNCHANGED <<server, file, sender>>

\* accept() failing is reported and then handled like a connection: fgets on
\* the NULL that fdopen(-1) returns ends the process.  (Without a record for it
\* accept() is called again.)
AcceptFails ==
  /\ Listening /\ FreeFds = {}
  /\ up' = FALSE
  /\ UNCHANGED <<clientWs, streaming, handler, peer, desc, sender>>

\* The listener has returned: wsServe joins it, doRun deletes its SdrServer, and
\* main ends the process.  The handlers and the stream may run until then.
ServerEnds ==
  /\ up /\ ~Listening
  /\ up' = FALSE
  /\ UNCHANGED <<clientWs, streaming, handler, peer, desc, sender>>
-----------------------------------------------------------------------------
\* handleClient: the request line and the headers decide what follows.

Request(h) ==
  /\ \E m \in {"reject", "open", "upgrade"} : At(h, "request", m)
  /\ UNCHANGED <<server, sock, file, peer, desc, sender>>

\* A request line of no word or of one, and a header of colons, are taken apart
\* by strtok_r all the same; the NULL it returns ends the process.
RequestWithoutWord(h) ==
  /\ up /\ hpc[h] = "request"
  /\ up' = FALSE
  /\ UNCHANGED <<clientWs, streaming, handler, peer, desc, sender>>

Reject(h) ==
  /\ At(h, "reject", "fclose")
  /\ Write(sock[h])
  /\ UNCHANGED <<clientWs, streaming, sock, file, desc, sender>>

\* serveFile.
FileMissing(h) ==
  /\ At(h, "open", "fclose")
  /\ Write(sock[h])
  /\ UNCHANGED <<clientWs, streaming, sock, file, desc, sender>>

FileOpen(h) ==
  \E n \in Fds :
    /\ Lowest(n)
    /\ At(h, "open", "serve")
    /\ file' = [file EXCEPT ![h] = n]
    /\ desc' = [desc EXCEPT ![n] = File(h)]
    /\ UNCHANGED <<server, sock, peer, sender>>

\* One write of several: four lines of header, and a buffer at a time.
FileSend(h) ==
  /\ \E m \in {"serve", "served"} : At(h, "serve", m)
  /\ Write(sock[h])
  /\ UNCHANGED <<clientWs, streaming, sock, file, desc, sender>>

FileKeptOpen(h) ==        \* a mutant: no fclose(f) at the end of serveFile
  /\ At(h, "served", "fclose")
  /\ UNCHANGED <<server, sock, file, peer, desc, sender>>

FileClose(h) ==
  /\ At(h, "served", "fclose")
  /\ CloseFd(file[h])
  /\ UNCHANGED <<server, sock, file, peer, sender>>
-----------------------------------------------------------------------------
\* handleClientWebsocket.

Upgrade(h) ==
  /\ At(h, "upgrade", "publish")
  /\ Write(sock[h])
  /\ UNCHANGED <<clientWs, streaming, sock, file, desc, sender>>

PublishNot(h) ==          \* a mutant: clientWs is left for the first message
  /\ At(h, "publish", "receive")
  /\ UNCHANGED <<server, sock, file, peer, desc, sender>>

Publish(h) ==
  /\ At(h, "publish", "receive")
  /\ clientWs' = h
  /\ UNCHANGED <<up, streaming, sock, file, peer, desc, sender>>

\* The socket behind number n, as its reader finds it: a number that is not a
\* socket, or one whose peer reset, makes read() return -1.
Failed(n) == ~\E h \in Handlers : desc[n] = Sock(h) /\ peer[h] # "rst"

\* A frame arrives and onMessage executes its command.  A peer that closed
\* makes read() return 0, which is not looked for: the loop goes on with
\* whatever its buffers hold.  "start" starts the stream; "stop" while there
\* is a stream never comes back (see SdrSession); of other commands nothing
\* shows here.
ReceiveStart(h) ==
  /\ At(h, "receive", "receive")
  /\ ~Failed(sock[h])
  /\ streaming' = TRUE
  /\ UNCHANGED <<up, clientWs, sock, file, peer, desc, sender>>

ReceiveStop(h) ==
  /\ streaming
  /\ At(h, "receive", "stopping")
  /\ ~Failed(sock[h])
  /\ UNCHANGED <<server, sock, file, peer, desc, sender>>

ReceiveFailsEarly(h) ==   \* a mutant: return instead of break
  /\ At(h, "receive", "fclose")
  /\ Failed(sock[h])
  /\ UNCHANGED <<server, sock, file, peer, desc, sender>>

ReceiveRetries(h) ==      \* a mutant: an error is retried like a short read
  /\ At(h, "receive", "receive")
  /\ Failed(sock[h])
  /\ UNCHANGED <<server, sock, file, peer, desc, sender>>

ReceiveFails(h) ==
  /\ At(h, "receive", "clear")
  /\ Failed(sock[h])
  /\ UNCHANGED <<server, sock, file, peer, desc, sender>>

\* Whoever's websocket clientWs is by now.
Clear(h) ==
  /\ At(h, "clear", "fclose")
  /\ clientWs' = Null
  /\ UNCHANGED <<up, streaming, sock, file, peer, desc, sender>>

\* fclose(in) closes sock, and close(sock) closes that number once more.
Fclose(h) ==
  /\ At(h, "fclose", "close")
  /\ CloseFd(sock[h])
  /\ UNCHANGED <<server, sock, file, peer, sender>>

Close(h) ==
  /\ At(h, "close", "delete")
  /\ CloseFd(sock[h])
  /\ UNCHANGED <<server, sock, file, peer, sender>>

HandlerDelete(h) ==
  /\ At(h, "delete", "free")
  /\ sock' = [sock EXCEPT ![h] = NoFd]
  /\ file' = [file EXCEPT ![h] = NoFd]
  /\ UNCHANGED <<server, peer, desc, sender>>
-----------------------------------------------------------------------------
\* codecOutput on the reader thread.

SendGet ==
  /\ up /\ streaming /\ spc = "idle"
  /\ clientWs # Null
  /\ sws' = clientWs /\ spc' = "packet"
  /\ UNCHANGED <<server, handler, peer, desc, sfd>>

\* wsSendPacket reads ws->socket; a record freed since has no socket to offer.
SendSocket ==
  /\ up /\ spc = "packet"
  /\ IF sws \in Handlers /\ hpc[sws] \notin {"free", "none"}
     THEN spc' = "header" /\ sfd' = sock[sws] /\ UNCHANGED up
     ELSE up' = FALSE /\ UNCHANGED <<spc, sfd>>
  /\ sws' = Null
  /\ UNCHANGED <<clientWs, streaming, handler, peer, desc>>

SendHeader ==
  /\ up /\ spc = "header"
  /\ Write(sfd)
  /\ IF \E h \in Handlers : desc[sfd] = Sock(h)
     THEN spc' = "payload" /\ UNCHANGED sfd
     ELSE spc' = "idle" /\ sfd' = NoFd
  /\ UNCHANGED <<clientWs, streaming, handler, desc, sws>>

SendPayload ==
  /\ up /\ spc = "payload"
  /\ Write(sfd)
  /\ spc' = "idle" /\ sfd' = NoFd
  /\ UNCHANGED <<clientWs, streaming, handler, desc, sws>>

\* The peer closes its side, or the connection breaks.
PeerLeaves(h) ==
  /\ up /\ \E n \in Fds : desc[n] = Sock(h)
  /\ \/ peer[h] = "up" /\ peer' = [peer EXCEPT ![h] = "fin"]
     \/ peer[h] # "rst" /\ peer' = [peer EXCEPT ![h] = "rst"]
  /\ UNCHANGED <<server, handler, desc, sender>>
-----------------------------------------------------------------------------
Ending(h) == Clear(h) \/ Fclose(h) \/ Close(h) \/ HandlerDelete(h)

Handler(h) == \/ Request(h) \/ RequestWithoutWord(h) \/ Reject(h)
              \/ FileMissing(h) \/ FileOpen(h) \/ FileSend(h) \/ FileClose(h)
              \/ Upgrade(h) \/ Publish(h) \/ ReceiveStart(h) \/ ReceiveStop(h)
              \/ ReceiveFails(h) \/ Ending(h)

Sender == SendGet \/ SendSocket \/ SendHeader \/ SendPayload

Next == \/ \E h \in Handlers : Accept(h) \/ Handler(h) \/ PeerLeaves(h)
        \/ AcceptFails \/ ServerEnds
        \/ Sender

Spec == Init /\ [][Next]_vars

\* A handler that has something to do is scheduled; clients, and a command
\* that a client may never send, are under no obligation.
Fairness == \A h \in Handlers :
              /\ WF_vars(ReceiveFails(h))
              /\ WF_vars(Ending(h))

LiveSpec == Spec /\ Fairness
-----------------------------------------------------------------------------
HandlerLabels == {"free", "request", "reject", "open", "serve", "served", "upgrade",
                  "publish", "receive", "stopping", "clear", "fclose", "close",
                  "delete", "none", "unstarted"}
Things == {Free} \cup {Sock(h) : h \in Handlers} \cup {File(h) : h \in Handlers}

TypeOK == /\ up \in BOOLEAN /\ streaming \in BOOLEAN
          /\ hpc \in [Handlers -> HandlerLabels]
          /\ sock \in [Handlers -> Fds \cup {NoFd}]
          /\ file \in [Handlers -> Fds \cup {NoFd}]
          /\ peer \in [Handlers -> {"up", "fin", "rst"}]
          /\ desc \in [Fds -> Things]
          /\ clientWs \in Handlers \cup {Null, Junk}
          /\ spc \in {"idle", "packet", "header", "payload"}
          /\ sws \in Handlers \cup {Null, Junk}
          /\ sfd \in Fds \cup {NoFd}

\* wsGetClientWs never returns a record that handleClient has freed, although
\* clientWs is written by every handler and cleared by whichever ends first.
ClientWsLive == clientWs \in Handlers =>
                  hpc[clientWs] \in {"receive", "stopping", "clear"}

\* The memory wsCreate left uninitialised is never taken for a client: only a
\* websocket's message can start the stream, and its handler has published
\* itself by then.
JunkNeverUsed == sws # Junk /\ (streaming => clientWs # Junk)

\* The threads leak no descriptor, in spite of numbers closed twice and reused in
\* between: what handler h opened, h still has to close.  The listener leaks the
\* sockets for which it could make no record or no thread, and only those.
Closing == HandlerLabels \ {"free", "delete", "none", "unstarted"}
DescriptorsHeld ==
  \A n \in Fds, h \in Handlers :
    /\ desc[n] = Sock(h) => hpc[h] \in Closing \cup {"none", "unstarted"} /\ sock[h] = n
    /\ desc[n] = File(h) => hpc[h] \in {"serve", "served"} /\ file[h] = n

\* Why the stream never meets Junk: whoever can start it has published.
Published == /\ JunkNeverUsed
             /\ \A h \in Handlers :
                  hpc[h] \in {"receive", "stopping"} => clientWs # Junk

\* A websocket whose connection broke is given up: its handler ends and its
\* record and descriptor are free for the next client.
BrokenClientEnds ==
  \A h \in Handlers :
    (hpc[h] = "receive" /\ Failed(sock[h])) ~>
      (hpc[h] \in {"free", "stopping"} \/ ~Failed(sock[h]) \/ ~up)
-----------------------------------------------------------------------------
\* What a comment says and the code does not do.

\* "Return an existing client websocket, if any, else NULL"
\* (src/wsserver.h:85).
ClientWsFound ==
  (\E h \in Handlers : hpc[h] = "receive") => clientWs \in Handlers
=============================================================================
