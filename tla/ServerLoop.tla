------------------------------- MODULE ServerLoop -------------------------------
(***************************************************************************)
(* The loop of Server::connectionHandlerer over what the system tells it:  *)
(* one select(), then the descriptors it reported, one after the other,    *)
(* then perhaps a ping round.  The handlers are those of Server.           *)
(*                                                                         *)
(* Meanwhile the peers write and close.  A line sent to a peer that has    *)
(* closed is answered with a reset, and the next line after that raises    *)
(* SIGPIPE, which ends the process.                                        *)
(***************************************************************************)
EXTENDS Server

VARIABLES
    tests,    \* the descriptors that select() reported and the loop has not passed
    looping,  \* the loop over the descriptors is under way
    input,    \* what waits to be read: "none", "text", or "long" for more than BUFFER_SIZE
    peer,     \* "open", "closed", or "reset" after a line to a closed one
    killed    \* by SIGPIPE

netVars  == <<input, peer>>
loopVars == <<vars, tests, looping, netVars, killed>>

-----------------------------------------------------------------------------
(* A plausible mistake, used by no action. *)

\* The loop asks client_socks where it should ask tests.
ReadyAll == client_socks

-----------------------------------------------------------------------------
LoopInit ==
    /\ Init
    /\ tests = {}
    /\ looping = FALSE
    /\ input = [fd \in Fd |-> "none"]
    /\ peer = [fd \in Fd |-> "open"]
    /\ killed = FALSE

\* What select() reports: end of file counts as readable.
Ready == {fd \in client_socks : input[fd] # "none" \/ peer[fd] # "open"}

\* The sockets that an update of the game g goes to, after the step.
Hearers(g) == {client'[c].socket : c \in Range(players'[g])} \ {NoFd}

HearersOf(c) == IF client_state[c] \in Seated THEN Hearers(game[c]) ELSE {}

\* One line or more goes to each of the sockets fds.  In one step the first line
\* brings the reset; that it can come before the second one is left out.
Sent(fds) ==
    /\ killed' = \E fd \in fds : peer[fd] = "reset"
    /\ peer' = [fd \in Fd |-> IF fd \notin client_socks' THEN "open"
                              ELSE IF fd \in fds /\ peer[fd] = "closed" THEN "reset"
                              ELSE peer[fd]]

-----------------------------------------------------------------------------
\* select(), and accept() if somebody waits: the server's socket comes first.
Select ==
    /\ ~looping /\ ~killed /\ ~spinning
    /\ looping' = TRUE
    /\ tests' = Ready
    /\ (\E fd \in Fd : Accept(fd)) \/ UNCHANGED vars
    /\ UNCHANGED <<netVars, killed>>

\* A text is read, and whoever it concerns is told.  A wrong one is answered, unless
\* it is of no kind.
ReadText(fd, c) ==
    \/ \E n \in Name :
          \/ (LoginNew(fd, c, n) \/ LoginRefused(fd, c, n)) /\ Sent({fd})
          \/ LoginBack(fd, c, n) /\ Sent({fd} \cup HearersOf(client_names[n]))
    \/ Join(fd, c) /\ Sent(Hearers(game'[c]))
    \/ (Start(fd, c) \/ \E ch \in Letter : Quess(fd, c, ch)) /\ Sent(HearersOf(c))
    \/ Pong(fd, c) /\ Sent({})
    \/ /\ WrongMsg(fd, c)
       /\ \E answered \in SUBSET {fd} :
             Sent(answered \cup IF fd \in client_socks' THEN {} ELSE HearersOf(c))

\* A text that is too long stays where it is.
TooLong(fd, c) == WrongMsg(fd, c)

\* The loop comes to a descriptor that was reported.
Visit(fd) ==
    /\ looping /\ ~killed
    /\ fd \in tests
    /\ tests' = tests \ {fd}
    /\ LET c == GetClient(fd)
       IN  IF c = NoClient
           THEN UNCHANGED <<vars, netVars, killed>>
           ELSE CASE input[fd] = "text" ->
                       /\ ReadText(fd, c)
                       /\ input' = [input EXCEPT ![fd] = "none"]
                  [] input[fd] = "long" ->
                       /\ TooLong(fd, c)
                       /\ Sent(IF fd \in client_socks' THEN {} ELSE HearersOf(c))
                       /\ input' = IF fd \in client_socks' THEN input
                                                           ELSE [input EXCEPT ![fd] = "none"]
                  [] input[fd] = "none" ->
                       Eof(fd, c) /\ Sent(HearersOf(c)) /\ UNCHANGED input
    /\ UNCHANGED looping

\* The loop over the descriptors has come to its end.
PassIsOver ==
    /\ looping /\ ~killed /\ ~spinning
    /\ tests = {}
    /\ looping' = FALSE
    /\ UNCHANGED tests

\* PING_PERIOD has passed: a ping round ends the pass.
EndWithPings ==
    /\ PassIsOver
    /\ PingRound
    /\ Sent(({client'[c].socket : c \in Reached} \ {NoFd})
              \cup UNION {HearersOf(c) : c \in {d \in Reached : LosesConnection(d) \/ IsRemoved(d)}})
    /\ input' = [fd \in Fd |-> IF fd \in client_socks' THEN input[fd] ELSE "none"]

EndPass ==
    \/ EndWithPings
    \/ PassIsOver /\ UNCHANGED <<vars, netVars, killed>>

Loop == Select \/ EndPass \/ \E fd \in Fd : Visit(fd)

Writes(fd) ==
    /\ fd \in client_socks /\ peer[fd] = "open" /\ input[fd] = "none"
    /\ \E kind \in {"text", "long"} : input' = [input EXCEPT ![fd] = kind]
    /\ UNCHANGED <<vars, tests, looping, peer, killed>>

Closes(fd) ==
    /\ fd \in client_socks /\ peer[fd] = "open"
    /\ peer' = [peer EXCEPT ![fd] = "closed"]
    /\ UNCHANGED <<vars, tests, looping, input, killed>>

\* The process is gone, or its thread lost in a loop of its own.
Stopped == (killed \/ spinning) /\ UNCHANGED loopVars

LoopNext == Loop \/ Stopped \/ \E fd \in Fd : Writes(fd) \/ Closes(fd)

LoopSpec == LoopInit /\ [][LoopNext]_loopVars

\* Nothing in the loop waits, as select() has a zero timeout, and PING_PERIOD passes
\* again and again.
FairLoopSpec == LoopSpec /\ WF_loopVars(Loop) /\ SF_loopVars(EndWithPings)

-----------------------------------------------------------------------------
\* What select() reported is still so when the loop comes to it, whatever the
\* handlers before did: otherwise a read would find nothing, and the code takes
\* nothing for the end of the connection.
SnapshotIsCurrent ==
    (~killed /\ ~spinning) =>
        \A fd \in tests : fd \in client_socks /\ (input[fd] # "none" \/ peer[fd] # "open")

\* Every text is taken from its socket, or the session ends and the socket with it:
\* also for one that the code leaves there because it is too long, and for a client
\* that a ping round disconnects before it was read.
InputIsTaken ==
    \A fd \in Fd : (input[fd] # "none") ~> (input[fd] = "none" \/ killed \/ spinning)

\* Every peer that closes is noticed, whatever it wrote before and whatever the
\* server sends it meanwhile.
CloseIsNoticed ==
    \A fd \in Fd : (peer[fd] # "open") ~> (peer[fd] = "open" \/ killed \/ spinning)

\* A player who is offline comes back or is removed, so its seat, its turn and its
\* name do not stay blocked: though a ping round stops at the first client that it
\* removes, and the loop has peers to serve that come, write and go without end.
OfflineIsResolved ==
    \A c \in Client :
        (c \in Connected /\ ~Online(c)) ~> (c \notin Connected \/ Online(c) \/ spinning \/ killed)

\* ups_doc.tex:376, the applications do not crash.
ServerSurvives == ~killed
=============================================================================
