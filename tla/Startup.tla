-------------------------------- MODULE Startup --------------------------------
(***************************************************************************)
(* From the command line to the loop of the server: main and               *)
(* Server::start, for several processes of the server on one host.         *)
(*                                                                         *)
(* Each system call is a step of its own, because processes started at the *)
(* same time interleave.  The system is Linux: with SO_REUSEADDR on both,  *)
(* two sockets can be bound to one endpoint as long as none listens, and   *)
(* connections of a process that has ended (TIME_WAIT) are no obstacle.    *)
(***************************************************************************)
EXTENDS Integers, FiniteSets

CONSTANTS
    Process,      \* processes of the server, one after the other under one name
    Local,        \* the addresses of the host
    CommandLine,  \* what is typed: records [ip, port], or Missing
    Missing,      \* fewer than two parameters
    NoAddress,    \* an ip for which inet_addr returns -1
    NoNumber,     \* a port that does not begin with a number that fits an int
    NoEndpoint    \* the socket is not bound

\* A typed port is the number it begins with: std::stoi reads no further.
ASSUME CommandLineAssumption ==
    \A a \in CommandLine \ {Missing} : a.port \in Int \cup {NoNumber}

VARIABLES
    pc,        \* the next system call of a process, "off" before main and after it
    args,      \* its command line
    sock,      \* its server_socket: what it is bound to, SO_REUSEADDR, listening
    lingering  \* endpoints with connections in TIME_WAIT

vars == <<pc, args, sock, lingering>>

\* The highest port isValidPort lets through.
MaxPort == 65535

NoSocket == [endpoint |-> NoEndpoint, reuse |-> "unset", listening |-> FALSE]

Init ==
    /\ pc = [p \in Process |-> "off"]
    /\ args = [p \in Process |-> Missing]
    /\ sock = [p \in Process |-> NoSocket]
    /\ lingering = {}

-----------------------------------------------------------------------------
(* Plausible mistakes, used by no action. *)

\* One port too many, which htons makes port 0: a port of the system's choice.
PortIsValidAtEdge(port) == port \in 1..(MaxPort + 1)

\* Port 0 is taken for valid.
PortIsValidFromZero(port) == port \in 0..MaxPort

\* listen is compared with <= 0: success is taken for an error.
ListenFailsOnZero(p) ==
    /\ pc[p] = "listen"
    /\ pc' = [pc EXCEPT ![p] = "off"]
    /\ sock' = [sock EXCEPT ![p] = NoSocket]
    /\ UNCHANGED <<args, lingering>>

\* The result of listen is not looked at.
ListenAnyway(p) ==
    /\ pc[p] = "listen"
    /\ pc' = [pc EXCEPT ![p] = "serving"]
    /\ sock' = [sock EXCEPT ![p].listening =
                   ~\E q \in Process \ {p} : sock[q].listening /\ sock[q].endpoint = sock[p].endpoint]
    /\ UNCHANGED <<args, lingering>>

\* SO_REUSEADDR is never asked for.
SetOptionNot(p) ==
    /\ pc[p] = "setsockopt"
    /\ pc' = [pc EXCEPT ![p] = "bind"]
    /\ UNCHANGED <<args, sock, lingering>>

-----------------------------------------------------------------------------
\* isValidPort does not return -1.
PortIsValid(port) == port \in 1..MaxPort

\* sin_port has 16 bits.
Endpoint(a) == <<a.ip, a.port % 2^16>>

\* main returns, and the system closes what the process had open.
Return(p) ==
    /\ pc' = [pc EXCEPT ![p] = "off"]
    /\ sock' = [sock EXCEPT ![p] = NoSocket]

Continue(p, call) == pc' = [pc EXCEPT ![p] = call]

\* main, up to the call of Server::start.
Main(p) ==
    /\ pc[p] = "off"
    /\ \E a \in CommandLine :
        /\ args' = [args EXCEPT ![p] = a]
        /\ IF a = Missing \/ ~PortIsValid(a.port)
           THEN Return(p)
           ELSE Continue(p, "socket") /\ UNCHANGED sock
    /\ UNCHANGED lingering

Socket(p) ==
    /\ pc[p] = "socket"
    /\ \/ Continue(p, "setsockopt") /\ UNCHANGED sock
       \/ Return(p)
    /\ UNCHANGED <<args, lingering>>

\* A failure of setsockopt is only reported.  The ip is looked at after it.
SetOption(p) ==
    /\ pc[p] = "setsockopt"
    /\ IF args[p].ip = NoAddress
       THEN Return(p)
       ELSE /\ Continue(p, "bind")
            /\ \E result \in {"set", "failed"} : sock' = [sock EXCEPT ![p].reuse = result]
    /\ UNCHANGED <<args, lingering>>

\* The system refuses the endpoint e to the socket of p.
Refused(p, e) ==
    \/ e[1] \notin Local
    \/ e \in lingering /\ sock[p].reuse # "set"
    \/ \E q \in Process \ {p} :
          /\ sock[q].endpoint = e
          /\ sock[q].listening \/ sock[p].reuse # "set" \/ sock[q].reuse # "set"

Bind(p) ==
    /\ pc[p] = "bind"
    /\ IF Refused(p, Endpoint(args[p]))
       THEN Return(p)
       ELSE /\ Continue(p, "listen")
            /\ sock' = [sock EXCEPT ![p].endpoint = Endpoint(args[p])]
    /\ UNCHANGED <<args, lingering>>

\* Of the sockets bound to one endpoint the first to listen has it.
Listen(p) ==
    /\ pc[p] = "listen"
    /\ IF \E q \in Process \ {p} : sock[q].listening /\ sock[q].endpoint = sock[p].endpoint
       THEN Return(p)
       ELSE /\ Continue(p, "serving")
            /\ sock' = [sock EXCEPT ![p].listening = TRUE]
    /\ UNCHANGED <<args, lingering>>

\* select fails and connectionHandlerer returns, or the process is killed.  Either
\* way connections may remain in TIME_WAIT.
End(p) ==
    /\ pc[p] = "serving"
    /\ Return(p)
    /\ lingering' \in {lingering, lingering \cup {sock[p].endpoint}}
    /\ UNCHANGED args

Expire ==
    /\ \E e \in lingering : lingering' = lingering \ {e}
    /\ UNCHANGED <<pc, args, sock>>

Step(p) == Main(p) \/ Socket(p) \/ SetOption(p) \/ Bind(p) \/ Listen(p) \/ End(p)

Next == Expire \/ \E p \in Process : Step(p)

Spec == Init /\ [][Next]_vars

\* A process that has been started goes on; nobody need start or end one.
FairSpec ==
    Spec /\ \A p \in Process : WF_vars(Socket(p) \/ SetOption(p) \/ Bind(p) \/ Listen(p))

-----------------------------------------------------------------------------
TypeOK ==
    /\ pc \in [Process -> {"off", "socket", "setsockopt", "bind", "listen", "serving"}]
    /\ args \in [Process -> CommandLine \cup {Missing}]
    /\ sock \in [Process -> [endpoint : (Local \X (1..MaxPort)) \cup {NoEndpoint},
                             reuse : {"unset", "set", "failed"},
                             listening : BOOLEAN]]
    /\ lingering \subseteq Local \X (1..MaxPort)

\* Of servers started at the same time on one endpoint at most one serves there,
\* although SO_REUSEADDR lets all of them bind it.
OneServerPerEndpoint ==
    \A p, q \in Process :
        pc[p] = "serving" =>
            /\ sock[p].listening
            /\ q # p /\ pc[q] = "serving" => sock[q].endpoint # sock[p].endpoint

\* A server serves on the address and the port it was started with, also at the
\* ends of the range of ports.
ServesWhereAsked ==
    \A p \in Process :
        pc[p] = "serving" => sock[p].endpoint = <<args[p].ip, args[p].port>>

\* The server can be started again right after it has ended: bind refuses an
\* address of the host only because of another server, unless the option could
\* not be set.
RestartIsPossible ==
    [][\A p \in Process :
        (pc[p] = "bind" /\ pc'[p] = "off" /\ args[p].ip \in Local) =>
            \/ sock[p].reuse = "failed"
            \/ \E q \in Process \ {p} : sock[q].endpoint = Endpoint(args[p])]_vars

\* Servers that are started together do not all give up: an endpoint that one of
\* them has bound is served.
BoundIsServed ==
    \A a \in {l \in CommandLine \ {Missing} : PortIsValid(l.port)} :
        (\E p \in Process : sock[p].endpoint = Endpoint(a)) ~>
            \E p \in Process : pc[p] = "serving" /\ sock[p].endpoint = Endpoint(a)
=============================================================================
