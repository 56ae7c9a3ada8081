----------------------------- MODULE StartupProofs -----------------------------
(***************************************************************************)
(* Proofs about Startup, for any number of processes, any addresses of the *)
(* host and anything typed on the command line.  No assumption on the      *)
(* constants is used.                                                      *)
(***************************************************************************)
EXTENDS Startup, TLAPS

-----------------------------------------------------------------------------
(* The inductive invariant. *)

\* What a process has done of main and Server::start by the time it makes its
\* next system call.
SockFits(p) ==
    /\ pc[p] # "off" =>
          args[p] \in CommandLine \ {Missing} /\ PortIsValid(args[p].port)
    /\ pc[p] \in {"off", "socket", "setsockopt"} => sock[p] = NoSocket
    /\ pc[p] = "bind" =>
          ~sock[p].listening /\ sock[p].endpoint = NoEndpoint /\ sock[p].reuse # "unset"
    /\ pc[p] \in {"listen", "serving"} =>
          /\ sock[p].endpoint = Endpoint(args[p])
          /\ sock[p].endpoint \in Local \X (1..MaxPort)
    /\ sock[p].listening <=> pc[p] = "serving"

\* listen gives an endpoint to one socket only.
OneListens ==
    \A p, q \in Process :
        p # q /\ sock[p].listening /\ sock[q].listening =>
            sock[p].endpoint # sock[q].endpoint

IInv == TypeOK /\ (\A p \in Process : SockFits(p)) /\ OneListens

-----------------------------------------------------------------------------
\* A port that isValidPort accepts fits the 16 bits of sin_port: htons keeps it.
LEMMA PortFits ==
    ASSUME NEW a, PortIsValid(a.port)
    PROVE  Endpoint(a) = <<a.ip, a.port>> /\ a.port \in 1..MaxPort
  <1>1. a.port \in 1..MaxPort
    BY DEF PortIsValid
  <1>2. MaxPort \in Int /\ MaxPort < 65536
    BY DEF MaxPort
  <1>3. a.port \in Int /\ 0 < a.port /\ a.port < 65536
    BY <1>1, <1>2
  <1>4. a.port % 65536 = a.port
    BY <1>3
  <1>5. 2^16 = 65536
    OBVIOUS
  <1>6. QED
    BY <1>1, <1>4, <1>5 DEF Endpoint

\* Before the first server is started nobody has a socket.
LEMMA InitIInv == Init => IInv
  BY DEF Init, IInv, TypeOK, SockFits, OneListens, NoSocket

-----------------------------------------------------------------------------
(* A step of the process p changes nothing of the others, so it is enough   *)
(* to look at p, and at p against the others when it begins to listen.      *)

\* What a step of p leaves of the invariant to show.
LEMMA OnlyOne ==
    ASSUME IInv, NEW p \in Process, TypeOK', SockFits(p)',
           \A q \in Process \ {p} :
              pc'[q] = pc[q] /\ args'[q] = args[q] /\ sock'[q] = sock[q],
           \A q \in Process \ {p} :
              sock'[p].listening /\ sock[q].listening =>
                  sock'[p].endpoint # sock[q].endpoint
    PROVE  IInv'
  <1>1. ASSUME NEW q \in Process
        PROVE  SockFits(q)'
    <2>1. CASE q = p
      BY <2>1
    <2>2. CASE q # p
      BY <2>2 DEF IInv, SockFits
    <2>3. QED
      BY <2>1, <2>2
  <1>2. OneListens'
    BY DEF IInv, OneListens
  <1>3. QED
    BY <1>1, <1>2 DEF IInv

\* A process that gives up or ends has no socket.
LEMMA ReturnStep ==
    ASSUME IInv, NEW p \in Process, Return(p),
           args' \in [Process -> CommandLine \cup {Missing}],
           \A q \in Process \ {p} : args'[q] = args[q],
           lingering' \subseteq Local \X (1..MaxPort)
    PROVE  IInv'
  <1>1. TypeOK'
    BY DEF IInv, TypeOK, Return, NoSocket
  <1>2. SockFits(p)'
    BY DEF IInv, TypeOK, SockFits, Return, NoSocket
  <1>3. \A q \in Process \ {p} : pc'[q] = pc[q] /\ sock'[q] = sock[q]
    BY DEF IInv, TypeOK, Return
  <1>4. ~sock'[p].listening
    BY DEF IInv, TypeOK, Return, NoSocket
  <1>5. QED
    BY <1>1, <1>2, <1>3, <1>4, OnlyOne

\* main goes on with a port that is valid, and with no socket.
LEMMA MainStep ==
    ASSUME IInv, NEW p \in Process, Main(p)
    PROVE  IInv'
  <1>1. PICK a \in CommandLine :
          /\ args' = [args EXCEPT ![p] = a]
          /\ IF a = Missing \/ ~PortIsValid(a.port)
             THEN Return(p)
             ELSE Continue(p, "socket") /\ UNCHANGED sock
    BY DEF Main
  <1>2. args' \in [Process -> CommandLine \cup {Missing}]
    BY <1>1 DEF IInv, TypeOK
  <1>3. /\ pc[p] = "off"
        /\ lingering' = lingering
    BY DEF Main
  <1>4. CASE a = Missing \/ ~PortIsValid(a.port)
    BY <1>1, <1>2, <1>3, <1>4, ReturnStep DEF IInv, TypeOK
  <1>5. CASE ~(a = Missing \/ ~PortIsValid(a.port))
    <2>1. pc' = [pc EXCEPT ![p] = "socket"] /\ sock' = sock
      BY <1>1, <1>5 DEF Continue
    <2>2. TypeOK'
      BY <1>2, <1>3, <2>1 DEF IInv, TypeOK
    <2>3. sock[p] = NoSocket /\ ~sock[p].listening
      BY <1>3 DEF IInv, SockFits
    <2>4. SockFits(p)'
      BY <1>1, <1>5, <2>1, <2>3 DEF IInv, TypeOK, SockFits
    <2>5. \A q \in Process \ {p} :
            pc'[q] = pc[q] /\ args'[q] = args[q] /\ sock'[q] = sock[q]
      BY <1>1, <2>1 DEF IInv, TypeOK
    <2>6. QED
      BY <2>1, <2>2, <2>3, <2>4, <2>5, OnlyOne
  <1>6. QED
    BY <1>4, <1>5

\* socket gives nothing that is bound.
LEMMA SocketStep ==
    ASSUME IInv, NEW p \in Process, Socket(p)
    PROVE  IInv'
  <1>1. CASE Return(p)
    BY <1>1, ReturnStep DEF IInv, TypeOK, Socket
  <1>2. CASE Continue(p, "setsockopt") /\ UNCHANGED sock
    <2>1. pc' = [pc EXCEPT ![p] = "setsockopt"] /\ UNCHANGED <<args, sock, lingering>>
      BY <1>2 DEF Socket, Continue
    <2>2. pc[p] = "socket"
      BY DEF Socket
    <2>3. TypeOK'
      BY <2>1 DEF IInv, TypeOK
    <2>4. SockFits(p)'
      BY <2>1, <2>2 DEF IInv, TypeOK, SockFits, NoSocket
    <2>5. \A q \in Process \ {p} : pc'[q] = pc[q]
      BY <2>1 DEF IInv, TypeOK
    <2>6. ~sock'[p].listening
      BY <2>1, <2>2 DEF IInv, SockFits
    <2>7. QED
      BY <2>1, <2>3, <2>4, <2>5, <2>6, OnlyOne
  <1>3. QED
    BY <1>1, <1>2 DEF Socket

\* SO_REUSEADDR is asked for before bind.
LEMMA SetOptionStep ==
    ASSUME IInv, NEW p \in Process, SetOption(p)
    PROVE  IInv'
  <1>1. CASE args[p].ip = NoAddress
    BY <1>1, ReturnStep DEF IInv, TypeOK, SetOption
  <1>2. CASE args[p].ip # NoAddress
    <2>1. PICK result \in {"set", "failed"} : sock' = [sock EXCEPT ![p].reuse = result]
      BY <1>2 DEF SetOption
    <2>2. pc' = [pc EXCEPT ![p] = "bind"] /\ UNCHANGED <<args, lingering>>
      BY <1>2 DEF SetOption, Continue
    <2>3. pc[p] = "setsockopt" /\ sock[p] = NoSocket
      BY DEF SetOption, IInv, SockFits
    <2>4. sock'[p] = [NoSocket EXCEPT !.reuse = result]
      BY <2>1, <2>3 DEF IInv, TypeOK
    <2>5. TypeOK'
      BY <2>1, <2>2 DEF IInv, TypeOK
    <2>6. SockFits(p)'
      BY <2>2, <2>3, <2>4 DEF IInv, TypeOK, SockFits, NoSocket
    <2>7. \A q \in Process \ {p} : pc'[q] = pc[q] /\ sock'[q] = sock[q]
      BY <2>1, <2>2 DEF IInv, TypeOK
    <2>8. ~sock'[p].listening
      BY <2>4 DEF NoSocket
    <2>9. QED
      BY <2>2, <2>5, <2>6, <2>7, <2>8, OnlyOne
  <1>3. QED
    BY <1>1, <1>2

\* What the system does not refuse is an address of the host and a port.
LEMMA BindStep ==
    ASSUME IInv, NEW p \in Process, Bind(p)
    PROVE  IInv'
  <1> DEFINE e == Endpoint(args[p])
  <1>1. CASE Refused(p, e)
    BY <1>1, ReturnStep DEF IInv, TypeOK, Bind
  <1>2. CASE ~Refused(p, e)
    <2>1. /\ pc[p] = "bind"
          /\ pc' = [pc EXCEPT ![p] = "listen"]
          /\ sock' = [sock EXCEPT ![p].endpoint = e]
          /\ UNCHANGED <<args, lingering>>
      BY <1>2 DEF Bind, Continue
    <2>2. e = <<args[p].ip, args[p].port>> /\ args[p].port \in 1..MaxPort
      BY <2>1, PortFits DEF IInv, SockFits
    <2>3. e[1] \in Local
      BY <1>2 DEF Refused
    <2>4. e \in Local \X (1..MaxPort)
      BY <2>2, <2>3
    <2>5. TypeOK'
      BY <2>1, <2>4 DEF IInv, TypeOK
    <2>6. sock'[p].endpoint = e /\ ~sock'[p].listening
      BY <2>1 DEF IInv, TypeOK, SockFits
    <2>7. SockFits(p)'
      BY <2>1, <2>4, <2>6 DEF IInv, TypeOK, SockFits
    <2>8. \A q \in Process \ {p} : pc'[q] = pc[q] /\ sock'[q] = sock[q]
      BY <2>1 DEF IInv, TypeOK
    <2>9. QED
      BY <2>1, <2>5, <2>6, <2>7, <2>8, OnlyOne
  <1>3. QED
    BY <1>1, <1>2

\* listen succeeds only where no other socket listens.
LEMMA ListenStep ==
    ASSUME IInv, NEW p \in Process, Listen(p)
    PROVE  IInv'
  <1> DEFINE taken == \E q \in Process \ {p} :
                         sock[q].listening /\ sock[q].endpoint = sock[p].endpoint
  <1>1. CASE taken
    BY <1>1, ReturnStep DEF IInv, TypeOK, Listen
  <1>2. CASE ~taken
    <2>1. /\ pc[p] = "listen"
          /\ pc' = [pc EXCEPT ![p] = "serving"]
          /\ sock' = [sock EXCEPT ![p].listening = TRUE]
          /\ UNCHANGED <<args, lingering>>
      BY <1>2 DEF Listen, Continue
    <2>2. TypeOK'
      BY <2>1 DEF IInv, TypeOK
    <2>3. sock'[p].endpoint = sock[p].endpoint /\ sock'[p].listening
      BY <2>1 DEF IInv, TypeOK
    <2>4. SockFits(p)'
      BY <2>1, <2>3 DEF IInv, TypeOK, SockFits
    <2>5. \A q \in Process \ {p} : pc'[q] = pc[q] /\ sock'[q] = sock[q]
      BY <2>1 DEF IInv, TypeOK
    <2>6. QED
      BY <1>2, <2>1, <2>2, <2>3, <2>4, <2>5, OnlyOne
  <1>3. QED
    BY <1>1, <1>2

\* Only an endpoint that was served can linger.
LEMMA EndStep ==
    ASSUME IInv, NEW p \in Process, End(p)
    PROVE  IInv'
  <1>1. sock[p].endpoint \in Local \X (1..MaxPort)
    BY DEF End, IInv, SockFits
  <1>2. lingering' \subseteq Local \X (1..MaxPort)
    BY <1>1 DEF End, IInv, TypeOK
  <1>3. QED
    BY <1>2, ReturnStep DEF End, IInv, TypeOK

\* Every step keeps the invariant.
LEMMA NextIInv == IInv /\ [Next]_vars => IInv'
  <1> SUFFICES ASSUME IInv, [Next]_vars
               PROVE  IInv'
    OBVIOUS
  <1>1. CASE UNCHANGED vars
    BY <1>1 DEF vars, IInv, TypeOK, SockFits, OneListens
  <1>2. CASE Expire
    BY <1>2 DEF Expire, IInv, TypeOK, SockFits, OneListens
  <1>3. CASE \E p \in Process : Step(p)
    BY <1>3, MainStep, SocketStep, SetOptionStep, BindStep, ListenStep, EndStep DEF Step
  <1>4. QED
    BY <1>1, <1>2, <1>3 DEF Next

\* The invariant holds in every state of the specification.
LEMMA Invariance == Spec => []IInv
  BY InitIInv, NextIInv, PTL DEF Spec

-----------------------------------------------------------------------------
\* Every state is one of main and Server::start, whatever is typed.
THEOREM TypeCorrect == Spec => []TypeOK
  <1>1. IInv => TypeOK
    BY DEF IInv
  <1>2. QED
    BY Invariance, <1>1, PTL

\* However many servers are started on one endpoint, one serves there, although
\* SO_REUSEADDR lets all of them bind it.
THEOREM OneServerServes == Spec => []OneServerPerEndpoint
  <1>1. IInv => OneServerPerEndpoint
    BY DEF IInv, SockFits, OneListens, OneServerPerEndpoint
  <1>2. QED
    BY Invariance, <1>1, PTL

\* A server serves on the address and the port it was given: no port is cut to
\* another one by its 16 bits.
THEOREM ServesThere == Spec => []ServesWhereAsked
  <1>1. IInv => ServesWhereAsked
    BY PortFits DEF IInv, SockFits, ServesWhereAsked
  <1>2. QED
    BY Invariance, <1>1, PTL

\* What is left of a server that has ended never keeps bind from an address of the
\* host: only another server does, or SO_REUSEADDR could not be set.
THEOREM CanBeStartedAgain == Spec => RestartIsPossible
  <1> DEFINE Excused(p) ==
        \/ sock[p].reuse = "failed"
        \/ \E q \in Process \ {p} : sock[q].endpoint = Endpoint(args[p])
  <1>1. ASSUME IInv, [Next]_vars, NEW p \in Process,
               pc[p] = "bind", pc'[p] = "off", args[p].ip \in Local
        PROVE  Excused(p)
    <2>1. Bind(p)
      <3>1. ASSUME NEW q \in Process, Step(q), q # p
            PROVE  pc'[p] = pc[p]
        <4>1. \E call : pc' = [pc EXCEPT ![q] = call]
          BY <3>1 DEF Step, Main, Socket, SetOption, Bind, Listen, End, Return, Continue
        <4>2. QED
          BY <1>1, <3>1, <4>1 DEF IInv, TypeOK
      <3>2. ASSUME Step(p)
            PROVE  Bind(p)
        BY <1>1, <3>2 DEF Step, Main, Socket, SetOption, Listen, End
      <3>3. QED
        BY <1>1, <3>1, <3>2 DEF Next, Expire, vars
    <2>2. Refused(p, Endpoint(args[p]))
      BY <1>1, <2>1 DEF Bind, Continue, IInv, TypeOK
    <2>3. Endpoint(args[p])[1] = args[p].ip
      BY DEF Endpoint
    <2>4. sock[p].reuse \in {"set", "failed"}
      BY <1>1 DEF IInv, TypeOK, SockFits
    <2>5. QED
      BY <1>1, <2>2, <2>3, <2>4 DEF Refused
  <1>2. IInv /\ [Next]_vars =>
          [\A p \in Process :
            (pc[p] = "bind" /\ pc'[p] = "off" /\ args[p].ip \in Local) => Excused(p)]_vars
    BY <1>1 DEF vars
  <1>3. QED
    BY Invariance, <1>2, PTL DEF Spec, RestartIsPossible
=============================================================================
