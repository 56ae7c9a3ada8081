------------------------------ MODULE ReadingProofs ------------------------------
(***************************************************************************)
(* Proofs about what the server reads: when the loop reads (ServerLoop)    *)
(* and what handle_message makes of the text (MessageHandler).  Both       *)
(* modules use the handlers only in ways that Server allows, so what       *)
(* ServerProofs says holds for both.                                       *)
(*                                                                         *)
(* Of the loop: what select() reported stays so until the loop comes to    *)
(* it.  Of the texts: a text is read as a message exactly if it is a       *)
(* sentence, that is one of LooseFormats, whatever its length, so those of *)
(* a documented format are; and messages that arrive together are never    *)
(* played in part.                                                         *)
(***************************************************************************)
EXTENDS ServerLoop, MessageHandler, ServerProofs


\* The types of what the system tells the loop.
LoopTypeOK ==
    /\ tests \subseteq Fd
    /\ looping \in BOOLEAN
    /\ input \in [Fd -> {"none", "text", "long"}]
    /\ peer \in [Fd -> {"open", "closed", "reset"}]
    /\ killed \in BOOLEAN

\* The inductive invariant.  The one of Server is needed for the sockets: that the
\* client of a descriptor has this descriptor, so that a handler closes no other.
LoopIInv == IInv /\ LoopTypeOK /\ SnapshotIsCurrent

-----------------------------------------------------------------------------
(* The handlers, and the loop around them *)

\* A handler closes no descriptor but its own.
LEMMA OwnSocketOnly ==
    ASSUME IInv, NEW fd \in Fd, NEW c \in Client, Handle(fd, c)
    PROVE  client_socks \ {fd} \subseteq client_socks'
<1>1. client[c].socket = fd
  BY ReaderFacts DEF Handle, LoginNew, LoginBack, LoginRefused, Join, Start, Quess, Pong,
                     WrongMsg, Eof
<1>2. ASSUME NEW cl, Kick(c, cl) PROVE client_socks \ {fd} \subseteq client_socks'
  BY <1>1, <1>2 DEF Kick, Disconnet
<1>3. ASSUME NEW n \in Name, LoginNew(fd, c, n) \/ LoginBack(fd, c, n) \/ LoginRefused(fd, c, n)
      PROVE  client_socks \ {fd} \subseteq client_socks'
  BY <1>2, <1>3 DEF LoginNew, LoginBack, LoginRefused
<1>4. Join(fd, c) \/ Start(fd, c) \/ Pong(fd, c) => client_socks' = client_socks
  BY DEF Join, Start, Pong
<1>5. ASSUME NEW ch \in Letter, Quess(fd, c, ch) PROVE client_socks' = client_socks
  BY <1>5 DEF Quess
<1>6. WrongMsg(fd, c) => client_socks \ {fd} \subseteq client_socks'
  BY <1>2 DEF WrongMsg
<1>7. Eof(fd, c) => client_socks \ {fd} \subseteq client_socks'
  BY <1>1, <1>2 DEF Eof, TempDisconnect
<1>. QED
  BY <1>3, <1>4, <1>5, <1>6, <1>7 DEF Handle

\* What is sent closes no peer that was open, opens none, and has no other effect
\* than perhaps the signal.
LEMMA SentKeepsTypes ==
    ASSUME NEW fds, Sent(fds), LoopTypeOK
    PROVE  /\ killed' \in BOOLEAN
           /\ peer' \in [Fd -> {"open", "closed", "reset"}]
           /\ \A x \in client_socks' \cap Fd : peer[x] # "open" => peer'[x] # "open"
BY DEF Sent, LoopTypeOK

\* Reading a text is one of the handlers of Server, and something is sent.
LEMMA ReadTextIsHandle ==
    ASSUME NEW fd, NEW c, ReadText(fd, c)
    PROVE  Handle(fd, c) /\ \E fds : Sent(fds)
BY DEF ReadText, Handle

\* A visit of the loop to a descriptor: nothing, or a handler of this descriptor.
LEMMA VisitSteps ==
    ASSUME IInv, LoopTypeOK, NEW fd \in Fd, Visit(fd)
    PROVE  /\ ~killed /\ tests' = tests \ {fd} /\ looping' = looping
           /\ \/ UNCHANGED <<vars, netVars, killed>>
              \/ /\ \E c \in Client : Handle(fd, c)
                 /\ input' \in [Fd -> {"none", "text", "long"}]
                 /\ \A x \in Fd \ {fd} : input'[x] = input[x]
                 /\ \E fds : Sent(fds)
<1>1. ~killed /\ tests' = tests \ {fd} /\ looping' = looping
  BY DEF Visit
<1>2. PICK c : c = GetClient(fd)
  OBVIOUS
<1>3. CASE c = NoClient
  BY <1>1, <1>2, <1>3 DEF Visit
<1>4. CASE c # NoClient
  <2>1. c \in Client
    BY <1>2, <1>4 DEF IInv, SessionsTypeOK, GetClient
  <2>2. input \in [Fd -> {"none", "text", "long"}]
    BY DEF LoopTypeOK
  <2>3. CASE input[fd] = "text"
    <3>1. ReadText(fd, c) /\ input' = [input EXCEPT ![fd] = "none"]
      BY <1>2, <1>4, <2>3 DEF Visit
    <3>. QED
      BY <1>1, <2>1, <2>2, <3>1, ReadTextIsHandle
  <2>4. CASE input[fd] = "long"
    <3>1. /\ TooLong(fd, c)
          /\ \E fds : Sent(fds)
          /\ input' = input \/ input' = [input EXCEPT ![fd] = "none"]
      BY <1>2, <1>4, <2>4 DEF Visit
    <3>. QED
      BY <1>1, <2>1, <2>2, <3>1 DEF TooLong, Handle
  <2>5. CASE input[fd] = "none"
    <3>1. Eof(fd, c) /\ Sent(HearersOf(c)) /\ input' = input
      BY <1>2, <1>4, <2>5 DEF Visit
    <3>. QED
      BY <1>1, <2>1, <2>2, <3>1 DEF Handle
  <2>. QED
    BY <2>2, <2>3, <2>4, <2>5
<1>. QED
  BY <1>3, <1>4

\* The end of a pass: perhaps a ping round, and no report is left.
LEMMA EndPassSteps ==
    ASSUME EndPass
    PROVE  /\ ~killed /\ tests = {} /\ tests' = {} /\ looping' = FALSE
           /\ \/ UNCHANGED <<vars, netVars, killed>>
              \/ /\ PingRound
                 /\ \E fds : Sent(fds)
                 /\ input' = [fd \in Fd |-> IF fd \in client_socks' THEN input[fd] ELSE "none"]
BY DEF EndPass, EndWithPings, PassIsOver

\* The loop keeps the types.
LEMMA TypesStep ==
    ASSUME IInv, LoopTypeOK, [LoopNext]_loopVars
    PROVE  LoopTypeOK'
<1>1. CASE Select
  <2>1. Ready \subseteq Fd
    BY DEF Ready, IInv, SessionsTypeOK
  <2>. QED
    BY <1>1, <2>1 DEF Select, LoopTypeOK, netVars
<1>2. CASE EndPass
  BY <1>2, EndPassSteps, SentKeepsTypes DEF LoopTypeOK, netVars
<1>3. ASSUME NEW fd \in Fd, Visit(fd) PROVE LoopTypeOK'
  BY <1>3, VisitSteps, SentKeepsTypes DEF LoopTypeOK, netVars
<1>4. ASSUME NEW fd \in Fd, Writes(fd) PROVE LoopTypeOK'
  BY <1>4 DEF Writes, LoopTypeOK
<1>5. ASSUME NEW fd \in Fd, Closes(fd) PROVE LoopTypeOK'
  BY <1>5 DEF Closes, LoopTypeOK
<1>6. CASE UNCHANGED loopVars
  BY <1>6 DEF loopVars, netVars, LoopTypeOK
<1>. QED
  BY <1>1, <1>2, <1>3, <1>4, <1>5, <1>6 DEF LoopNext, Loop, Stopped

\* Every step of the loop is one of Server or changes nothing there.
LEMMA LoopStepIsServerStep ==
    ASSUME IInv, LoopTypeOK, [LoopNext]_loopVars
    PROVE  [Next]_vars
<1>1. Select => [Next]_vars
  BY DEF Select, Next
<1>2. EndPass => [Next]_vars
  BY EndPassSteps DEF Next
<1>3. ASSUME NEW fd \in Fd, Visit(fd) PROVE [Next]_vars
  BY <1>3, VisitSteps DEF Next
<1>4. ASSUME NEW fd \in Fd, Writes(fd) \/ Closes(fd) PROVE UNCHANGED vars
  BY <1>4 DEF Writes, Closes
<1>5. UNCHANGED loopVars => UNCHANGED vars
  BY DEF loopVars
<1>. QED
  BY <1>1, <1>2, <1>3, <1>4, <1>5 DEF LoopNext, Loop, Stopped

-----------------------------------------------------------------------------
(* The report of select() *)

\* What the loop has not come to yet stays as select() reported it, whatever the
\* handler of another descriptor does.
LEMMA SnapshotStep ==
    ASSUME LoopIInv, [LoopNext]_loopVars
    PROVE  SnapshotIsCurrent'
<1> USE DEF LoopIInv
<1> SUFFICES ASSUME ~killed', ~spinning', NEW x \in tests'
             PROVE  x \in client_socks' /\ (input'[x] # "none" \/ peer'[x] # "open")
  BY DEF SnapshotIsCurrent
<1>1. CASE Select
  <2>1. x \in Ready /\ input' = input /\ peer' = peer
    BY <1>1 DEF Select, netVars
  <2>2. client_socks \subseteq client_socks'
    BY <1>1 DEF Select, Accept, vars
  <2>. QED
    BY <2>1, <2>2 DEF Ready
<1>2. CASE EndPass
  BY <1>2, EndPassSteps
<1>3. ASSUME NEW fd \in Fd, Visit(fd)
      PROVE  x \in client_socks' /\ (input'[x] # "none" \/ peer'[x] # "open")
  <2>1. /\ ~killed /\ x \in tests \ {fd}
        /\ \/ UNCHANGED <<vars, netVars, killed>>
           \/ /\ \E c \in Client : Handle(fd, c)
              /\ \A y \in Fd \ {fd} : input'[y] = input[y]
              /\ \E fds : Sent(fds)
    BY <1>3, VisitSteps
  <2>2. CASE UNCHANGED <<vars, netVars, killed>>
    BY <2>1, <2>2 DEF vars, gameVars, netVars, SnapshotIsCurrent
  <2>3. CASE /\ \E c \in Client : Handle(fd, c)
             /\ \A y \in Fd \ {fd} : input'[y] = input[y]
             /\ \E fds : Sent(fds)
    <3>1. ~spinning
      BY <2>3 DEF Handle, LoginNew, LoginBack, LoginRefused, Join, Start, Quess, Pong,
                  WrongMsg, Eof, Reads
    <3>2. x \in client_socks /\ (input[x] # "none" \/ peer[x] # "open")
      BY <2>1, <3>1 DEF SnapshotIsCurrent
    <3>3. x \in client_socks' /\ x \in Fd \ {fd}
      BY <2>1, <2>3, <3>2, OwnSocketOnly DEF LoopTypeOK
    <3>. QED
      BY <2>3, <3>2, <3>3, SentKeepsTypes
  <2>. QED
    BY <2>1, <2>2, <2>3
<1>4. ASSUME NEW fd \in Fd, Writes(fd)
      PROVE  x \in client_socks' /\ (input'[x] # "none" \/ peer'[x] # "open")
  <2>1. PICK kind \in {"text", "long"} : input' = [input EXCEPT ![fd] = kind]
    BY <1>4 DEF Writes
  <2>2. x \in tests /\ ~killed /\ ~spinning /\ client_socks' = client_socks /\ peer' = peer
    BY <1>4 DEF Writes, vars, gameVars
  <2>. QED
    BY <2>1, <2>2 DEF LoopTypeOK, SnapshotIsCurrent
<1>5. ASSUME NEW fd \in Fd, Closes(fd)
      PROVE  x \in client_socks' /\ (input'[x] # "none" \/ peer'[x] # "open")
  <2>1. x \in tests /\ ~killed /\ ~spinning /\ client_socks' = client_socks /\ input' = input
    BY <1>5 DEF Closes, vars, gameVars
  <2>2. peer' = [peer EXCEPT ![fd] = "closed"]
    BY <1>5 DEF Closes
  <2>. QED
    BY <2>1, <2>2 DEF LoopTypeOK, SnapshotIsCurrent
<1>6. CASE UNCHANGED loopVars
  BY <1>6 DEF loopVars, vars, gameVars, netVars, SnapshotIsCurrent
<1>. QED
  BY <1>1, <1>2, <1>3, <1>4, <1>5, <1>6 DEF LoopNext, Loop, Stopped

-----------------------------------------------------------------------------
(* The theorems *)

\* The initial state of the loop.
LEMMA LoopInitIInv == LoopInit => LoopIInv
BY InitIInv DEF LoopInit, LoopIInv, LoopTypeOK, SnapshotIsCurrent

\* The inductive invariant is one.
LEMMA LoopInvariance == LoopSpec => []LoopIInv
<1>1. LoopIInv /\ [LoopNext]_loopVars => LoopIInv'
  BY LoopStepIsServerStep, NextIInv, TypesStep, SnapshotStep DEF LoopIInv
<1>. QED
  BY <1>1, LoopInitIInv, PTL DEF LoopSpec

\* The loop uses the handlers and the ping round only as Server describes: whatever
\* select() reports and in whatever order the peers write and close.
THEOREM LoopImplementsServer == LoopSpec => Spec
<1>1. LoopInit => Init
  BY DEF LoopInit
<1>2. LoopIInv /\ [LoopNext]_loopVars => [Next]_vars
  BY LoopStepIsServerStep DEF LoopIInv
<1>. QED
  BY <1>1, <1>2, LoopInvariance, PTL DEF LoopSpec, Spec

\* When the loop comes to a descriptor that select() reported, the descriptor is
\* still polled and there still is something to read, or the end of the connection:
\* no handler before it has closed it or taken what it had.
THEOREM SnapshotAlwaysCurrent == LoopSpec => []SnapshotIsCurrent
<1>1. LoopIInv => SnapshotIsCurrent
  BY DEF LoopIInv
<1>. QED
  BY <1>1, LoopInvariance, PTL


-----------------------------------------------------------------------------
(* The tokens of a text *)

\* t is a, perhaps with an end of line behind it.
Lined(a, t) == t = a \/ t = Append(a, "\n")

\* text is x, perhaps with a separator behind it.
Ended(x, text) == text = x \/ text = Append(x, "|")

\* The loop over the pieces breaks a text at its separators ...
LEMMA SplitBroken ==
    ASSUME NEW text
    PROVE  FoldLeft(AddPiece, << <<>> >>, text) = BrokenAt("|", text)
BY DEF AddPiece, BrokenAt, Breaks

\* ... and leaves out a last token that is empty.
LEMMA TokensBroken ==
    ASSUME NEW text, NEW B, B = BrokenAt("|", text)
    PROVE  /\ Last(B) = <<>> => Tokens(text) = Front(B)
           /\ Last(B) # <<>> => Tokens(text) = B
BY SplitBroken DEF Tokens

\* The last of a list and what is before it.
LEMMA LastOfAppend ==
    ASSUME NEW S, NEW a \in Seq(S), NEW p \in S, NEW t, t = Append(a, p)
    PROVE  t # <<>> /\ Last(t) = p /\ Front(t) = a
<1>1. /\ t \in Seq(S) /\ t # <<>>
      /\ Len(t) = Len(a) + 1
      /\ \A i \in 1..Len(a) : t[i] = a[i]
      /\ t[Len(a) + 1] = p
  BY AppendProperties
<1>2. Len(a) \in Nat
  OBVIOUS
<1>3. Last(t) = p
  BY <1>1, <1>2 DEF Last
<1>4. Front(t) = SubSeq(t, 1, Len(a))
  BY <1>1, <1>2 DEF Front
<1>5. \A i \in 1..Len(a) : t[i] \in S
  BY <1>1, <1>2
<1>6. /\ Front(t) \in Seq(S)
      /\ Len(Front(t)) = Len(a)
      /\ \A i \in 1..Len(a) : Front(t)[i] = t[i]
  BY <1>2, <1>4, <1>5, SubSeqProperties
<1>7. Front(t) = a
  BY <1>1, <1>2, <1>6, SeqEqual
<1>. QED
  BY <1>1, <1>3, <1>7

\* The last of one or two elements and what is before it ...
LEMMA ShortLists ==
    ASSUME NEW a, NEW b
    PROVE  /\ Last(<<a>>) = a
           /\ Last(<<a, b>>) = b /\ Front(<<a, b>>) = <<a>>
<1>1. PICK S : S = {a, b}
  OBVIOUS
<1>2. a \in S /\ b \in S
  BY <1>1
<1>3. Last(<<a>>) = a
  BY DEF Last
<1>4. Last(<<a, b>>) = b /\ Front(<<a, b>>) = <<a>>
  <2>1. <<a>> \in Seq(S) /\ <<a, b>> = Append(<<a>>, b)
    BY <1>2
  <2>. QED
    BY <1>2, <2>1, LastOfAppend
<1>. QED
  BY <1>3, <1>4

\* ... and of three.
LEMMA ThreeElements ==
    ASSUME NEW a, NEW b, NEW c, NEW s, s = <<a, b, c>>
    PROVE  Last(s) = c /\ Front(s) = <<a, b>>
<1>1. PICK S : S = {a, b, c}
  OBVIOUS
<1>2. a \in S /\ b \in S /\ c \in S
  BY <1>1
<1>3. <<a, b>> \in Seq(S) /\ s = Append(<<a, b>>, c)
  BY <1>2
<1>. QED
  BY <1>2, <1>3, LastOfAppend

\* What is in front of the last list, and that list.
LEMMA FrontOfBroken ==
    ASSUME NEW S, NEW B \in Parts(S)
    PROVE  /\ Len(B) \in Nat /\ Len(B) > 0
           /\ Front(B) \in Seq(Seq(S)) /\ Len(Front(B)) = Len(B) - 1
           /\ \A k \in 1..Len(B) - 1 : Front(B)[k] = B[k]
           /\ Last(B) = B[Len(B)] /\ Last(B) \in Seq(S)
<1>1. B \in Seq(Seq(S)) /\ B # <<>>
  BY DEF Parts
<1>2. Len(B) \in Nat /\ Len(B) > 0
  BY <1>1, EmptySeq
<1>3. \A k \in 1..Len(B) : B[k] \in Seq(S)
  BY <1>1
<1>4. Front(B) = SubSeq(B, 1, Len(B) - 1)
  BY DEF Front
<1>5. \A k \in 1..Len(B) - 1 : B[k] \in Seq(S)
  BY <1>2, <1>3
<1>6. PICK n \in Nat : n = Len(B) - 1
  BY <1>2
<1>7. /\ SubSeq(B, 1, n) \in Seq(Seq(S))
      /\ Len(SubSeq(B, 1, n)) = IF 1 <= n THEN n - 1 + 1 ELSE 0
      /\ \A i \in 1..n - 1 + 1 : SubSeq(B, 1, n)[i] = B[1 + i - 1]
  BY <1>5, <1>6, SubSeqProperties
<1>8. PICK F : F = SubSeq(B, 1, n)
  OBVIOUS
<1>9. F \in Seq(Seq(S)) /\ Len(F) = n
  BY <1>6, <1>7, <1>8
<1>10. ASSUME NEW k \in 1..n PROVE F[k] = B[k]
  <2>1. k \in 1..n - 1 + 1 /\ 1 + k - 1 = k
    BY <1>6
  <2>. QED
    BY <1>7, <1>8, <2>1
<1>11. Front(B) = F
  BY <1>4, <1>6, <1>8
<1>12. Last(B) = B[Len(B)] /\ Last(B) \in Seq(S)
  BY <1>2, <1>3 DEF Last
<1>. QED
  BY <1>2, <1>6, <1>9, <1>10, <1>11, <1>12

\* The tokens of a text are lists of its pieces, one at least.
LEMMA TokensType ==
    ASSUME NEW S, "|" \in S, NEW text \in Seq(S), text # <<>>
    PROVE  /\ Tokens(text) \in Seq(Seq(S))
           /\ Len(Tokens(text)) \in Nat /\ Len(Tokens(text)) > 0
<1>1. PICK B : B = BrokenAt("|", text)
  OBVIOUS
<1>2. B \in Parts(S)
  BY <1>1, BrokenIn
<1>3. Makes(B, "|", text)
  BY <1>1, BrokenMakes
<1>4. CASE Last(B) # <<>>
  BY <1>1, <1>2, <1>4, TokensBroken, FrontOfBroken DEF Parts
<1>5. CASE Last(B) = <<>>
  <2>1. Tokens(text) = Front(B)
    BY <1>1, <1>5, TokensBroken
  <2>2. Len(B) # 1
    BY <1>2, <1>3, <1>5, FrontOfBroken DEF Makes
  <2>3. Len(B) \in Nat /\ Len(B) > 0 /\ Len(Front(B)) = Len(B) - 1
    BY <1>2, FrontOfBroken
  <2>4. Front(B) \in Seq(Seq(S))
    BY <1>2, FrontOfBroken
  <2>. QED
    BY <2>1, <2>2, <2>3, <2>4
<1>. QED
  BY <1>4, <1>5

\* Behind one token there are two, behind two there are three.
LEMMA OneMore ==
    ASSUME NEW n \in Nat
    PROVE  /\ n - 1 = 1 => n = 2
           /\ n - 1 = 2 => n = 3
OBVIOUS

\* A text with one token is this token, perhaps with a separator behind it.
LEMMA OneToken ==
    ASSUME NEW S, "|" \in S, NEW text \in Seq(S), NEW h \in Seq(S \ {"|"}), h # <<>>
    PROVE  (Tokens(text) = <<h>>) = Ended(h, text)
<1>1. PICK B : B = BrokenAt("|", text)
  OBVIOUS
<1>2. B \in Parts(S)
  BY <1>1, BrokenIn
<1>3. Makes(B, "|", text)
  BY <1>1, BrokenMakes
<1>4. ASSUME Ended(h, text) PROVE Tokens(text) = <<h>>
  <2>1. CASE text = h
    <3>1. BrokenAt("|", h) = <<h>>
      BY BrokenLists
    <3>2. B = <<h>>
      BY <1>1, <2>1, <3>1
    <3>. QED
      BY <1>1, <3>2, ShortLists, TokensBroken
  <2>2. CASE text = Append(h, "|")
    <3>1. BrokenAt("|", Append(h, "|")) = <<h, <<>> >>
      BY BrokenLists
    <3>2. B = <<h, <<>> >>
      BY <1>1, <2>2, <3>1
    <3>3. Last(B) = <<>> /\ Front(B) = <<h>>
      BY <3>2, ShortLists
    <3>. QED
      BY <1>1, <3>3, TokensBroken
  <2>. QED
    BY <1>4, <2>1, <2>2 DEF Ended
<1>5. ASSUME Tokens(text) = <<h>> PROVE Ended(h, text)
  <2>1. CASE Last(B) # <<>>
    <3>1. B = <<h>>
      BY <1>1, <1>5, <2>1, TokensBroken
    <3>2. Len(B) = 1 /\ B[1] = h
      BY <3>1
    <3>. QED
      BY <1>3, <3>2 DEF Makes, Ended
  <2>2. CASE Last(B) = <<>>
    <3>1. Front(B) = <<h>>
      BY <1>1, <1>5, <2>2, TokensBroken
    <3>2. Len(Front(B)) = 1 /\ Front(B)[1] = h
      BY <3>1
    <3>8. /\ Len(B) \in Nat /\ Len(Front(B)) = Len(B) - 1
          /\ \A k \in 1..Len(B) - 1 : Front(B)[k] = B[k]
          /\ Last(B) = B[Len(B)]
      BY <1>2, FrontOfBroken
    <3>13. Len(B) \in Nat /\ Len(Front(B)) = Len(B) - 1
      BY <3>8
    <3>14. Len(Front(B)) = 1
      BY <3>2
    <3>9. Len(B) = 2
      BY <3>13, <3>14, OneMore
    <3>10. Front(B)[1] = B[1]
      BY <3>8, <3>9
    <3>3. Len(B) = 2 /\ B[1] = h /\ B[2] = <<>>
      BY <2>2, <3>2, <3>8, <3>9, <3>10
    <3>4. text = Append(h, "|") \o <<>>
      BY <1>3, <3>3 DEF Makes
    <3>5. h \in Seq(S)
      OBVIOUS
    <3>6. Append(h, "|") \in Seq(S)
      BY <3>5, AppendProperties
    <3>7. Append(h, "|") \o <<>> = Append(h, "|")
      BY <3>6, ConcatEmptySeq
    <3>. QED
      BY <3>4, <3>7 DEF Ended
  <2>. QED
    BY <2>1, <2>2
<1>. QED
  BY <1>4, <1>5 DEF Ended

\* A text with two tokens is these with a separator between them and perhaps one
\* behind them.
LEMMA TwoTokens ==
    ASSUME NEW S, "|" \in S, NEW text \in Seq(S), NEW h \in Seq(S \ {"|"}),
           NEW t \in Seq(S \ {"|"}), t # <<>>, NEW x, x = Append(h, "|") \o t
    PROVE  (Tokens(text) = <<h, t>>) = Ended(x, text)
<1>1. PICK B : B = BrokenAt("|", text)
  OBVIOUS
<1>2. B \in Parts(S)
  BY <1>1, BrokenIn
<1>3. Makes(B, "|", text)
  BY <1>1, BrokenMakes
<1>4. ASSUME Ended(x, text) PROVE Tokens(text) = <<h, t>>
  <2>1. CASE text = x
    <3>5. PICK sep \in S : sep = "|"
      OBVIOUS
    <3>6. h \in Seq(S \ {sep}) /\ t \in Seq(S \ {sep})
      BY <3>5
    <3>7. BrokenAt(sep, Append(h, sep) \o t) = <<h, t>>
      BY <3>6, BrokenLists
    <3>1. BrokenAt("|", Append(h, "|") \o t) = <<h, t>>
      BY <3>5, <3>7
    <3>2. B = <<h, t>>
      BY <1>1, <2>1, <3>1
    <3>3. Last(B) # <<>>
      BY <3>2, ShortLists
    <3>. QED
      BY <1>1, <3>2, <3>3, TokensBroken
  <2>2. CASE text = Append(x, "|")
    <3>1. BrokenAt("|", Append(Append(h, "|") \o t, "|")) = <<h, t, <<>> >>
      BY BrokenLists
    <3>2. B = <<h, t, <<>> >>
      BY <1>1, <2>2, <3>1
    <3>4. Last(B) = <<>> /\ Front(B) = <<h, t>>
      BY <3>2, ThreeElements
    <3>. QED
      BY <1>1, <3>4, TokensBroken
  <2>. QED
    BY <1>4, <2>1, <2>2 DEF Ended
<1>5. ASSUME Tokens(text) = <<h, t>> PROVE Ended(x, text)
  <2>1. CASE Last(B) # <<>>
    <3>1. B = <<h, t>>
      BY <1>1, <1>5, <2>1, TokensBroken
    <3>2. Len(B) = 2 /\ B[1] = h /\ B[2] = t
      BY <3>1
    <3>. QED
      BY <1>3, <3>2 DEF Makes, Ended
  <2>2. CASE Last(B) = <<>>
    <3>1. Front(B) = <<h, t>>
      BY <1>1, <1>5, <2>2, TokensBroken
    <3>2. Len(Front(B)) = 2 /\ Front(B)[1] = h /\ Front(B)[2] = t
      BY <3>1
    <3>10. /\ Len(B) \in Nat /\ Len(Front(B)) = Len(B) - 1
           /\ \A k \in 1..Len(B) - 1 : Front(B)[k] = B[k]
           /\ Last(B) = B[Len(B)]
      BY <1>2, FrontOfBroken
    <3>13. Len(B) \in Nat /\ Len(Front(B)) = Len(B) - 1
      BY <3>10
    <3>14. Len(Front(B)) = 2
      BY <3>2
    <3>11. Len(B) = 3
      BY <3>13, <3>14, OneMore
    <3>12. Front(B)[1] = B[1] /\ Front(B)[2] = B[2]
      BY <3>10, <3>11
    <3>3. Len(B) = 3 /\ B[1] = h /\ B[2] = t /\ B[3] = <<>>
      BY <2>2, <3>2, <3>10, <3>11, <3>12
    <3>4. text = Append(x, "|") \o <<>>
      BY <1>3, <3>3 DEF Makes
    <3>5. h \in Seq(S) /\ t \in Seq(S)
      OBVIOUS
    <3>6. Append(h, "|") \in Seq(S)
      BY <3>5, AppendProperties
    <3>7. x \in Seq(S)
      BY <3>5, <3>6, ConcatProperties
    <3>8. Append(x, "|") \in Seq(S)
      BY <3>7, AppendProperties
    <3>9. Append(x, "|") \o <<>> = Append(x, "|")
      BY <3>8, ConcatEmptySeq
    <3>. QED
      BY <3>4, <3>9 DEF Ended
  <2>. QED
    BY <2>1, <2>2
<1>. QED
  BY <1>4, <1>5 DEF Ended

-----------------------------------------------------------------------------
(* Ends of lines *)

\* removeEndl takes the end of a line away, and nothing else.
LEMMA EndRemoved ==
    ASSUME NEW S, NEW t \in Seq(S)
    PROVE  Lined(RemoveEndl(t), t) /\ RemoveEndl(t) \in Seq(S)
<1>1. CASE t # <<>> /\ Last(t) = "\n"
  <2>1. PICK a \in Seq(S), p \in S : t = Append(a, p)
    BY <1>1, SequenceEmptyOrAppend
  <2>2. Last(t) = p /\ Front(t) = a
    BY <2>1, LastOfAppend
  <2>. QED
    BY <1>1, <2>1, <2>2 DEF RemoveEndl, Lined
<1>2. CASE ~(t # <<>> /\ Last(t) = "\n")
  BY <1>2 DEF RemoveEndl, Lined
<1>. QED
  BY <1>1, <1>2

\* From what has no end of line in it an end of line is removed at most once.
LEMMA EndAdded ==
    ASSUME NEW S, NEW a \in Seq(S), "\n" \in S, \A i \in 1..Len(a) : a[i] # "\n",
           NEW t, Lined(a, t)
    PROVE  RemoveEndl(t) = a
<1>1. CASE t = a
  <2>1. a # <<>> => Last(a) # "\n"
    BY EmptySeq DEF Last
  <2>. QED
    BY <1>1, <2>1 DEF RemoveEndl
<1>2. CASE t = Append(a, "\n")
  <2>1. t # <<>> /\ Last(t) = "\n" /\ Front(t) = a
    BY <1>2, LastOfAppend
  <2>. QED
    BY <2>1 DEF RemoveEndl
<1>. QED
  BY <1>1, <1>2 DEF Lined

-----------------------------------------------------------------------------
(* What a text says *)

\* What texts are made of.
Pieces == Piece \cup Word \cup {"|", "\n"}

\* A word is no end of line and no separator, and the keywords are words.
LEMMA WordFacts ==
    /\ "|" \in Pieces /\ "\n" \in Pieces
    /\ \A w \in Word : w \in Pieces /\ w # "|" /\ w # "\n"
    /\ Keyword \subseteq Word /\ Capital \subseteq Word
BY WordsAssumption DEF Pieces

\* The words of a list may stand in a token, with an end of line or without.
LEMMA WordsAreBare ==
    ASSUME NEW a \in Seq(Word), NEW t, Lined(a, t)
    PROVE  /\ a \in Seq(Pieces) /\ t \in Seq(Pieces \ {"|"})
           /\ \A i \in 1..Len(a) : a[i] # "\n"
           /\ a # <<>> => t # <<>>
<1>1. Word \subseteq Pieces \ {"|"} /\ "\n" \in Pieces \ {"|"}
  BY WordFacts
<1>2. \A i \in 1..Len(a) : a[i] \in Word
  BY SeqFacts
<1>3. a \in Seq(Pieces) /\ a \in Seq(Pieces \ {"|"})
  BY <1>1
<1>4. Append(a, "\n") \in Seq(Pieces \ {"|"}) /\ Append(a, "\n") # <<>>
  BY <1>1, <1>3, AppendProperties
<1>. QED
  BY <1>2, <1>3, <1>4, WordFacts DEF Lined

\* The branch of a text is told by its first token, which is the keyword.
LEMMA KindIsFirst ==
    ASSUME NEW tokens \in Seq(Seq(Pieces)), Len(tokens) > 0, NEW k \in Keyword
    PROVE  (Kind(tokens) = k) = Lined(<<k>>, tokens[1])
<1>1. tokens[1] \in Seq(Pieces)
  OBVIOUS
<1>2. PICK first \in Seq(Pieces) : first = RemoveEndl(tokens[1])
  BY <1>1, EndRemoved
<1>3. ASSUME Kind(tokens) = k PROVE Lined(<<k>>, tokens[1])
  <2>1. k # "unknown"
    BY DEF Keyword
  <2>2. Len(first) = 1 /\ first[1] = k
    BY <1>2, <1>3, <2>1 DEF Kind
  <2>3. first = <<k>>
    BY <2>2
  <2>4. Lined(RemoveEndl(tokens[1]), tokens[1])
    BY <1>1, EndRemoved
  <2>. QED
    BY <1>2, <2>3, <2>4
<1>4. ASSUME Lined(<<k>>, tokens[1]) PROVE Kind(tokens) = k
  <2>1. <<k>> \in Seq(Word)
    BY WordFacts
  <2>2. <<k>> \in Seq(Pieces) /\ \A i \in 1..Len(<<k>>) : <<k>>[i] # "\n"
    BY <1>4, <2>1, WordsAreBare
  <2>3. RemoveEndl(tokens[1]) = <<k>>
    BY <1>4, <2>2, EndAdded, WordFacts
  <2>4. Len(first) = 1 /\ first[1] = k
    BY <1>2, <2>3
  <2>. QED
    BY <1>2, <2>4 DEF Kind
<1>. QED
  BY <1>3, <1>4 DEF Lined

\* A text that is a keyword.
Plain(k, text) == \E h : Lined(<<k>>, h) /\ Ended(h, text)

\* A text that is a keyword with one of the arguments A.
WithArgument(k, A, text) ==
    \E h, t, x : \E a \in A :
        /\ Lined(<<k>>, h) /\ Lined(a, t)
        /\ x = Append(h, "|") \o t
        /\ Ended(x, text)

\* The arguments that consist of words.
Arguments == Seq(Word) \ {<<>>}

\* A text has a keyword as its only token if it is a plain one.
LEMMA PlainTokens ==
    ASSUME NEW text \in Seq(Pieces), text # <<>>, NEW k \in Keyword
    PROVE  (Kind(Tokens(text)) = k /\ Len(Tokens(text)) = 1) = Plain(k, text)
<1>1. PICK tokens : tokens = Tokens(text)
  OBVIOUS
<1>2. "|" \in Pieces /\ <<k>> \in Seq(Word) /\ <<k>> # <<>>
  BY WordFacts
<1>3. tokens \in Seq(Seq(Pieces)) /\ Len(tokens) \in Nat /\ Len(tokens) > 0
  BY <1>1, <1>2, TokensType
<1>4. (Kind(tokens) = k) = Lined(<<k>>, tokens[1])
  BY <1>3, KindIsFirst
<1>5. ASSUME Kind(tokens) = k, Len(tokens) = 1 PROVE Plain(k, text)
  <2>1. PICK h : h = tokens[1]
    OBVIOUS
  <2>2. Lined(<<k>>, h)
    BY <1>4, <1>5, <2>1
  <2>3. h \in Seq(Pieces \ {"|"}) /\ h # <<>>
    BY <1>2, <2>2, WordsAreBare
  <2>4. tokens = <<h>>
    BY <1>3, <1>5, <2>1, FewElements
  <2>5. Ended(h, text)
    BY <1>1, <1>2, <2>3, <2>4, OneToken
  <2>. QED
    BY <2>2, <2>5 DEF Plain
<1>6. ASSUME Plain(k, text) PROVE Kind(tokens) = k /\ Len(tokens) = 1
  <2>1. PICK h : Lined(<<k>>, h) /\ Ended(h, text)
    BY <1>6 DEF Plain
  <2>2. h \in Seq(Pieces \ {"|"}) /\ h # <<>>
    BY <1>2, <2>1, WordsAreBare
  <2>3. tokens = <<h>>
    BY <1>1, <1>2, <2>1, <2>2, OneToken
  <2>4. tokens[1] = h /\ Len(tokens) = 1
    BY <2>3
  <2>. QED
    BY <1>4, <2>1, <2>4
<1>. QED
  BY <1>1, <1>5, <1>6 DEF Plain

\* A text has a keyword and one of the arguments A as its tokens if it is one of
\* these.
LEMMA ArgumentTokens ==
    ASSUME NEW text \in Seq(Pieces), text # <<>>, NEW k \in Keyword,
           NEW A \in SUBSET Arguments
    PROVE  (/\ Kind(Tokens(text)) = k
            /\ Len(Tokens(text)) = 2
            /\ RemoveEndl(Tokens(text)[2]) \in A) = WithArgument(k, A, text)
<1>1. PICK tokens : tokens = Tokens(text)
  OBVIOUS
<1>2. "|" \in Pieces /\ "\n" \in Pieces /\ <<k>> \in Seq(Word) /\ <<k>> # <<>>
  BY WordFacts
<1>3. tokens \in Seq(Seq(Pieces)) /\ Len(tokens) \in Nat /\ Len(tokens) > 0
  BY <1>1, <1>2, TokensType
<1>4. (Kind(tokens) = k) = Lined(<<k>>, tokens[1])
  BY <1>3, KindIsFirst
<1>5. ASSUME Kind(tokens) = k, Len(tokens) = 2, RemoveEndl(tokens[2]) \in A
      PROVE  WithArgument(k, A, text)
  <2>1. PICK h, t : h = tokens[1] /\ t = tokens[2]
    OBVIOUS
  <2>2. PICK a \in A : a = RemoveEndl(t)
    BY <1>5, <2>1
  <2>3. a \in Seq(Word) /\ a # <<>>
    BY DEF Arguments
  <2>4. t \in Seq(Pieces)
    <3>1. 2 \in 1..Len(tokens)
      BY <1>5
    <3>. QED
      BY <1>3, <2>1, <3>1, SeqFacts
  <2>5. Lined(<<k>>, h) /\ Lined(a, t)
    BY <1>4, <1>5, <2>1, <2>2, <2>4, EndRemoved
  <2>6. h \in Seq(Pieces \ {"|"}) /\ h # <<>>
    BY <1>2, <2>5, WordsAreBare
  <2>7. t \in Seq(Pieces \ {"|"}) /\ t # <<>>
    BY <2>3, <2>5, WordsAreBare
  <2>8. tokens = <<h, t>>
    BY <1>3, <1>5, <2>1, FewElements
  <2>9. PICK x : x = Append(h, "|") \o t
    OBVIOUS
  <2>10. Ended(x, text)
    BY <1>1, <1>2, <2>6, <2>7, <2>8, <2>9, TwoTokens
  <2>. QED
    BY <2>5, <2>9, <2>10 DEF WithArgument
<1>6. ASSUME WithArgument(k, A, text)
      PROVE  Kind(tokens) = k /\ Len(tokens) = 2 /\ RemoveEndl(tokens[2]) \in A
  <2>9. PICK h, t, x : \E a \in A : /\ Lined(<<k>>, h) /\ Lined(a, t)
                                    /\ x = Append(h, "|") \o t
                                    /\ Ended(x, text)
    BY <1>6 DEF WithArgument
  <2>1. PICK a \in A : /\ Lined(<<k>>, h) /\ Lined(a, t)
                       /\ x = Append(h, "|") \o t
                       /\ Ended(x, text)
    BY <2>9
  <2>2. a \in Seq(Word) /\ a # <<>>
    BY DEF Arguments
  <2>3. h \in Seq(Pieces \ {"|"}) /\ h # <<>>
    BY <1>2, <2>1, WordsAreBare
  <2>4. t \in Seq(Pieces \ {"|"}) /\ t # <<>> /\ a \in Seq(Pieces)
    BY <2>1, <2>2, WordsAreBare
  <2>5. tokens = <<h, t>>
    BY <1>1, <1>2, <2>1, <2>3, <2>4, TwoTokens
  <2>6. tokens[1] = h /\ tokens[2] = t /\ Len(tokens) = 2
    BY <2>5
  <2>7. \A i \in 1..Len(a) : a[i] # "\n"
    BY <2>1, <2>2, WordsAreBare
  <2>8. RemoveEndl(t) = a
    BY <1>2, <2>1, <2>4, <2>7, EndAdded
  <2>. QED
    BY <1>4, <2>1, <2>6, <2>8
<1>. QED
  BY <1>1, <1>5, <1>6 DEF WithArgument

\* What may follow is an end of line or a separator.
LEMMA OptionalEnd ==
    ASSUME NEW a \in Seq(Pieces), NEW t
    PROVE  /\ Lined(a, t) = (\E e \in Optional("\n") : t = a \o e)
           /\ Ended(a, t) = (\E bar \in Optional("|") : t = a \o bar)
<1>1. "|" \in Pieces /\ "\n" \in Pieces
  BY WordFacts
<1>2. a \o <<>> = a
  BY ConcatEmptySeq
<1>3. Append(a, "\n") = a \o <<"\n">> /\ Append(a, "|") = a \o <<"|">>
  BY <1>1, AppendIsConcat
<1>. QED
  BY <1>2, <1>3 DEF Lined, Ended, Optional

\* The sentences for a keyword without an argument are the plain texts.
LEMMA PlainSentences ==
    ASSUME NEW text, NEW k \in {"JOIN", "START"}
    PROVE  text \in LooseFormats(k, text) <=> Plain(k, text)
<1>1. /\ <<k>> \in Seq(Pieces)
      /\ \A e \in Optional("\n") : e \in Seq(Pieces)
  BY WordFacts DEF Keyword, Optional
<1>2. LooseFormats(k, text) = {<<k>> \o e \o arg \o bar :
                            e \in Optional("\n"), arg \in {<<>>}, bar \in Optional("|")}
  <2>1. ArgumentsIn(k, text) = {<<>>}
    BY DEF ArgumentsIn
  <2>. QED
    BY <2>1 DEF LooseFormats
<1>3. ASSUME NEW e \in Optional("\n") PROVE <<k>> \o e \in Seq(Pieces) /\ <<k>> \o e \o <<>> = <<k>> \o e
  BY <1>1, ConcatProperties, ConcatEmptySeq
<1>4. ASSUME text \in LooseFormats(k, text) PROVE Plain(k, text)
  <2>1. PICK e \in Optional("\n"), bar \in Optional("|") : text = <<k>> \o e \o <<>> \o bar
    BY <1>2, <1>4
  <2>2. PICK h \in Seq(Pieces) : h = <<k>> \o e
    BY <1>3
  <2>3. text = h \o bar
    BY <1>3, <2>1, <2>2
  <2>4. Lined(<<k>>, h)
    BY <1>1, <2>2, OptionalEnd
  <2>5. Ended(h, text)
    BY <2>3, OptionalEnd
  <2>. QED
    BY <2>4, <2>5 DEF Plain
<1>5. ASSUME Plain(k, text) PROVE text \in LooseFormats(k, text)
  <2>1. PICK h : Lined(<<k>>, h) /\ Ended(h, text)
    BY <1>5 DEF Plain
  <2>2. PICK e \in Optional("\n") : h = <<k>> \o e
    BY <1>1, <2>1, OptionalEnd
  <2>3. h \in Seq(Pieces)
    BY <1>3, <2>2
  <2>4. PICK bar \in Optional("|") : text = h \o bar
    BY <2>1, <2>3, OptionalEnd
  <2>5. text = <<k>> \o e \o <<>> \o bar
    BY <1>3, <2>2, <2>4
  <2>. QED
    BY <1>2, <2>5
<1>. QED
  BY <1>4, <1>5

\* The letters of a guess, and the names that are short enough.
Guesses == {<<ch>> : ch \in Capital}
Names == {n \in Arguments : TextLength(n) <= NAME_LENGHT}

\* The parts of a sentence, and of its argument.
Puts(k, e, arg, bar) == <<k>> \o e \o arg \o bar
Argument(a, f) == <<"|">> \o a \o f

\* A sentence of a keyword and an argument.
Sentence(k, e, a, f, bar) == Puts(k, e, Argument(a, f), bar)

\* A sentence has an argument that goes with its keyword.
LEMMA InSentences ==
    ASSUME NEW text, NEW k
    PROVE  text \in LooseFormats(k, text) <=>
               \E e \in Optional("\n"), arg \in ArgumentsIn(k, text), bar \in Optional("|") :
                   text = Puts(k, e, arg, bar)
<1>1. LooseFormats(k, text) = {Puts(k, e, arg, bar) :
          e \in Optional("\n"), arg \in ArgumentsIn(k, text), bar \in Optional("|")}
  BY DEF LooseFormats, Puts
<1>. QED
  BY <1>1

\* The argument is a letter for QUESS and a name for LOGIN.
LEMMA InArguments ==
    ASSUME NEW text, NEW arg
    PROVE  /\ arg \in ArgumentsIn("QUESS", text) <=>
                  \E a \in Guesses, f \in Optional("\n") : arg = Argument(a, f)
           /\ arg \in ArgumentsIn("LOGIN", text) <=>
                  \E a \in NamesIn(text), f \in Optional("\n") : arg = Argument(a, f)
<1>1. ArgumentsIn("QUESS", text) = {Argument(<<ch>>, f) : ch \in Capital, f \in Optional("\n")}
  BY DEF ArgumentsIn, Argument
<1>2. ArgumentsIn("LOGIN", text) = {Argument(n, f) : n \in NamesIn(text), f \in Optional("\n")}
  BY DEF ArgumentsIn, Argument
<1>3. arg \in ArgumentsIn("QUESS", text) <=>
          \E ch \in Capital, f \in Optional("\n") : arg = Argument(<<ch>>, f)
  BY <1>1
<1>4. ASSUME NEW a \in Guesses, NEW f \in Optional("\n"), arg = Argument(a, f)
      PROVE  arg \in ArgumentsIn("QUESS", text)
  <2>1. PICK ch \in Capital : a = <<ch>>
    BY DEF Guesses
  <2>. QED
    BY <1>3, <1>4, <2>1
<1>5. ASSUME NEW ch \in Capital, NEW f \in Optional("\n"), arg = Argument(<<ch>>, f)
      PROVE  \E a \in Guesses : arg = Argument(a, f)
  <2>1. <<ch>> \in Guesses
    BY DEF Guesses
  <2>. QED
    BY <1>5, <2>1
<1>6. arg \in ArgumentsIn("LOGIN", text) <=>
          \E a \in NamesIn(text), f \in Optional("\n") : arg = Argument(a, f)
  BY <1>2
<1>. QED
  BY <1>3, <1>4, <1>5, <1>6

\* What follows the keyword in a sentence with an argument.
LEMMA ArgumentPart ==
    ASSUME NEW h \in Seq(Pieces), NEW a \in Seq(Pieces), NEW f \in Seq(Pieces)
    PROVE  h \o Argument(a, f) = Append(h, "|") \o (a \o f)
<1>1. "|" \in Pieces
  BY WordFacts
<1>2. <<"|">> \in Seq(Pieces)
  BY <1>1
<1>3. PICK t \in Seq(Pieces) : t = a \o f
  BY ConcatProperties
<1>4. <<"|">> \o a \o f = <<"|">> \o t
  BY <1>2, <1>3, ConcatAssociative
<1>5. h \o (<<"|">> \o t) = (h \o <<"|">>) \o t
  BY <1>2, ConcatAssociative
<1>6. Append(h, "|") = h \o <<"|">>
  BY <1>1, AppendIsConcat
<1>. QED
  BY <1>3, <1>4, <1>5, <1>6 DEF Argument

\* The sentences with the arguments A are the texts with these arguments.
LEMMA ArgumentSentences ==
    ASSUME NEW text, NEW k \in Keyword, NEW A \in SUBSET Arguments
    PROVE  (\E e \in Optional("\n"), a \in A, f \in Optional("\n"), bar \in Optional("|") :
               text = Sentence(k, e, a, f, bar)) = WithArgument(k, A, text)
<1>1. /\ <<k>> \in Seq(Pieces)
      /\ \A e \in Optional("\n") : e \in Seq(Pieces)
      /\ "|" \in Pieces
  BY WordFacts DEF Optional
<1>2. ASSUME NEW a \in A PROVE a \in Seq(Pieces)
  BY WordsAreBare DEF Arguments, Lined
<1>3. ASSUME NEW e \in Optional("\n"), NEW a \in A, NEW f \in Optional("\n"),
             NEW bar \in Optional("|"), text = Sentence(k, e, a, f, bar)
      PROVE  WithArgument(k, A, text)
  <2>1. e \in Seq(Pieces) /\ f \in Seq(Pieces) /\ a \in Seq(Pieces)
    BY <1>1, <1>2
  <2>2. PICK h \in Seq(Pieces) : h = <<k>> \o e
    BY <1>1, <2>1, ConcatProperties
  <2>3. PICK t \in Seq(Pieces) : t = a \o f
    BY <2>1, ConcatProperties
  <2>4. Append(h, "|") \in Seq(Pieces)
    BY <1>1, AppendProperties
  <2>5. PICK x \in Seq(Pieces) : x = Append(h, "|") \o t
    BY <2>4, ConcatProperties
  <2>6. h \o Argument(a, f) = Append(h, "|") \o (a \o f)
    BY <2>1, ArgumentPart
  <2>7. text = x \o bar
    BY <1>3, <2>2, <2>3, <2>5, <2>6 DEF Sentence, Puts
  <2>8. Lined(<<k>>, h)
    <3>1. \E z \in Optional("\n") : h = <<k>> \o z
      BY <2>2
    <3>. QED
      BY <1>1, <3>1, OptionalEnd
  <2>9. Lined(a, t)
    <3>1. \E z \in Optional("\n") : t = a \o z
      BY <2>3
    <3>. QED
      BY <2>1, <3>1, OptionalEnd
  <2>10. Ended(x, text)
    BY <2>7, OptionalEnd
  <2>. QED
    BY <2>5, <2>8, <2>9, <2>10 DEF WithArgument
<1>4. ASSUME WithArgument(k, A, text)
      PROVE  \E e \in Optional("\n"), a \in A, f \in Optional("\n"), bar \in Optional("|") :
                 text = Sentence(k, e, a, f, bar)
  <2>1. PICK h, t, x : \E a \in A : /\ Lined(<<k>>, h) /\ Lined(a, t)
                                    /\ x = Append(h, "|") \o t
                                    /\ Ended(x, text)
    BY <1>4 DEF WithArgument
  <2>2. PICK a \in A : /\ Lined(<<k>>, h) /\ Lined(a, t)
                       /\ x = Append(h, "|") \o t
                       /\ Ended(x, text)
    BY <2>1
  <2>3. a \in Seq(Pieces)
    BY <1>2
  <2>4. PICK e \in Optional("\n") : h = <<k>> \o e
    BY <1>1, <2>2, OptionalEnd
  <2>5. PICK f \in Optional("\n") : t = a \o f
    BY <2>2, <2>3, OptionalEnd
  <2>6. h \in Seq(Pieces) /\ t \in Seq(Pieces) /\ f \in Seq(Pieces)
    BY <1>1, <2>3, <2>4, <2>5, ConcatProperties
  <2>7. Append(h, "|") \in Seq(Pieces)
    BY <1>1, <2>6, AppendProperties
  <2>8. x \in Seq(Pieces)
    BY <2>2, <2>6, <2>7, ConcatProperties
  <2>9. PICK bar \in Optional("|") : text = x \o bar
    BY <2>2, <2>8, OptionalEnd
  <2>10. h \o Argument(a, f) = Append(h, "|") \o (a \o f)
    BY <2>3, <2>6, ArgumentPart
  <2>11. text = Sentence(k, e, a, f, bar)
    BY <2>2, <2>4, <2>5, <2>9, <2>10 DEF Sentence, Puts
  <2>. QED
    BY <2>11
<1>. QED
  BY <1>3, <1>4 DEF WithArgument

\* Both are arguments.
LEMMA GuessesAndNames == Guesses \in SUBSET Arguments /\ Names \in SUBSET Arguments
<1>1. ASSUME NEW ch \in Capital PROVE <<ch>> \in Seq(Word) /\ <<ch>> # <<>>
  BY WordFacts
<1>. QED
  BY <1>1 DEF Guesses, Names, Arguments

\* The sentences with a letter.
LEMMA QuessSentences ==
    ASSUME NEW text
    PROVE  text \in LooseFormats("QUESS", text) <=> WithArgument("QUESS", Guesses, text)
<1>1. text \in LooseFormats("QUESS", text) <=>
          \E e \in Optional("\n"), a \in Guesses, f \in Optional("\n"), bar \in Optional("|") :
              text = Sentence("QUESS", e, a, f, bar)
  <2>1. ASSUME text \in LooseFormats("QUESS", text)
        PROVE  \E e \in Optional("\n"), a \in Guesses, f \in Optional("\n"), bar \in Optional("|") :
                   text = Sentence("QUESS", e, a, f, bar)
    <3>1. PICK e \in Optional("\n"), arg \in ArgumentsIn("QUESS", text), bar \in Optional("|") :
               text = Puts("QUESS", e, arg, bar)
      BY <2>1, InSentences
    <3>2. PICK a \in Guesses, f \in Optional("\n") : arg = Argument(a, f)
      BY InArguments
    <3>3. text = Sentence("QUESS", e, a, f, bar)
      BY <3>1, <3>2 DEF Sentence
    <3>. QED
      BY <3>3
  <2>2. ASSUME NEW e \in Optional("\n"), NEW a \in Guesses, NEW f \in Optional("\n"),
               NEW bar \in Optional("|"), text = Sentence("QUESS", e, a, f, bar)
        PROVE  text \in LooseFormats("QUESS", text)
    <3>1. PICK arg : arg = Argument(a, f)
      OBVIOUS
    <3>2. arg \in ArgumentsIn("QUESS", text)
      BY <3>1, InArguments
    <3>3. text = Puts("QUESS", e, arg, bar)
      BY <2>2, <3>1 DEF Sentence
    <3>. QED
      BY <3>2, <3>3, InSentences
  <2>. QED
    BY <2>1, <2>2
<1>4. "QUESS" \in Keyword
  BY DEF Keyword
<1>5. (\E e \in Optional("\n"), a \in Guesses, f \in Optional("\n"), bar \in Optional("|") :
           text = Sentence("QUESS", e, a, f, bar)) = WithArgument("QUESS", Guesses, text)
  BY <1>4, GuessesAndNames, ArgumentSentences
<1>. QED
  BY <1>1, <1>5

\* A part of s, and that n is one.
Cut(s, i, j) == SubSeq(s, i, j)
PartOf(n, s) == \E i, j \in DOMAIN s : n = SubSeq(s, i, j)

\* It makes no difference how four lists are put behind each other.
Regrouped(a, b, c, d) == (a \o (b \o c)) \o d = (a \o b) \o (c \o d)

\* Of any four this is so.
LEMMA FourLists ==
    ASSUME NEW S, NEW a \in Seq(S), NEW b \in Seq(S), NEW c \in Seq(S), NEW d \in Seq(S)
    PROVE  Regrouped(a, b, c, d)
<1>1. PICK ab \in Seq(S) : ab = a \o b
  BY ConcatProperties
<1>2. a \o (b \o c) = ab \o c
  BY <1>1, ConcatAssociative
<1>3. (ab \o c) \o d = ab \o (c \o d)
  BY ConcatAssociative
<1>. QED
  BY <1>1, <1>2, <1>3 DEF Regrouped

\* What stands between two lists is a part of the whole.
LEMMA MiddlePart ==
    ASSUME NEW S, NEW u \in Seq(S), NEW n \in Seq(S), n # <<>>, NEW w \in Seq(S),
           NEW s, s = (u \o n) \o w
    PROVE  PartOf(n, s)
<1>1. PICK v \in Seq(S) : v = u \o n
  BY ConcatProperties
<1>2. PICK k \in Nat, l \in Nat : k = Len(u) /\ l = Len(n) /\ l > 0
  BY EmptySeq, SeqFacts
<1>3. Len(v) = k + l
  BY <1>1, <1>2, ConcatProperties
<1>4. s \in Seq(S) /\ Len(s) = k + l + Len(w) /\ Len(w) \in Nat
  <2>1. s = v \o w
    BY <1>1
  <2>2. v \o w \in Seq(S) /\ Len(v \o w) = Len(v) + Len(w)
    BY ConcatProperties
  <2>. QED
    BY <1>3, <2>1, <2>2, SeqFacts
<1>5. k + 1 \in 1..Len(v) /\ k + l \in 1..Len(v)
  BY <1>2, <1>3
<1>6. SubSeq(v \o w, k + 1, k + l) = SubSeq(v, k + 1, k + l)
  BY <1>5, SubSeqOfConcat1
<1>7. k + 1 \in Len(u) + 1..Len(u) + Len(n) /\ k + l \in Len(u) + 1..Len(u) + Len(n)
  BY <1>2
<1>8. SubSeq(u \o n, k + 1, k + l) = SubSeq(n, k + 1 - Len(u), k + l - Len(u))
  BY <1>7, SubSeqOfConcat2
<1>9. k + 1 - Len(u) = 1 /\ k + l - Len(u) = Len(n)
  BY <1>2
<1>10. SubSeq(n, 1, Len(n)) = n
  BY SubSeqFull
<1>11. n = SubSeq(s, k + 1, k + l)
  BY <1>1, <1>6, <1>8, <1>9, <1>10
<1>12. k + 1 \in DOMAIN s /\ k + l \in DOMAIN s
  BY <1>2, <1>4, SeqFacts
<1>. QED
  BY <1>11, <1>12 DEF PartOf

\* The names in a text are names.
LEMMA NamesInText ==
    ASSUME NEW text \in Seq(Pieces), NEW n \in NamesIn(text)
    PROVE  n \in Names
<1>1. PICK i \in DOMAIN text, j \in DOMAIN text : n = SubSeq(text, i, j)
  BY DEF NamesIn
<1>2. n # <<>> /\ Range(n) \subseteq Word /\ TextLength(n) <= NAME_LENGHT
  BY DEF NamesIn
<1>3. DOMAIN text = 1..Len(text) /\ Len(text) \in Nat
  BY SeqFacts
<1>4. i \in Int /\ j \in Int /\ \A k \in i..j : text[k] \in Pieces
  BY <1>1, <1>3
<1>5. n \in Seq(Pieces)
  BY <1>1, <1>4, SubSeqProperties
<1>6. Len(n) \in Nat /\ \A k \in 1..Len(n) : n[k] \in Word
  BY <1>2, <1>5, SeqFacts
<1>7. n \in Seq(Word)
  BY <1>5, <1>6
<1>. QED
  BY <1>2, <1>7 DEF Names, Arguments

\* The name in a sentence is one of the names in it.
LEMMA NameInSentence ==
    ASSUME NEW k \in Keyword, NEW e \in Optional("\n"), NEW a \in Names,
           NEW f \in Optional("\n"), NEW bar \in Optional("|"),
           NEW text, text = Sentence(k, e, a, f, bar)
    PROVE  a \in NamesIn(text)
<1>1. a \in Seq(Word) /\ a # <<>> /\ TextLength(a) <= NAME_LENGHT
  BY DEF Names, Arguments
<1>2. Range(a) \subseteq Word
  BY <1>1, SeqFacts
<1>3. "|" \in Pieces /\ <<k>> \in Seq(Pieces) /\ a \in Seq(Pieces)
  BY <1>1, WordFacts, WordsAreBare DEF Lined
<1>4. e \in Seq(Pieces) /\ f \in Seq(Pieces) /\ bar \in Seq(Pieces)
  <2>1. ASSUME NEW p \in Pieces, NEW y \in Optional(p) PROVE y \in Seq(Pieces)
    <3>1. <<>> \in Seq(Pieces) /\ <<p>> \in Seq(Pieces)
      OBVIOUS
    <3>. QED
      BY <3>1 DEF Optional
  <2>2. "|" \in Pieces /\ "\n" \in Pieces
    BY WordFacts
  <2>. QED
    BY <2>1, <2>2
<1>14. a \in Seq(Pieces) /\ f \in Seq(Pieces)
  BY <1>3, <1>4
<1>15. bar \in Seq(Pieces)
  BY <1>4
<1>5. PICK h \in Seq(Pieces) : h = <<k>> \o e
  BY <1>3, <1>4, ConcatProperties
<1>6. PICK u \in Seq(Pieces) : u = Append(h, "|")
  BY <1>3, AppendProperties
<1>7. h \o Argument(a, f) = u \o (a \o f)
  <2>1. h \o Argument(a, f) = Append(h, "|") \o (a \o f)
    BY <1>14, ArgumentPart
  <2>. QED
    BY <1>6, <2>1
<1>8. Regrouped(u, a, f, bar)
  BY <1>14, <1>15, FourLists
<1>9. PICK w \in Seq(Pieces) : w = f \o bar
  BY <1>4, ConcatProperties
<1>10. text = (u \o a) \o w
  BY <1>5, <1>7, <1>8, <1>9 DEF Sentence, Puts, Regrouped
<1>11. PartOf(a, text)
  BY <1>1, <1>10, <1>14, MiddlePart
<1>12. NamesIn(text) = {str \in {SubSeq(text, i, j) : i, j \in DOMAIN text} :
                           str # <<>> /\ Range(str) \subseteq Word /\ TextLength(str) <= NAME_LENGHT}
  BY DEF NamesIn
<1>13. a \in {SubSeq(text, i, j) : i, j \in DOMAIN text}
  <2>1. PICK i \in DOMAIN text, j \in DOMAIN text : a = Cut(text, i, j)
    BY <1>11 DEF PartOf, Cut
  <2>2. a \in {Cut(text, x, y) : x, y \in DOMAIN text}
    BY <2>1
  <2>. QED
    BY <2>2 DEF Cut
<1>. QED
  BY <1>1, <1>2, <1>12, <1>13

\* The sentences with a name.
LEMMA LoginSentences ==
    ASSUME NEW text \in Seq(Pieces)
    PROVE  text \in LooseFormats("LOGIN", text) <=> WithArgument("LOGIN", Names, text)
<1>1. text \in LooseFormats("LOGIN", text) <=>
          \E e \in Optional("\n"), a \in NamesIn(text), f \in Optional("\n"), bar \in Optional("|") :
              text = Sentence("LOGIN", e, a, f, bar)
  <2>1. ASSUME text \in LooseFormats("LOGIN", text)
        PROVE  \E e \in Optional("\n"), a \in NamesIn(text), f \in Optional("\n"), bar \in Optional("|") :
                   text = Sentence("LOGIN", e, a, f, bar)
    <3>1. PICK e \in Optional("\n"), arg \in ArgumentsIn("LOGIN", text), bar \in Optional("|") :
               text = Puts("LOGIN", e, arg, bar)
      BY <2>1, InSentences
    <3>2. PICK a \in NamesIn(text), f \in Optional("\n") : arg = Argument(a, f)
      BY InArguments
    <3>3. text = Sentence("LOGIN", e, a, f, bar)
      BY <3>1, <3>2 DEF Sentence
    <3>. QED
      BY <3>3
  <2>2. ASSUME NEW e \in Optional("\n"), NEW a \in NamesIn(text), NEW f \in Optional("\n"),
               NEW bar \in Optional("|"), text = Sentence("LOGIN", e, a, f, bar)
        PROVE  text \in LooseFormats("LOGIN", text)
    <3>1. PICK arg : arg = Argument(a, f)
      OBVIOUS
    <3>2. arg \in ArgumentsIn("LOGIN", text)
      BY <3>1, InArguments
    <3>3. text = Puts("LOGIN", e, arg, bar)
      BY <2>2, <3>1 DEF Sentence
    <3>. QED
      BY <3>2, <3>3, InSentences
  <2>. QED
    BY <2>1, <2>2
<1>2. "LOGIN" \in Keyword
  BY DEF Keyword
<1>3. ASSUME NEW a \in NamesIn(text) PROVE a \in Names
  BY <1>3, NamesInText
<1>4. ASSUME NEW e \in Optional("\n"), NEW a \in Names, NEW f \in Optional("\n"),
             NEW bar \in Optional("|"), text = Sentence("LOGIN", e, a, f, bar)
      PROVE  a \in NamesIn(text)
  BY <1>2, <1>4, NameInSentence
<1>5. (\E e \in Optional("\n"), a \in Names, f \in Optional("\n"), bar \in Optional("|") :
           text = Sentence("LOGIN", e, a, f, bar)) = WithArgument("LOGIN", Names, text)
  BY <1>2, GuessesAndNames, ArgumentSentences
<1>. QED
  BY <1>1, <1>3, <1>4, <1>5

-----------------------------------------------------------------------------
(* The judgement of a text *)

\* The tokens have what a branch asks for.
Fits(k, tokens) == HasFormat(k, tokens) /\ (k = "LOGIN" => CheckNameValidity(tokens[2]))

\* With two players in the lobby a message is accepted if the state allows it and
\* the tokens fit.
LEMMA AcceptedIfFits ==
    ASSUME NEW k \in Keyword \ {"PONG"}, NEW tokens, NEW state
    PROVE  Refusal(k, tokens, state, 2) = 0 <=> state \in AcceptedIn(k) /\ Fits(k, tokens)
<1>1. CASE state \notin AcceptedIn(k)
  BY <1>1 DEF Refusal
<1>2. CASE state \in AcceptedIn(k) /\ ~HasFormat(k, tokens)
  BY <1>2 DEF Refusal, Fits
<1>3. CASE state \in AcceptedIn(k) /\ HasFormat(k, tokens)
  BY <1>3 DEF Refusal, Fits
<1>. QED
  BY <1>1, <1>2, <1>3

\* A name is valid if it is one of the names, without the end of its line.
LEMMA ValidNames ==
    ASSUME NEW str \in Seq(Pieces)
    PROVE  CheckNameValidity(str) <=> RemoveEndl(str) \in Names
<1>1. PICK n \in Seq(Pieces) : n = RemoveEndl(str)
  BY EndRemoved
<1>2. Len(n) \in Nat /\ Range(n) = {n[i] : i \in 1..Len(n)}
  BY SeqFacts
<1>3. Range(n) \subseteq Word <=> n \in Seq(Word)
  <2>1. Range(n) \subseteq Word => n \in Seq(Word)
    BY <1>2
  <2>2. n \in Seq(Word) => Range(n) \subseteq Word
    BY SeqFacts
  <2>. QED
    BY <2>1, <2>2
<1>. QED
  BY <1>1, <1>3 DEF CheckNameValidity, Names, Arguments

\* A text is read as the keyword k, with all that k asks for, if it is a sentence
\* for it.
LEMMA ReadAsSentence ==
    ASSUME NEW text \in Seq(Pieces), text # <<>>, NEW k \in Keyword \ {"PONG"}
    PROVE  Kind(Tokens(text)) = k /\ Fits(k, Tokens(text)) <=> text \in LooseFormats(k, text)
<1>1. PICK tokens : tokens = Tokens(text)
  OBVIOUS
<1>2. tokens \in Seq(Seq(Pieces)) /\ Len(tokens) \in Nat
  BY <1>1, TokensType, WordFacts
<1>3. ASSUME Len(tokens) = 2 PROVE tokens[2] \in Seq(Pieces)
  <2>1. 2 \in 1..Len(tokens)
    BY <1>3
  <2>. QED
    BY <1>2, <2>1, SeqFacts
<1>4. CASE k \in {"JOIN", "START"}
  <2>1. Fits(k, tokens) <=> Len(tokens) = 1
    BY <1>4 DEF Fits, HasFormat
  <2>. QED
    BY <1>1, <1>4, <2>1, PlainTokens, PlainSentences
<1>5. CASE k = "LOGIN"
  <2>1. Fits(k, tokens) <=> Len(tokens) = 2 /\ RemoveEndl(tokens[2]) \in Names
    BY <1>3, <1>5, ValidNames DEF Fits, HasFormat
  <2>2. (Kind(tokens) = k /\ Len(tokens) = 2 /\ RemoveEndl(tokens[2]) \in Names)
            = WithArgument(k, Names, text)
    BY <1>1, ArgumentTokens, GuessesAndNames
  <2>. QED
    BY <1>1, <1>5, <2>1, <2>2, LoginSentences
<1>6. CASE k = "QUESS"
  <2>1. Fits(k, tokens) <=> Len(tokens) = 2 /\ RemoveEndl(tokens[2]) \in Guesses
    BY <1>6 DEF Fits, HasFormat, Guesses
  <2>2. (Kind(tokens) = k /\ Len(tokens) = 2 /\ RemoveEndl(tokens[2]) \in Guesses)
            = WithArgument(k, Guesses, text)
    BY <1>1, ArgumentTokens, GuessesAndNames
  <2>. QED
    BY <1>1, <1>6, <2>1, <2>2, QuessSentences
<1>. QED
  BY <1>4, <1>5, <1>6 DEF Keyword

\* The list s begins with k.
Begins(k, s) == s \in Seq(Pieces) /\ Len(s) > 0 /\ s[1] = k

\* It does so with more behind it.
LEMMA BeginsOn ==
    ASSUME NEW k, NEW s, Begins(k, s), NEW u
    PROVE  /\ u \in Pieces => Begins(k, Append(s, u))
           /\ u \in Seq(Pieces) => Begins(k, s \o u)
<1>1. s \in Seq(Pieces) /\ Len(s) \in Nat /\ Len(s) > 0 /\ s[1] = k
  BY SeqFacts DEF Begins
<1>2. ASSUME u \in Pieces PROVE Begins(k, Append(s, u))
  <2>1. /\ Append(s, u) \in Seq(Pieces)
        /\ Len(Append(s, u)) = Len(s) + 1
        /\ Append(s, u)[1] = s[1]
    BY <1>1, <1>2, AppendProperties
  <2>. QED
    BY <1>1, <2>1 DEF Begins
<1>3. ASSUME u \in Seq(Pieces) PROVE Begins(k, s \o u)
  <2>1. Len(u) \in Nat
    BY <1>3, SeqFacts
  <2>2. 1 \in 1..Len(s) + Len(u)
    BY <1>1, <2>1
  <2>3. /\ s \o u \in Seq(Pieces)
        /\ Len(s \o u) = Len(s) + Len(u)
        /\ (s \o u)[1] = s[1]
    BY <1>1, <1>3, <2>2, ConcatProperties
  <2>. QED
    BY <1>1, <2>1, <2>3 DEF Begins
<1>. QED
  BY <1>2, <1>3

\* A sentence begins with its keyword.
LEMMA KeywordIsFirst ==
    ASSUME NEW text, NEW k \in Keyword
    PROVE  /\ Plain(k, text) => Begins(k, text)
           /\ \A A \in SUBSET Arguments : WithArgument(k, A, text) => Begins(k, text)
<1>1. Begins(k, <<k>>)
  BY WordFacts DEF Begins
<1>2. "|" \in Pieces /\ "\n" \in Pieces
  BY WordFacts
<1>3. ASSUME NEW h, Lined(<<k>>, h) PROVE Begins(k, h)
  BY <1>1, <1>2, <1>3, BeginsOn DEF Lined
<1>4. ASSUME NEW x, Begins(k, x), Ended(x, text) PROVE Begins(k, text)
  BY <1>2, <1>4, BeginsOn DEF Ended
<1>5. Plain(k, text) => Begins(k, text)
  BY <1>3, <1>4 DEF Plain
<1>6. ASSUME NEW A \in SUBSET Arguments, WithArgument(k, A, text) PROVE Begins(k, text)
  <2>1. PICK h, t, x : \E a \in A : /\ Lined(<<k>>, h) /\ Lined(a, t)
                                    /\ x = Append(h, "|") \o t
                                    /\ Ended(x, text)
    BY <1>6 DEF WithArgument
  <2>2. PICK a \in A : Lined(a, t)
    BY <2>1
  <2>3. t \in Seq(Pieces \ {"|"})
    BY <2>2, WordsAreBare DEF Arguments
  <2>4. t \in Seq(Pieces)
    BY <2>3
  <2>5. PICK g : g = Append(h, "|")
    OBVIOUS
  <2>6. Begins(k, g)
    BY <1>2, <1>3, <2>1, <2>5, BeginsOn
  <2>7. Begins(k, g \o t)
    BY <2>4, <2>6, BeginsOn
  <2>. QED
    BY <1>4, <2>1, <2>5, <2>7
<1>. QED
  BY <1>5, <1>6

\* The keyword of a sentence is the first of its pieces.
LEMMA SentenceBegins ==
    ASSUME NEW text \in Seq(Pieces), NEW k \in Keyword \ {"PONG"}, text \in LooseFormats(k, text)
    PROVE  text[1] = k
<1>1. CASE k \in {"JOIN", "START"}
  BY <1>1, PlainSentences, KeywordIsFirst DEF Begins
<1>2. CASE k = "LOGIN"
  BY <1>2, LoginSentences, KeywordIsFirst, GuessesAndNames DEF Begins
<1>3. CASE k = "QUESS"
  BY <1>3, QuessSentences, KeywordIsFirst, GuessesAndNames DEF Begins
<1>. QED
  BY <1>1, <1>2, <1>3 DEF Keyword

\* A documented format is one of the loose ones.
LEMMA FormatIsLoose ==
    ASSUME NEW text \in Seq(Pieces), NEW k \in Keyword \ {"PONG"}, text \in Formats(k, text)
    PROVE  text \in LooseFormats(k, text)
<1>1. <<>> \in Optional("\n") /\ <<>> \in Optional("|")
  BY DEF Optional
<1>2. Lined(<<k>>, <<k>>) /\ Ended(text, text)
  BY DEF Lined, Ended
<1>3. CASE k \in {"JOIN", "START"}
  <2>1. text = <<k>>
    BY <1>3 DEF Formats
  <2>2. Plain(k, text)
    BY <1>2, <2>1 DEF Plain
  <2>. QED
    BY <1>3, <2>2, PlainSentences
<1>4. ASSUME NEW A \in SUBSET Arguments, NEW a \in A, text = Append(<<k>>, "|") \o a
      PROVE  WithArgument(k, A, text)
  <2>1. Lined(a, a)
    BY DEF Lined
  <2>. QED
    BY <1>2, <1>4, <2>1 DEF WithArgument
<1>5. "|" \in Pieces /\ k \in Pieces
  BY WordFacts
<1>6. <<k, "|">> = Append(<<k>>, "|")
  BY <1>5
<1>7. CASE k = "LOGIN"
  <2>1. PICK n \in NamesIn(text) : text = <<k, "|">> \o n
    BY <1>7 DEF Formats
  <2>2. n \in Names
    BY <2>1, NamesInText
  <2>3. text = Append(<<k>>, "|") \o n
    BY <1>6, <2>1
  <2>4. WithArgument(k, Names, text)
    BY <1>4, <2>2, <2>3, GuessesAndNames
  <2>. QED
    BY <1>7, <2>4, LoginSentences
<1>8. CASE k = "QUESS"
  <2>1. PICK ch \in Capital : text = <<k, "|", ch>>
    BY <1>8 DEF Formats
  <2>2. ch \in Pieces
    BY WordsAssumption DEF Pieces
  <2>3. <<k, "|", ch>> = <<k, "|">> \o <<ch>>
    BY <1>5, <2>2
  <2>4. text = Append(<<k>>, "|") \o <<ch>>
    BY <1>6, <2>1, <2>3
  <2>5. <<ch>> \in Guesses
    BY DEF Guesses
  <2>6. WithArgument(k, Guesses, text)
    BY <1>4, <2>4, <2>5, GuessesAndNames
  <2>. QED
    BY <1>8, <2>6, QuessSentences
<1>. QED
  BY <1>3, <1>7, <1>8 DEF Keyword

\* No text is misjudged, in no state.
LEMMA NotMisjudged ==
    ASSUME NEW text \in Seq(Pieces), text # <<>>
    PROVE  MisjudgedIn(text) = {}
<1>1. PICK tokens, kind, keywords :
         /\ tokens = Tokens(text) /\ kind = Kind(tokens)
         /\ keywords = {text[1]} \cap (Keyword \ {"PONG"})
  OBVIOUS
<1>2. ASSUME NEW state, kind \in Keyword \ {"PONG"}, Refusal(kind, tokens, state, 2) = 0
      PROVE  \E k \in keywords : text \in LooseFormats(k, text) /\ state \in AcceptedIn(k)
  <2>1. state \in AcceptedIn(kind) /\ Fits(kind, tokens)
    BY <1>2, AcceptedIfFits
  <2>2. text \in LooseFormats(kind, text)
    BY <1>1, <1>2, <2>1, ReadAsSentence
  <2>3. text[1] = kind
    BY <1>2, <2>2, SentenceBegins
  <2>. QED
    BY <1>1, <1>2, <2>1, <2>2, <2>3
<1>3. ASSUME NEW state, NEW k \in keywords, text \in Formats(k, text), state \in AcceptedIn(k)
      PROVE  kind \in Keyword \ {"PONG"} /\ Refusal(kind, tokens, state, 2) = 0
  <2>1. k \in Keyword \ {"PONG"} /\ text \in LooseFormats(k, text)
    BY <1>1, <1>3, FormatIsLoose
  <2>2. kind = k /\ Fits(k, tokens)
    BY <1>1, <2>1, ReadAsSentence
  <2>. QED
    BY <1>3, <2>1, <2>2, AcceptedIfFits
<1>4. MisjudgedIn(text) =
          {state \in ClientState :
              \/ /\ \E k \in keywords : text \in Formats(k, text) /\ state \in AcceptedIn(k)
                 /\ ~(kind \in Keyword \ {"PONG"} /\ Refusal(kind, tokens, state, 2) = 0)
              \/ /\ kind \in Keyword \ {"PONG"} /\ Refusal(kind, tokens, state, 2) = 0
                 /\ ~\E k \in keywords : text \in LooseFormats(k, text) /\ state \in AcceptedIn(k)}
  BY <1>1 DEF MisjudgedIn
<1>. QED
  BY <1>2, <1>3, <1>4

\* Every text of a documented format is accepted in the states that the documentation
\* names, and nothing else that is not so up to ends of lines and a last separator: for
\* texts of every length, of any pieces, and for any lengths of names.
THEOREM GrammarAlwaysAccepted == TextSpec => []GrammarIsAccepted
<1>1. ASSUME NEW n \in 1..MaxPieces, NEW text \in [1..n -> Piece]
      PROVE  MisjudgedIn(text) = {}
  <2>1. n \in Nat /\ n > 0
    OBVIOUS
  <2>2. \A i \in 1..n : text[i] \in Pieces
    BY DEF Pieces
  <2>3. text \in Seq(Pieces) /\ Len(text) = n
    BY <2>1, <2>2
  <2>. QED
    BY <2>1, <2>3, NotMisjudged
<1>2. Misjudged = {}
  BY <1>1 DEF Misjudged
<1>3. GrammarIsAccepted
  BY <1>2 DEF GrammarIsAccepted
<1>. QED
  BY <1>3, PTL

-----------------------------------------------------------------------------
(* The steps of the texts *)

\* The text that some messages make.
LEMMA BatchText ==
    ASSUME NEW ms \in Batch, NEW text, text = FlattenSeq(ms)
    PROVE  /\ ms \in Seq(Message) /\ Len(ms) \in Nat /\ Len(ms) >= 1
           /\ ms \in Seq(Seq(Pieces))
           /\ text \in Seq(Pieces) /\ text # <<>>
           /\ TokensOf[ms] = Tokens(text)
<1>1. PICK n \in 0..MaxMerge : ms \in [1..n -> Message]
  BY DEF Batch, SeqOf
<1>2. ms # <<>>
  BY DEF Batch
<1>3. n \in Nat
  OBVIOUS
<1>4. ms \in Seq(Message) /\ Len(ms) = n
  BY <1>1, <1>3
<1>5. n >= 1
  BY <1>2, <1>3, <1>4, EmptySeq
<1>6. Message \subseteq Seq(Pieces) /\ \A m \in Message : m # <<>>
  BY MessageAssumption DEF Pieces
<1>7. ms \in Seq(Seq(Pieces))
  BY <1>4, <1>6
<1>8. PICK a, b, c : a = ms[1] /\ b = ms[2] /\ c = a \o b
  OBVIOUS
<1>9. text \in Seq(Pieces) /\ Prefixed(Pieces, a, text)
  BY <1>4, <1>5, <1>7, <1>8, FlattenBegins
<1>10. a \in Seq(Pieces) /\ a # <<>>
  <2>1. 1 \in 1..n
    BY <1>3, <1>5
  <2>. QED
    BY <1>1, <1>6, <1>8, <2>1
<1>11. text # <<>>
  <2>1. PICK rest \in Seq(Pieces) : text = a \o rest
    BY <1>9 DEF Prefixed
  <2>2. Len(a \o rest) = Len(a) + Len(rest) /\ Len(rest) \in Nat
    BY <1>10, ConcatProperties
  <2>3. Len(a) \in Nat /\ Len(a) # 0
    BY <1>10, EmptySeq, SeqFacts
  <2>4. Len(text) # 0
    BY <2>1, <2>2, <2>3
  <2>. QED
    BY <2>4
<1>12. TokensOf[ms] = Tokens(text)
  BY DEF TokensOf
<1>. QED
  BY <1>3, <1>4, <1>5, <1>7, <1>9, <1>11, <1>12

\* What is not refused is accepted by the state, and the tokens fit.
LEMMA NotRefused ==
    ASSUME NEW k, NEW tokens, NEW state, NEW seats, Refusal(k, tokens, state, seats) = 0
    PROVE  /\ state \in AcceptedIn(k) /\ HasFormat(k, tokens)
           /\ k = "LOGIN" => CheckNameValidity(tokens[2])
BY DEF Refusal

\* The branch of a text that is not unknown is one of the keywords.
LEMMA KindIsKeyword ==
    ASSUME NEW tokens, Kind(tokens) # "unknown"
    PROVE  Kind(tokens) \in Keyword
BY DEF Kind

\* A text that is not refused is one of the handlers that Server describes.
LEMMA DoIsHandle ==
    ASSUME NEW fd, NEW c, NEW ms \in Batch, NEW seats, NEW tokens, tokens = TokensOf[ms],
           NEW k \in Keyword, k = Kind(tokens),
           Refusal(k, tokens, client_state[c], seats) = 0, Do(fd, c, k, tokens)
    PROVE  Handle(fd, c)
<1>1. HasFormat(k, tokens) /\ client_state[c] \in AcceptedIn(k)
  BY NotRefused
<1>2. CASE k = "LOGIN"
  <2>1. client_state[c] = "UNLOGED"
    BY <1>1, <1>2 DEF AcceptedIn
  <2>2. Refusal("LOGIN", tokens, "UNLOGED", 0) = 0
    BY <1>2, <2>1 DEF Refusal
  <2>3. tokens[2] \in Name
    BY <1>2, <2>2, NameAssumption
  <2>. QED
    BY <1>2, <2>3 DEF Do, Handle
<1>3. CASE k = "QUESS"
  <2>1. Len(tokens) = 2 /\ RemoveEndl(tokens[2]) \in {<<ch>> : ch \in Capital}
    BY <1>1, <1>3 DEF HasFormat
  <2>2. PICK ch \in Capital : RemoveEndl(tokens[2]) = <<ch>>
    BY <2>1
  <2>3. PICK text \in Seq(Pieces) : text # <<>> /\ tokens = Tokens(text)
    BY BatchText
  <2>4. tokens \in Seq(Seq(Pieces))
    BY <2>3, TokensType, WordFacts
  <2>5. PICK t \in Seq(Pieces) : t = tokens[2]
    <3>1. 2 \in 1..Len(tokens)
      BY <2>1
    <3>. QED
      BY <2>4, <3>1, SeqFacts
  <2>6. Lined(<<ch>>, t)
    BY <2>2, <2>5, EndRemoved
  <2>7. t[1] = ch
    BY <2>6 DEF Lined
  <2>8. tokens[2][1] \in Letter
    BY <2>5, <2>7, LetterAssumption
  <2>. QED
    BY <1>3, <2>8 DEF Do, Handle
<1>4. CASE k \in {"JOIN", "START", "PONG"}
  BY <1>4 DEF Do, Handle
<1>. QED
  BY <1>2, <1>3, <1>4 DEF Keyword

\* handle_message does to a client what Server says, whatever the text.
LEMMA HandleMessageIsHandle ==
    ASSUME NEW fd, NEW c, NEW ms \in Batch, HandleMessage(fd, c, ms)
    PROVE  Handle(fd, c)
<1>1. PICK tokens, k, seats :
         /\ tokens = TokensOf[ms] /\ k = Kind(tokens)
         /\ seats = IF client_state[c] = "LOBBY" THEN Len(players[game[c]]) ELSE 0
  OBVIOUS
<1>2. IF k # "unknown" /\ Refusal(k, tokens, client_state[c], seats) = 0
      THEN Do(fd, c, k, tokens)
      ELSE WrongMsg(fd, c)
  BY <1>1 DEF HandleMessage
<1>3. CASE k # "unknown" /\ Refusal(k, tokens, client_state[c], seats) = 0
  <2>1. k \in Keyword
    BY <1>1, <1>3, KindIsKeyword
  <2>. QED
    BY <1>1, <1>2, <1>3, <2>1, DoIsHandle
<1>4. CASE ~(k # "unknown" /\ Refusal(k, tokens, client_state[c], seats) = 0)
  BY <1>2, <1>4 DEF Handle
<1>. QED
  BY <1>3, <1>4

\* A step of the texts is one of Server.
LEMMA TextStepIsServerStep ==
    ASSUME [TextNext]_allVars
    PROVE  [Next]_vars
<1>1. ASSUME NEW fd \in Fd, NEW c \in Client, NEW ms \in Batch, HandleMessage(fd, c, ms)
      PROVE  Next
  BY <1>1, HandleMessageIsHandle DEF Next
<1>2. ASSUME NEW fd \in Fd, NEW c \in Client, EmptyText(fd, c) PROVE UNCHANGED vars
  BY <1>2 DEF EmptyText
<1>3. CASE NoText
  BY <1>3 DEF NoText, Next, Handle
<1>4. CASE UNCHANGED allVars
  BY <1>4 DEF allVars
<1>. QED
  BY <1>1, <1>2, <1>3, <1>4 DEF TextNext

\* Server allows all that texts bring about: a message in pieces or several at once,
\* with any separators, does to a client what one of the handlers does, and a text that
\* is empty as a C string ends the server without another change.
THEOREM TextsImplementServer == TextSpec => Spec
<1>1. TextInit => Init
  BY DEF TextInit
<1>. QED
  BY <1>1, TextStepIsServerStep, PTL DEF TextSpec, Spec

-----------------------------------------------------------------------------
(* Messages that arrive together *)

\* Short lists, written out.
LEMMA WrittenOut ==
    ASSUME NEW a, NEW b, NEW c, NEW d
    PROVE  /\ <<a, b>> = Append(<<a>>, b)
           /\ <<a, b, c>> = Append(<<a, b>>, c)
           /\ <<a, b, c>> = <<a, b>> \o <<c>>
           /\ <<a, b, c, d>> = <<a, b>> \o <<c, d>>
           /\ <<a, b, c, d>> = <<a, b, c>> \o <<d>>
<1>1. PICK S : S = {a, b, c, d}
  OBVIOUS
<1>2. a \in S /\ b \in S /\ c \in S /\ d \in S
  BY <1>1
<1>3. <<a, b>> = Append(<<a>>, b)
  BY <1>2
<1>4. <<a, b, c>> = Append(<<a, b>>, c)
  BY <1>2
<1>5. <<a, b, c>> = <<a, b>> \o <<c>>
  BY <1>2
<1>6. <<a, b, c, d>> = <<a, b>> \o <<c, d>>
  BY <1>2
<1>7. <<a, b, c, d>> = <<a, b, c>> \o <<d>>
  BY <1>2
<1>. QED
  BY <1>3, <1>4, <1>5, <1>6, <1>7

\* What the client of this repository sends (connect_to_server, join_game, start_game
\* and quess of main.py, the answer to a ping in CommunicationHandlerer.py): a keyword,
\* LOGIN with a word and QUESS with a letter, none with an end of line.
ClientMessages ==
    {<<k>> : k \in {"JOIN", "START", "PONG"}}
        \cup {<<"LOGIN", "|", n>> : n \in Word}
        \cup {<<"QUESS", "|", ch>> : ch \in Capital}

\* A message begins with a keyword; with an argument it has three pieces.
LEMMA MessageForms ==
    ASSUME NEW m \in ClientMessages
    PROVE  /\ m \in Seq(Pieces) /\ Len(m) \in Nat /\ Len(m) >= 1 /\ m[1] \in Keyword
           /\ m[1] \in {"JOIN", "START"} => Len(m) = 1
           /\ m[1] = "QUESS" => Len(m) = 3 /\ m[2] = "|"
<1>1. CASE m \in {<<k>> : k \in {"JOIN", "START", "PONG"}}
  <2>1. PICK k \in {"JOIN", "START", "PONG"} : m = <<k>>
    BY <1>1
  <2>2. k \in Keyword /\ k \in Pieces
    BY WordFacts DEF Keyword
  <2>. QED
    BY <2>1, <2>2
<1>2. CASE m \in {<<"LOGIN", "|", n>> : n \in Word}
  <2>1. PICK n \in Word : m = <<"LOGIN", "|", n>>
    BY <1>2
  <2>2. "LOGIN" \in Keyword /\ "LOGIN" \in Pieces /\ "|" \in Pieces /\ n \in Pieces
    BY WordFacts DEF Keyword
  <2>. QED
    BY <2>1, <2>2
<1>3. CASE m \in {<<"QUESS", "|", ch>> : ch \in Capital}
  <2>1. PICK ch \in Capital : m = <<"QUESS", "|", ch>>
    BY <1>3
  <2>2. "QUESS" \in Keyword /\ "QUESS" \in Pieces /\ "|" \in Pieces /\ ch \in Pieces
    BY WordFacts DEF Keyword
  <2>. QED
    BY <2>1, <2>2
<1>. QED
  BY <1>1, <1>2, <1>3 DEF ClientMessages

\* A text of two messages or more: behind the first one there is a keyword.
LEMMA MergedText ==
    ASSUME Message \subseteq ClientMessages, NEW ms \in Batch, Len(ms) > 1,
           NEW text, text = FlattenSeq(ms)
    PROVE  /\ text \in Seq(Pieces) /\ Len(text) \in Nat /\ Len(text) >= 2
           /\ text[1] \in Keyword
           /\ text[1] \in {"JOIN", "START"} => text[2] \in Keyword
           /\ text[1] = "QUESS" => Len(text) >= 4 /\ text[2] = "|" /\ text[4] \in Keyword
<1>1. PICK a, b, c : a = ms[1] /\ b = ms[2] /\ c = a \o b
  OBVIOUS
<1>2. ms \in Seq(Message) /\ Len(ms) \in Nat /\ ms \in Seq(Seq(Pieces))
  BY BatchText
<1>3. a \in ClientMessages /\ b \in ClientMessages
  <2>1. 1 \in 1..Len(ms) /\ 2 \in 1..Len(ms)
    BY <1>2
  <2>2. ms[1] \in Message /\ ms[2] \in Message
    BY <1>2, <2>1, SeqFacts
  <2>. QED
    BY <1>1, <2>2
<1>4. a \in Seq(Pieces) /\ Len(a) \in Nat /\ Len(a) >= 1
  BY <1>3, MessageForms
<1>5. b \in Seq(Pieces) /\ Len(b) \in Nat /\ Len(b) >= 1 /\ b[1] \in Keyword
  BY <1>3, MessageForms
<1>6. /\ c \in Seq(Pieces) /\ Len(c) = Len(a) + Len(b)
      /\ \A i \in 1..Len(a) + Len(b) : c[i] = IF i <= Len(a) THEN a[i] ELSE b[i - Len(a)]
  BY <1>1, <1>4, <1>5, ConcatProperties
<1>7. Prefixed(Pieces, c, text)
  <2>1. PICK flat : flat = FlattenSeq(ms)
    OBVIOUS
  <2>2. Len(ms) >= 2
    BY <1>2
  <2>3. Prefixed(Pieces, c, FlattenSeq(ms))
    BY <1>1, <1>2, <2>2, FlattenBegins
  <2>. QED
    BY <2>3
<1>8. PICK rest \in Seq(Pieces) : text = c \o rest
  BY <1>7 DEF Prefixed
<1>9. /\ text \in Seq(Pieces) /\ Len(text) = Len(c) + Len(rest) /\ Len(rest) \in Nat
      /\ \A i \in 1..Len(c) + Len(rest) : text[i] = IF i <= Len(c) THEN c[i] ELSE rest[i - Len(c)]
  BY <1>6, <1>8, ConcatProperties, SeqFacts
<1>10. ASSUME NEW i \in 1..Len(a) PROVE text[i] = a[i]
  <2>1. i \in 1..Len(a) + Len(b) /\ i <= Len(a)
    BY <1>4, <1>5
  <2>2. i \in 1..Len(c) + Len(rest) /\ i <= Len(c)
    BY <1>6, <1>9, <2>1
  <2>. QED
    BY <1>6, <1>9, <2>1, <2>2
<1>11. text[Len(a) + 1] = b[1]
  <2>1. PICK i : i = Len(a) + 1
    OBVIOUS
  <2>2. i \in 1..Len(a) + Len(b) /\ ~(i <= Len(a)) /\ i - Len(a) = 1
    BY <1>4, <1>5, <2>1
  <2>3. i \in 1..Len(c) + Len(rest) /\ i <= Len(c)
    BY <1>4, <1>5, <1>6, <1>9, <2>2
  <2>4. c[i] = b[1]
    BY <1>6, <2>2
  <2>. QED
    BY <1>9, <2>1, <2>3, <2>4
<1>12. Len(text) \in Nat /\ Len(text) >= Len(a) + 1
  BY <1>4, <1>5, <1>6, <1>9
<1>13. 1 \in 1..Len(a) /\ text[1] = a[1]
  BY <1>4, <1>10
<1>14. text[1] \in Keyword
  BY <1>3, <1>13, MessageForms
<1>15. ASSUME text[1] \in {"JOIN", "START"} PROVE text[2] \in Keyword
  <2>1. Len(a) = 1
    BY <1>3, <1>13, <1>15, MessageForms
  <2>. QED
    BY <1>5, <1>11, <2>1
<1>16. ASSUME text[1] = "QUESS"
       PROVE  Len(text) >= 4 /\ text[2] = "|" /\ text[4] \in Keyword
  <2>1. Len(a) = 3 /\ a[2] = "|"
    BY <1>3, <1>13, <1>16, MessageForms
  <2>2. 2 \in 1..Len(a)
    BY <2>1
  <2>3. text[2] = "|"
    BY <1>10, <2>1, <2>2
  <2>4. text[4] \in Keyword
    BY <1>5, <1>11, <2>1
  <2>. QED
    BY <1>12, <2>1, <2>3, <2>4
<1>. QED
  BY <1>4, <1>9, <1>12, <1>14, <1>15, <1>16

\* Behind a keyword without an argument there is no other piece ...
LEMMA SecondOfPlain ==
    ASSUME NEW k \in Keyword, NEW text, Plain(k, text), Len(text) >= 2
    PROVE  text[2] \notin Keyword
<1>1. PICK h : Lined(<<k>>, h) /\ Ended(h, text)
  BY DEF Plain
<1>2. h = <<k>> \/ h = <<k, "\n">>
  BY <1>1 DEF Lined
<1>3. \/ text = <<k>> \/ text = <<k, "|">>
      \/ text = <<k, "\n">> \/ text = <<k, "\n", "|">>
  <2>1. <<k, "|">> = Append(<<k>>, "|")
    BY WrittenOut
  <2>2. <<k, "\n", "|">> = Append(<<k, "\n">>, "|")
    BY WrittenOut
  <2>3. text = h \/ text = Append(h, "|")
    BY <1>1 DEF Ended
  <2>4. CASE h = <<k>>
    BY <2>1, <2>3, <2>4
  <2>5. CASE h = <<k, "\n">>
    BY <2>2, <2>3, <2>5
  <2>. QED
    BY <1>2, <2>4, <2>5
<1>4. text[2] = "|" \/ text[2] = "\n"
  BY <1>3
<1>. QED
  BY <1>4 DEF Keyword

\* ... nor behind a letter.
LEMMA FourthOfGuess ==
    ASSUME NEW k \in Keyword, NEW text, WithArgument(k, Guesses, text),
           text[2] = "|", Len(text) >= 4
    PROVE  text[4] \notin Keyword
<1>1. PICK h, t, x : \E a \in Guesses : /\ Lined(<<k>>, h) /\ Lined(a, t)
                                        /\ x = Append(h, "|") \o t
                                        /\ Ended(x, text)
  BY DEF WithArgument
<1>2. PICK ch \in Capital : Lined(<<ch>>, t)
  BY <1>1 DEF Guesses
<1>3. h = <<k>> \/ h = <<k, "\n">>
  BY <1>1 DEF Lined
<1>4. t = <<ch>> \/ t = <<ch, "\n">>
  BY <1>2 DEF Lined
<1>5. PICK g : g = Append(h, "|")
  OBVIOUS
<1>6. g = <<k, "|">> \/ g = <<k, "\n", "|">>
  <2>1. <<k, "|">> = Append(<<k>>, "|")
    BY WrittenOut
  <2>2. <<k, "\n", "|">> = Append(<<k, "\n">>, "|")
    BY WrittenOut
  <2>. QED
    BY <1>3, <1>5, <2>1, <2>2
<1>7. x = g \o t
  BY <1>1, <1>5
<1>8. \/ x = <<k, "|", ch>> \/ x = <<k, "|", ch, "\n">>
      \/ x = <<k, "\n", "|", ch>> \/ x = <<k, "\n", "|", ch, "\n">>
  <2>1. <<k, "|", ch>> = <<k, "|">> \o <<ch>>
    BY WrittenOut
  <2>2. <<k, "|", ch, "\n">> = <<k, "|">> \o <<ch, "\n">>
    BY WrittenOut
  <2>3. <<k, "\n", "|", ch>> = <<k, "\n", "|">> \o <<ch>>
    BY WrittenOut
  <2>4. <<k, "\n", "|", ch, "\n">> = <<k, "\n", "|">> \o <<ch, "\n">>
    BY WrittenOut
  <2>5. CASE g = <<k, "|">>
    BY <1>4, <1>7, <2>1, <2>2, <2>5
  <2>6. CASE g = <<k, "\n", "|">>
    BY <1>4, <1>7, <2>3, <2>4, <2>6
  <2>. QED
    BY <1>6, <2>5, <2>6
<1>9. text = x \/ text = Append(x, "|")
  BY <1>1 DEF Ended
<1>10. x = <<k, "|", ch>> \/ x = <<k, "|", ch, "\n">>
  BY <1>8, <1>9
<1>11. text[4] = "|" \/ text[4] = "\n"
  BY <1>9, <1>10
<1>. QED
  BY <1>11 DEF Keyword

\* Of messages that arrive together none is taken for JOIN, START or QUESS.
LEMMA MergedKinds ==
    ASSUME Message \subseteq ClientMessages, NEW ms \in Batch, Len(ms) > 1,
           NEW tokens, tokens = TokensOf[ms], NEW k \in Keyword, k = Kind(tokens),
           NEW state, NEW seats, Refusal(k, tokens, state, seats) = 0
    PROVE  k \in {"LOGIN", "PONG"}
<1> SUFFICES ASSUME k \in {"JOIN", "START", "QUESS"} PROVE FALSE
  BY DEF Keyword
<1>1. PICK text : text = FlattenSeq(ms)
  OBVIOUS
<1>2. text \in Seq(Pieces) /\ text # <<>> /\ tokens = Tokens(text)
  BY <1>1, BatchText
<1>3. /\ Len(text) >= 2
      /\ text[1] \in {"JOIN", "START"} => text[2] \in Keyword
      /\ text[1] = "QUESS" => Len(text) >= 4 /\ text[2] = "|" /\ text[4] \in Keyword
  BY <1>1, MergedText
<1>4. Fits(k, tokens)
  BY NotRefused DEF Fits
<1>5. k \in Keyword \ {"PONG"}
  OBVIOUS
<1>6. text \in LooseFormats(k, text)
  BY <1>2, <1>4, <1>5, ReadAsSentence
<1>7. text[1] = k
  BY <1>2, <1>5, <1>6, SentenceBegins
<1>8. CASE k \in {"JOIN", "START"}
  <2>1. Plain(k, text)
    BY <1>6, <1>8, PlainSentences
  <2>2. text[2] \notin Keyword
    BY <1>3, <2>1, SecondOfPlain
  <2>. QED
    BY <1>3, <1>7, <1>8, <2>2
<1>9. CASE k = "QUESS"
  <2>1. WithArgument(k, Guesses, text)
    BY <1>6, <1>9, QuessSentences
  <2>2. Len(text) >= 4 /\ text[2] = "|" /\ text[4] \in Keyword
    BY <1>3, <1>7, <1>9
  <2>. QED
    BY <2>1, <2>2, FourthOfGuess
<1>. QED
  BY <1>8, <1>9

\* What the property asks of the game g, in the words of GameManagerProofs.
LEMMA PlaysNothingHere ==
    ASSUME NEW g \in Game, P!PlaysNothing(g)
    PROVE  /\ Range(players[g]') \subseteq GM!Members(g)
           /\ g \in started_games' => g \in started_games /\ quessed_chars[g]' = quessed_chars[g]
           /\ \A c \in Range(players[g]') : hp[c]' >= hp[c]
BY DEF P!PlaysNothing, P!Members, P!Range, GM!Members, GM!Range, Range

\* A step that leaves the seats, the rounds and the life points alone plays nothing.
LEMMA UnchangedPlaysNothing ==
    ASSUME P!IInv, UNCHANGED <<players, started_games, quessed_chars, hp>>, NEW g \in Game
    PROVE  P!PlaysNothing(g)
<1>1. \A p \in Client : hp[p] \in Nat
  BY DEF P!IInv, P!TypeOK
<1>2. PICK seats \in Seq(Client) : seats = players[g]
  BY Seats
<1>3. P!Range(players[g]) \subseteq Client
  BY <1>2 DEF P!Range
<1>. QED
  BY <1>1, <1>3 DEF P!PlaysNothing, P!Members

\* The departure of a client plays nothing (GameManagerProofs).
LEMMA DeparturePlaysNothing ==
    ASSUME P!IInv, NEW c \in Client, GM!Leave(c), NEW g \in Game
    PROVE  P!PlaysNothing(g)
<1>1. P!Leave(c)
  BY SameLeave
<1>2. NoClient \notin Client
  BY NoneAssumption
<1>. QED
  BY <1>1, <1>2, GamesAssumption, P!LeavePlaysNothing

\* A wrong message plays nothing, whether it is the last one or not.
LEMMA WrongPlaysNothing ==
    ASSUME P!IInv, NEW fd, NEW c \in Client, WrongMsg(fd, c), NEW g \in Game
    PROVE  P!PlaysNothing(g)
<1>1. GM!Leave(c) \/ UNCHANGED gameVars
  BY DEF WrongMsg, Kick, Disconnet
<1>2. CASE GM!Leave(c)
  BY <1>2, DeparturePlaysNothing
<1>3. CASE UNCHANGED gameVars
  BY <1>3, UnchangedPlaysNothing DEF gameVars
<1>. QED
  BY <1>1, <1>2, <1>3

\* Neither does a login or the answer to a ping.
LEMMA LoginPlaysNothing ==
    ASSUME P!IInv, NEW fd, NEW c \in Client, NEW tokens, NEW k \in {"LOGIN", "PONG"},
           Do(fd, c, k, tokens), NEW g \in Game
    PROVE  P!PlaysNothing(g)
<1>a. PICK n : n = tokens[2]
  OBVIOUS
<1>1. \/ LoginNew(fd, c, n) \/ LoginBack(fd, c, n) \/ LoginRefused(fd, c, n)
      \/ Pong(fd, c)
  BY <1>a DEF Do
<1>2. CASE LoginNew(fd, c, n)
  <2>1. GM!LogIn(c)
    BY <1>2 DEF LoginNew
  <2>2. UNCHANGED <<players, started_games, quessed_chars, hp>>
    BY <2>1 DEF GM!LogIn, GM!roundVars, GM!listVars
  <2>. QED
    BY <2>2, UnchangedPlaysNothing
<1>3. CASE LoginBack(fd, c, n) \/ Pong(fd, c)
  <2>1. UNCHANGED gameVars
    BY <1>3 DEF LoginBack, Pong
  <2>. QED
    BY <2>1, UnchangedPlaysNothing DEF gameVars
<1>4. CASE LoginRefused(fd, c, n)
  <2>1. GM!Leave(c)
    BY <1>4 DEF LoginRefused, Kick, Disconnet
  <2>. QED
    BY <2>1, DeparturePlaysNothing
<1>. QED
  BY <1>1, <1>2, <1>3, <1>4

\* What messages that arrive together do.
LEMMA MergedStep ==
    ASSUME Message \subseteq ClientMessages, P!IInv,
           NEW fd, NEW c \in Client, NEW ms \in Batch, Len(ms) > 1,
           HandleMessage(fd, c, ms), NEW g \in Game
    PROVE  P!PlaysNothing(g)
<1>1. PICK tokens, k, seats :
         /\ tokens = TokensOf[ms] /\ k = Kind(tokens)
         /\ seats = IF client_state[c] = "LOBBY" THEN Len(players[game[c]]) ELSE 0
  OBVIOUS
<1>2. IF k # "unknown" /\ Refusal(k, tokens, client_state[c], seats) = 0
      THEN Do(fd, c, k, tokens)
      ELSE WrongMsg(fd, c)
  BY <1>1 DEF HandleMessage
<1>3. CASE k # "unknown" /\ Refusal(k, tokens, client_state[c], seats) = 0
  <2>1. k \in Keyword
    BY <1>1, <1>3, KindIsKeyword
  <2>2. k \in {"LOGIN", "PONG"}
    BY <1>1, <1>3, <2>1, MergedKinds
  <2>. QED
    BY <1>2, <1>3, <2>2, LoginPlaysNothing
<1>4. CASE ~(k # "unknown" /\ Refusal(k, tokens, client_state[c], seats) = 0)
  BY <1>2, <1>4, WrongPlaysNothing
<1>. QED
  BY <1>3, <1>4

\* Messages of this repository's client that TCP delivers together are not played in
\* part: nobody joins, no round starts, no letter is named and no life is lost, for any
\* number of messages in a text, and for names and words of any length.
THEOREM MergedNeverPlay ==
    ASSUME Message \subseteq ClientMessages
    PROVE  TextSpec => MergedPlayNothing
<1>1. ASSUME IInv, [TextNext]_allVars
      PROVE  [Len(heard') > 1 =>
                \A g \in Game :
                    /\ Range(players[g]') \subseteq GM!Members(g)
                    /\ g \in started_games' =>
                         g \in started_games /\ quessed_chars[g]' = quessed_chars[g]
                    /\ \A c \in Range(players[g]') : hp[c]' >= hp[c]]_allVars
  <2>1. P!IInv
    BY <1>1 DEF IInv
  <2>2. ASSUME NEW fd \in Fd, NEW c \in Client, NEW ms \in Batch, HandleMessage(fd, c, ms),
               Len(heard') > 1, NEW g \in Game
        PROVE  P!PlaysNothing(g)
    <3>1. Len(ms) > 1
      BY <2>2 DEF HandleMessage
    <3>. QED
      BY <2>1, <2>2, <3>1, MergedStep
  <2>3. ASSUME NEW fd \in Fd, NEW c \in Client, EmptyText(fd, c) PROVE heard' = <<>>
    BY <2>3 DEF EmptyText
  <2>4. CASE NoText
    BY <2>4 DEF NoText
  <2>5. CASE UNCHANGED allVars
    BY <2>5
  <2>. QED
    BY <1>1, <2>2, <2>3, <2>4, <2>5, PlaysNothingHere DEF TextNext
<1>. QED
  BY <1>1, Invariance, TextsImplementServer, PTL DEF TextSpec, MergedPlayNothing
=============================================================================
