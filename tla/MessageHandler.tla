----------------------------- MODULE MessageHandler -----------------------------
(***************************************************************************)
(* The server as its clients see it: MessageHandler::handle_message reads  *)
(* texts (Messages) and calls the handlers (Server).                       *)
(*                                                                         *)
(* TCP keeps no borders between messages and recv() takes all that is      *)
(* there, so one text is made of one or more messages of a client.  What   *)
(* handle_message gets of it is a C string, which a NUL byte ends.         *)
(***************************************************************************)
EXTENDS Server, Messages

CONSTANTS
    Message,   \* the texts that clients send at once, up to a NUL
    MaxMerge,  \* bound: messages that arrive together
    Piece,     \* what the texts of GrammarIsAccepted are made of
    MaxPieces  \* bound: their length

VARIABLES
    heard,      \* the messages in the text of the last step, if it read one
    terminated  \* an exception that nobody catches has ended the process

\* A text is made of pieces.  (EmptyText is about the one without any.)
ASSUME MessageAssumption == Message \subseteq Seq(Piece \cup Word \cup {"|", "\n"}) \ {<<>>}

allVars == <<vars, heard, terminated>>

Batch == SeqOf(Message, MaxMerge) \ {<<>>}

\* The tokens of the text that a batch makes.
TokensOf == [ms \in Batch |-> Tokens(FlattenSeq(ms))]

\* What a login with the text is called in the map of names.
ASSUME NameAssumption ==
    \A ms \in Batch :
        LET tokens == TokensOf[ms]
        IN Kind(tokens) = "LOGIN" /\ Refusal("LOGIN", tokens, "UNLOGED", 0) = 0 => tokens[2] \in Name

ASSUME LetterAssumption == Capital = Letter

-----------------------------------------------------------------------------
TextInit == Init /\ heard = <<>> /\ terminated = FALSE

\* A message of the kind k that is not refused.
Do(fd, c, k, tokens) ==
    \/ /\ k = "LOGIN"
       /\ LET name == tokens[2]
          IN  LoginNew(fd, c, name) \/ LoginBack(fd, c, name) \/ LoginRefused(fd, c, name)
    \/ k = "JOIN"  /\ Join(fd, c)
    \/ k = "START" /\ Start(fd, c)
    \/ k = "QUESS" /\ Quess(fd, c, tokens[2][1])
    \/ k = "PONG"  /\ Pong(fd, c)

\* handle_message, for the text that the messages ms make.
HandleMessage(fd, c, ms) ==
    /\ LET tokens == TokensOf[ms]
           k      == Kind(tokens)
           seats  == IF client_state[c] = "LOBBY" THEN Len(players[game[c]]) ELSE 0
       IN  IF k # "unknown" /\ Refusal(k, tokens, client_state[c], seats) = 0
           THEN Do(fd, c, k, tokens)
           ELSE WrongMsg(fd, c)
    /\ heard' = ms
    /\ UNCHANGED terminated

\* A text whose first byte is NUL has no tokens, so tokens.at(0) throws.
EmptyText(fd, c) ==
    /\ Reads(fd, c)
    /\ terminated' = TRUE
    /\ heard' = <<>>
    /\ UNCHANGED vars

\* The steps that read no text; a text longer than the buffer is one of them.
NoText ==
    /\ \/ \E fd \in Fd : Accept(fd)
       \/ \E fd \in Fd, c \in Client : WrongMsg(fd, c) \/ Eof(fd, c)
       \/ PingRound
       \/ Spin
    /\ heard' = <<>>
    /\ UNCHANGED terminated

TextNext ==
    \/ ~terminated /\ \E fd \in Fd, c \in Client, ms \in Batch : HandleMessage(fd, c, ms)
    \/ ~terminated /\ \E fd \in Fd, c \in Client : EmptyText(fd, c)
    \/ ~terminated /\ NoText
    \/ terminated /\ UNCHANGED allVars

TextSpec == TextInit /\ [][TextNext]_allVars

-----------------------------------------------------------------------------
\* Messages that arrive together are not played in part: nobody joins, no round
\* starts, no letter is named, and no life is lost because of them.
MergedPlayNothing ==
    [][Len(heard') > 1 =>
        \A g \in Game :
            /\ Range(players[g]') \subseteq GM!Members(g)
            /\ g \in started_games' => g \in started_games /\ quessed_chars[g]' = quessed_chars[g]
            /\ \A c \in Range(players[g]') : hp[c]' >= hp[c]]_allVars

-----------------------------------------------------------------------------
\* In whatever state a client is, handle_message does what every text of a documented
\* format asks for in it, and of the other texts at most those that have an end of line
\* or a last separator too many.  (Collected once, for all states together.)
Misjudged ==
    UNION {UNION {MisjudgedIn(text) : text \in [1..n -> Piece]} : n \in 1..MaxPieces}
GrammarIsAccepted == \A c \in Client : client_state[c] \notin Misjudged

(* A statement of the documentation that the code does not keep. *)

\* ups_doc.tex:84, LOGIN|<name>: a client that is logged in has sent its name so.
NameIsSent ==
    \A c \in Connected :
        client[c].name # NoName => <<"LOGIN", "|">> \o client[c].name \in Message
=============================================================================
