-------------------------------- MODULE Messages --------------------------------
(***************************************************************************)
(* The text of a message to the server: how MessageHandler::handle_message *)
(* splits it, and which texts it takes for a message of the protocol.      *)
(*                                                                         *)
(* A text is a sequence of pieces.  A piece is a word, that is letters     *)
(* which nobody looks into, the separator, the end of a line, or something *)
(* else.                                                                   *)
(***************************************************************************)
EXTENDS ClientState, Integers, Sequences, SequencesExt

CONSTANTS
    Word,         \* the words, the keywords among them
    LengthOf,     \* how many letters a word has
    Capital,      \* the words of one capital letter
    NAME_LENGHT   \* config.h

Keyword == {"LOGIN", "JOIN", "START", "QUESS", "PONG"}

ASSUME WordsAssumption ==
    /\ Keyword \cup Capital \subseteq Word
    /\ {"|", "\n"} \cap Word = {}
    /\ LengthOf \in [Word -> Nat \ {0}]
    /\ \A ch \in Capital : LengthOf[ch] = 1
    /\ NAME_LENGHT \in Nat \ {0}

\* One more piece of the text whose tokens are known so far.
AddPiece(tokens, p) ==
    IF p = "|" THEN Append(tokens, <<>>)
               ELSE Append(Front(tokens), Append(Last(tokens), p))

-----------------------------------------------------------------------------
(* Reading a text *)

\* StringHandlerer::removeEndl.
RemoveEndl(str) == IF str # <<>> /\ Last(str) = "\n" THEN Front(str) ELSE str

\* The loop over std::getline: a last token that is empty is not one.
Tokens(text) ==
    LET split == FoldLeft(AddPiece, << <<>> >>, text)
    IN  IF Last(split) = <<>> THEN Front(split) ELSE split

\* name_lenght after the loop over the letters of a name.
TextLength(str) == FoldLeft(LAMBDA n, w : n + LengthOf[w], 0, str)

\* A plausible mistake, in place of CheckNameValidity: the longest names are refused.
CheckNameValidityShorter(str) ==
    LET name == RemoveEndl(str)
    IN  name # <<>> /\ Range(name) \subseteq Word /\ TextLength(name) < NAME_LENGHT

\* MessageHandler::checkNameValidity.
CheckNameValidity(str) ==
    LET name == RemoveEndl(str)
    IN  name # <<>> /\ Range(name) \subseteq Word /\ TextLength(name) <= NAME_LENGHT

\* A plausible mistake, in place of Kind: a text is told by what it begins with.
KindByPrefix(tokens) ==
    IF tokens[1] # <<>> /\ Head(tokens[1]) \in Keyword THEN Head(tokens[1]) ELSE "unknown"

\* The branch of handle_message that a text leads to.
Kind(tokens) ==
    LET first == RemoveEndl(tokens[1])
    IN  IF Len(first) = 1 /\ first[1] \in Keyword THEN first[1] ELSE "unknown"

\* The states in which a branch goes on.
AcceptedIn(k) ==
    CASE k = "LOGIN" -> {"UNLOGED"}
      [] k = "JOIN"  -> {"LOGGED"}
      [] k = "START" -> {"LOBBY"}
      [] k = "QUESS" -> {"ON_TURN"}
      [] k = "PONG"  -> ClientState

\* The test of the number of tokens, and for QUESS also of the letter.
HasFormat(k, tokens) ==
    CASE k = "LOGIN" -> Len(tokens) = 2
      [] k = "QUESS" -> Len(tokens) = 2 /\ RemoveEndl(tokens[2]) \in {<<ch>> : ch \in Capital}
      [] k = "PONG"  -> TRUE
      [] OTHER       -> Len(tokens) = 1

\* Why a message is refused, the last number of the answer ERROR|.|., or 0.
\* seats is the number of players in the game of a client in LOBBY.
Refusal(k, tokens, state, seats) ==
    CASE state \notin AcceptedIn(k)                       -> 1
      [] state \in AcceptedIn(k) /\ ~HasFormat(k, tokens) -> 2
      [] OTHER -> IF \/ k = "LOGIN" /\ ~CheckNameValidity(tokens[2])
                     \/ k = "START" /\ seats < 2
                  THEN 3 ELSE 0

-----------------------------------------------------------------------------
(* The formats of the documentation, without splitting *)

NamesIn(text) ==
    {str \in {SubSeq(text, i, j) : i, j \in DOMAIN text} :
        str # <<>> /\ Range(str) \subseteq Word /\ TextLength(str) <= NAME_LENGHT}

\* ups_doc.tex:84, 102, 111 and 127: LOGIN|<name>, JOIN, START, QUESS|<letter>.  The
\* name is one of the words of a text.
Formats(k, text) ==
    CASE k = "LOGIN" -> {<<k, "|">> \o n : n \in NamesIn(text)}
      [] k = "QUESS" -> {<<k, "|", ch>> : ch \in Capital}
      [] OTHER       -> {<<k>>}

\* The formats with what the documentation does not have: an end of line behind the
\* keyword or the argument, and a separator at the end.
Optional(p) == {<<>>, <<p>>}

ArgumentsIn(k, text) ==
    CASE k = "LOGIN" -> {<<"|">> \o n \o f : n \in NamesIn(text), f \in Optional("\n")}
      [] k = "QUESS" -> {<<"|">> \o <<ch>> \o f : ch \in Capital, f \in Optional("\n")}
      [] OTHER       -> {<<>>}

LooseFormats(k, text) ==
    {<<k>> \o e \o arg \o bar :
        e \in Optional("\n"), arg \in ArgumentsIn(k, text), bar \in Optional("|")}

\* A text of a documented format has to be accepted in the states that the
\* documentation names for it, and no text but one that is so up to ends of lines and
\* a last separator may be.  These are the states in which that fails for a text.
\* (Nothing is asked of what comes behind PONG.)
MisjudgedIn(text) ==
    LET tokens   == Tokens(text)
        kind     == Kind(tokens)
        keywords == {text[1]} \cap (Keyword \ {"PONG"})
        Accepted(state) == /\ kind \in Keyword \ {"PONG"}
                           /\ Refusal(kind, tokens, state, 2) = 0
        Documented(state) ==
            \E k \in keywords : text \in Formats(k, text) /\ state \in AcceptedIn(k)
        Tolerable(state) ==
            \E k \in keywords : text \in LooseFormats(k, text) /\ state \in AcceptedIn(k)
    IN  {state \in ClientState : \/ Documented(state) /\ ~Accepted(state)
                                 \/ Accepted(state) /\ ~Tolerable(state)}
=============================================================================
