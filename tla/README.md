# Verification of the hangman server

The repository is a network game of hangman for two to four players: a server in C++
(`src/hangman_server`, one thread over `select`) and a client in Python with a Tk
window (`src/Client`). These modules specify the server and the client, TLC checks them
on small instances, and TLAPS proves their safety properties for instances of any size.

## The system

| part | state | operations | interacts with |
|---|---|---|---|
| start-up (`main.cpp`, `Server::start`) | the listening socket | check of the port, socket, option, bind, listen | the system; other processes of the server |
| server loop (`Server.cpp`) | set of polled descriptors, time of the last ping round | accept, read and handle, end of file, oversize message, `tempDisconnect`, `disconnet`, ping round | calls all others; is the only thread |
| message handler (`MessageHandler.cpp`) | none | LOGIN, JOIN, START, QUESS, PONG, anything else | reads the client's state, calls the two managers |
| client manager (`ClientManager.cpp`, `Client.cpp`) | list of clients, map of names, map of descriptors; per client: name, socket, connection, wrong messages, missed pings | `newConnection`, `logClient`, `shortDisconnectClient`, `disconnectClient` | shares the Client objects with the games |
| game manager (`GameManager.cpp`, `Game.cpp`) | three lists of games; per game: players, player on turn, word, letters; per client: state, game, life points | `joinGame`, `startGame`, `quess`, `announceWinner`, `nextClient`, `removeClient` | holds pointers to clients that the loop deletes |
| client thread (`CommunicationHandlerer.py`) | its own state, missed pings, queues to the window | connect, login, reconnect, handle a batch of lines | the server over TCP, the window over queues |
| client window (`main.py`) | screens | buttons, poll of the queue | the client thread |

What is hard here: every object is shared by plain pointers between three containers
and the games, and there is no owner; a game moves between lists in six places, mostly
chosen by its size alone; a lost player keeps its seat and may return on another
descriptor; the ping round stops at the first client it removes; a guess, a departure
and a ping round can each move the turn or end the round. `PROJECT.json` lists the
hazards by line, with the properties aimed at them.

What makes each part correct:

* start-up: a server serves on the endpoint it was asked for, alone, and can be started
  again at once; servers started together do not all give up;
* the loop: what `select` reported is still so when the loop comes to it; every input and
  every end of a connection is taken up at last;
* texts: every message of a documented format is accepted in its states, and nothing that
  is far from one; messages that TCP joins are not played in part;
* sessions: descriptors, names and client objects describe one another; only players
  with a seat are kept offline; the limits act in time; a name keeps its seat;
* games: seats and states agree, each game is in the list that fits, one player alive
  is on turn, the letters are counted once, a round keeps its terms and ends by the
  rules, and it does end;
* together: games hold only clients that exist; whoever is offline comes back or goes;
* the client: its state, players, letters and turn are those of the server once nothing
  is under way; no line of the server finds it in a wrong state; it notices a server
  that is gone.

## The modules

| module | models |
|---|---|
| `ClientState` | the enumeration of client states, and the two sets of them the code branches on |
| `Lists` | `std::find` and `std::list::remove` on lists without duplicates |
| `GameManager` | `GameManager`, `Game`, the game fields of `Client`, and what `Server::disconnet` does to a game; a specification of its own |
| `ClientManager` | `ClientManager`, the session fields of `Client`, and what a ping round does to one client; operators only |
| `Round` | one game as its players see it: who sits in it, whose turn it is, lives, hidden positions; an abstract specification without code |
| `Rounds` | the refinement mapping from a game of `GameManager` to `Round` |
| `Server` | the handlers and the ping round, over `ClientManager` and `GameManager` (`EXTENDS ClientManager`, `GM == INSTANCE GameManager`) |
| `ServerLoop` | the loop around them: `select`, the descriptors it reported, unread input, peers that write and close (`EXTENDS Server`) |
| `Messages` | `handle_message` on texts: splitting, kinds, formats, names, and the formats of the documentation; operators only |
| `MessageHandler` | clients that send texts, joined by TCP, and the handlers they lead to (`EXTENDS Server, Messages`) |
| `Startup` | `main` and `Server::start`, a step for each system call, for several processes on one host |
| `CommunicationHandlerer` | the client's thread as a record, its methods and the branches of `handleServer_Msg` as operators on it, `Game.py`, and which buttons the window offers |
| `Session` | one player's client and the server at the two ends of TCP connections: `GM == INSTANCE GameManager` for the games and the other players, `CH == INSTANCE CommunicationHandlerer` |
| `MC_*` | words, letters, texts, command lines, symmetry and views for TLC |
| `ListLemmas`, `GameManagerProofs`, `RoundsProofs`, `ServerProofs`, `ReadingProofs` (of `ServerLoop` and `MessageHandler`), `SessionProofs`, `AgreementProofs`, `StartupProofs` | proofs |

A handler of the server runs to its end before the next descriptor is looked at, so a
handler is one action, and a ping round is one action. Any order of handlers and ping
rounds is allowed: clients may send anything at any time, and `elapsed` depends on
nothing else. Elements of `Client` and `Game` stand for pointers; an object that does
not exist has the values of a fresh one and may be created again, as the allocator may
reuse an address. `client_list` and `players` are sequences, because the order of both
matters (the ping round stops early; the turn goes round). `not_started_games` is a
sequence, because JOIN takes its front; the two other lists are only searched and are
sets.

Correspondence of state: the names are those of the source. The session fields of
`Client` are the record `client[c]`; `client_socks` leaves out the server's own socket;
`quessed_chars[g][ch]` is `{}` for a letter that is not in the map; a map entry that
is absent or null is `NoClient` (`getClient` inserts a null on a miss, and both are
skipped alike). In `Server` a message is its kind and its argument; what is sent to the
clients does not change the state of the server and is left out there.

`spinning` is the program counter of the one loop that may not end: `Game::nextClient`
looks for a player with life points, and without one the thread never returns. The
actions that get there (`BadQuessSpins`, `LeaveSpins`) leave the state as it is in the
middle of the handler, and afterwards only `Spin` is possible. Invariants that such a
half-done handler breaks are stated for a server that is not spinning.

`std::next(end())`, which `nextClient` evaluates when the player on turn was just
removed, is undefined in C++; `Visited` models libstdc++, the library the build uses,
where the end node of the circular list leads to the front.

`WrongMsg` stands for every message that the handler counts as wrong, including one
longer than the buffer. Its effect does not depend on which rule was broken, and any
client can send one in any state, so it has no further guard.

### The loop

`Server` lets any handler run at any time. `ServerLoop` says which do: `Select` takes the
snapshot `tests` (and accepts, the server's own socket being the lowest), `Visit` is the body
of the loop for one descriptor of the snapshot, in any order, and `EndPass` ends the pass,
with a ping round (`EndWithPings`) if the period has passed. Its actions are those of `Server`
with what they do to the network: `input` is what waits to be read (`long`: more than
`BUFFER_SIZE`, which stays there until the limit of wrong messages is reached), `peer` whether
the other end is there. `Sent` are the lines of a step; a line to a peer that has closed is
answered by a reset, and a later one raises SIGPIPE (`killed`). That the reset may come
between two lines of one step is left out.

### Texts

A text is a sequence of pieces: a word (letters that nobody looks into), `|`, the end of
a line, or something else. `Tokens` is the loop over `std::getline`, with its one
peculiarity, that an empty last token is none. `Refusal` is the last number of the answer
`ERROR|k|n`. `Formats` are those of the documentation (`ups_doc.tex:84`, `102`, `111`, `127`),
written without splitting, so that the two are independent; `LooseFormats` adds what the code
takes too: an end of line behind the keyword or the argument, and a last separator.
`GrammarIsAccepted` puts `handle_message` between the two. In `MessageHandler` a step of a
client is a batch of up to `MaxMerge` messages read as one text; `heard` is a history variable
with the batch of the last step. The handler gets a C string: a message stands for what comes
before a NUL byte, and `EmptyText` is the text that begins with one, which has no tokens, so
that `tokens.at(0)` throws and the process ends (`terminated`).

### Start-up

Each system call of `Server::start` is a step, because processes interleave there. What
the calls answer is modelled from their use as Linux defines it (`Refused`, `Listen`):
sockets that both have SO_REUSEADDR can be bound to one endpoint as long as none
listens, and connections in TIME_WAIT are no obstacle then. A typed port is the number
that `std::stoi` reads from its beginning. A process may end at any time
while it serves (`End`), may leave connections in TIME_WAIT, and `Main` may start it again
with another command line.

### The client and its connections

`Session` has the steps of the server and of the client's thread as separate actions
that interleave. A connection is the record `conn[k]`: what is on its way in either
direction, whether the client's end is open, and whose object the server has for its
end (`holder`: none, a fresh one, the player's). `NoConnection` is a record that no
socket uses.

* Server: `Login`, `Join`, `Start`, `Quess`, `Pong` read one message (`PongFresh` the PONG of
  a client that could not send its LOGIN); `Merged` reads two
  or more as one wrong message, since the handler looks for no separator; `Eof`; and
  the ping round one object at a time, since it may end before it reaches the next one.
  Each sends the lines the handler sends, in the handler's order (`StartLines`,
  `QuessLines`, `EndLines`, `LeaveLines`, `BackLines`). The sessions of this module are
  the ones that concern the player; all of them together are in `Server`.
* Others: `OtherSteps` are the actions of `GameManager` for any other player, with the
  lines they send to the player; `OtherFlaps` is the update when another one gets
  offline or comes back, at any time. One who is removed may have been offline or not:
  if not, the update of `tempDisconnect` comes before the lines of `disconnet` (`GoingLines`).
* Thread: `Receive`, `ReceivePart` (the last line is cut: its rest becomes a line of no kind),
  `ReceiveNothing` (end of file is no error) and `ReceiveFails`;
  `HandleLine` for the next line of the batch; `Reconnect` for one round of the loop in
  `temp_disconnect_from_server`, which also runs in the midst of a batch when the answer
  to a PING fails; `CheckPing`; `Instruct` for an instruction of the window; `Press`.
  `Connects` and `FailsToConnect` are the two results of `establish_connection`; it fails
  also when only the `send()` of LOGIN does, with `connected` already set.

`clean` is a history variable: the connection was made by a thread that kept nothing of
an earlier one, and none of its lines was cut. A CONNECT that replaces a connection in use, or
a reconnect inside a batch, makes one that is not clean; the thread then takes old lines or
its old state for the new connection. A line that is cut is lost, and the client knows of
nothing. Agreement is stated for clean connections only.

Named bounds of `Session`: `InBound` (the player adds a message only where fewer wait),
`OutBound` (the server and the others send only where fewer lines wait for the client; one
step then sends up to four), one instruction in the queue, `MaxAttempts`;
`missed_pings` stops at 2, as the code asks only whether it is 1. `Failures` says whether
the network fails: `connect()` or the `send()` of LOGIN may fail and `recv()` may raise.
Without it the variable `data` of `_run`
is never read stale and is left out. `ThreadIsBusy` is a reduction: while the thread
works through a batch (PING apart) the others wait, as these steps touch nothing of theirs.

A thread that an exception has ended takes no step, and with nobody else there the system
stops: the two runs with `Failures` do not check deadlock.

Abstractions of `Session`: what a connection that has not logged in sends is read message by
message (`MessageHandler` joins LOGIN with others); the rest of a line that was cut is no
other line (it could be one only for a player named like a keyword); `accept()` follows the
client's `connect()` at once; the words of lines, labels and pop-ups are left out.

## The runs

| run | instance | shows |
|---|---|---|
| `games` | 4 clients, 2 games of at most 3 players, 2 life points, the word `aba` and a letter in no word; fair guesses | `TypeOK`, `SeatsMatchStates`, `ListsMatchGames`, `OneAliveOnTurn`, `FoundCharsCount`, `LobbyIsHealed`; the action properties `RoundKeepsItsTerms`, `TurnPassesNobodyAlive`, `RoundEndsByTheRules`; `GamesAreRounds`: `GameManager` implements `Round` for each game; `GuessedRoundsEnd` |
| `server` | 3 clients, names and descriptors, 2 games for 3, removal at the 3rd missed ping, kick at the 2nd wrong message | `SessionsTypeOK`, `SocketsAgree`, `NamesAgree`, `OfflineHasSeat`, `LimitsAreKept`, `PlayersAreConnected`; the action properties `NameKeepsItsSeat`, `WrongMsgsStayCounted`; the refinement `GamesSpec` |
| `loop` | 2 clients and descriptors, 1 name, one game for 2, kick at the 2nd wrong message, removal at the 2nd missed ping; a loop that goes on | `SnapshotIsCurrent`; `InputIsTaken`, `CloseIsNoticed`, `OfflineIsResolved` |
| `session_agree` | the player and two others, two connections, one game for 2, 2 life points, word `ab`; clean connections | `TypeOK`, `StatesAgree`, `PlayersAgree`, `RoundAgrees`; the action property `LinesAreExpected` |
| `session_reconnect` | the player alone, two connections, with `Failures`, fair client thread | `OneHolder`, `DeadLineIsNoticed` |
| `startup` | 2 processes, all kinds of command lines, ports -1, 0, 1, 65535, 65536; processes that go on | `TypeOK`, `OneServerPerEndpoint`, `ServesWhereAsked`; the action property `RestartIsPossible`; `BoundIsServed` |
| `texts` | 2 clients and descriptors, the 7 messages of a client, up to 2 read as one, and the text that is empty; all texts of up to 6 pieces out of 7 | `GrammarIsAccepted`; the action property `MergedPlayNothing` |
| `server_hang` | 3 clients, names and descriptors, 2 games for 3 | violation of `NeverHangs` |
| `loop_survives` | as `loop`, 2 names, kick at the first wrong message | violation of `ServerSurvives` |
| `texts_merged_name` | as `texts` | violation of `NameIsSent` |
| `session_lost_server` | the player alone, one connection, fair client thread | violation of `LostServerIsNoticed` |
| `session_thread` | the same with `Failures` | violation of `ThreadSurvives` |

The state spaces of `GameManager` and `Server` are finite without further bounds: the counters
are limited by the code itself (`wrong_msgs`, `missedPings`, `hp`, `found_chars`), the rest by
the constants.

Why the bounds are enough. Three players are the least with which the turn can skip a
dead player, a departure can leave a round going on, and a game can be full, start
below full, and become joinable again; `LOBBY_SIZE` is 3 in place of 4 for that
reason, and it is 2 where only the loop or the texts matter. Four clients fill one game and
open a second. The word `aba` has a letter that reveals two positions and a second letter that
completes it. Two names and two descriptors make a name be taken, a descriptor be
reused, and a client return on the descriptor of another; a third object is the one
that a reconnect deletes. A limit of 3 missed pings separates the first miss, one in
between, and the last. Symmetry is used for safety only.

Two processes are what it takes to compete for an endpoint. Six pieces hold
the longest accepted text with a name of one word (LOGIN and the name each with an end of line,
and a separator behind), names that are too long, and each keyword with too much or too
little behind it. Two messages
in a batch give every pair; a third changes nothing that a second does not, since the
text is already of a wrong format or kind, or a name. In `ServerLoop` two descriptors are
needed for a handler that runs while the snapshot still holds another one, and a limit of two
wrong messages for a text that is too long to stay in its socket and to be met again. The
view of `texts` leaves out `heard`, which records the last step and changes none.

For `Session` two other players are needed for one to take the place of the other between
two updates that the client reads, and two seats for the game to be full, change the turn, and
be won or left; a wrong guess is a letter already known; `MAX_WRONG_MSGS` is 1, so every merged
message ends the session, and the client comes back by itself or by CONNECT. (Sessions that go
on after a wrong message are in the theorems.) `OutBound` is 2: every answer and every update is
also sent behind a line that waits. With two connections logins are refused and old ends of
file come late. The view of `session_agree` merges states that differ in what is overwritten
before it is read (the word of a round that is over) or never told apart (`missed_pings` beyond
one). Its constraints stop at a connection that is not clean, where more than four lines
wait, which is what one step sends at most, or what a return or the end of a round sends behind
another line, and where b of the word is guessed before a, which is the same round with the
letters renamed. Its action constraint (`OthersLogInFirst`) lets another player without a
session log in before anything else, and keep the session while it has no game, which nobody
can tell from doing so later.
`session_reconnect` has none of these, and there `OutBound` is 1, as lines do nothing to a name
or to the check of the connection but be waited for.

Fairness. `GameManager!FairSpec` assumes that the players of a game go on
guessing, some letter each time; it is an assumption about people, and the property
says that the rules then lead to an end. It allows for `spinning`.
`Startup!FairSpec`: a process that is started goes on, as no call it makes waits; nobody
need start or end one. `ServerLoop!FairLoopSpec` has weak fairness of the loop, which waits
for nothing since `select` does not, and strong fairness of a ping round at the end of a
pass: passes end again and again, and the period passes again and again. Peers need not
do anything, and may come, write and go without end.
`Session!FairSpec` has weak fairness of the client's loop and of its check of the clock:
the loop waits for nothing but the queue, and that with a timeout. It has none for the
server, the player or the other players.

### Abstract and detailed

`GameManager!Spec` is what the games promise: it has no sockets, names, pings or
limits. `Server` is shown to implement it (`GamesSpec`): each handler and each ping
round, with all disconnects it includes, is one step of `GameManager` or leaves the
games alone. A reconnect in particular leaves them alone. What is proved of
`GameManager` thus applies to the server.

`Round` is one step more abstract: what a single game promises the people in it. A round
begins with at least two players, all with all lives; a right letter shows something and
leaves the turn; a wrong one costs one life and passes the turn to somebody who can play, or ends the round
with the last one who can; who leaves takes nothing along, and who is left alone has won;
nobody comes in meanwhile. `Rounds` maps the lists, the order of the players, their states
and the letters of `GameManager` to it (`R(g)`), and `GamesAreRounds` says that each step
of the server is for each game a step of `Round` or nothing. `Lose` is the endless loop of
`nextClient`: `Round` allows it only when a game has nobody left who can play, so the
refinement also shows that this is the only way into it.

### The violations

* `NeverHangs`. The documentation says that the applications do not hang
  (`ups_doc.tex:376`). A game of three in which one player is dead and the two others
  leave, or one leaves and the other loses its last life, sends the only thread into
  the endless loop of `Game::nextClient` (`Game.cpp:125`).
  The trace passes through a round that goes on with one player alive, although the last
  one alive wins (`ups_doc.tex:62`): that is checked after a wrong guess only, and a
  departure ends the round when one player is left, dead or alive (`Server.cpp:271`).
* `NameIsSent`. LOGIN carries the name (`ups_doc.tex:84`). `handle_message` takes all that
  was read for one message (`MessageHandler.cpp:24`), so LOGIN|bob with JOIN behind it is
  the name bobJOIN. `MergedPlayNothing` is what does hold.
* `ServerSurvives`. The applications do not crash (`ups_doc.tex:376`). A second line to a peer
  that has closed raises SIGPIPE (`Responder.cpp:11`); an update to everybody in a lobby and
  a PING are enough.
* `LostServerIsNoticed`. The documentation says that the client checks the server and
  reconnects (`ups_doc.tex:340`). The check acts when `missed_pings` is exactly 1, and
  giving up a connection does not reset it (`CommunicationHandlerer.py:259`). If the next
  connection is lost before a PING came, the count passes 1 and the client stays
  "connected" to nothing. `DeadLineIsNoticed` is what does hold.
* `ThreadSurvives`. The documentation says that the applications do not crash and react to
  the player (`ups_doc.tex:376`). After a `recv()` that raised, the loop goes on with `data`
  (`CommunicationHandlerer.py:213`): unbound, it ends the thread.

Other differences between the code and its documentation, read in the code and stated by no
run: an end of line behind the keyword or the argument and a separator at the end are
accepted, as in JOIN| or LOGIN|bob| (`MessageHandler.cpp:25`, `StringHandlerer.cpp:7`), though
the formats have neither (`LooseFormats`); a text that begins with a NUL byte ends the server
(`EmptyText`, `MessageHandler.cpp:34`), though the applications do not crash
(`ups_doc.tex:376`); a client without a seat is removed at the first missed ping
(`Server.cpp:196`), before the number that ACCEPT|1 announces; a text of no kind, PONG and
JOIN read as one for instance, gets no answer (`MessageHandler.cpp:185`), though each message
should (`ups_doc.tex:71`); a name is checked and shown without its end of line but stored with
it (`MessageHandler.cpp:51`), so it can be taken twice; `std::stoi` ignores what follows the
number of a port (`main.cpp:8`); and after a `recv()` that raised, a batch that `data` still
holds is handled once more on the disconnected client.

## The proofs

TLAPS proves, for every value of the constants that meets the assumptions below:

| module | theorem | statement |
|---|---|---|
| `GameManagerProofs` | `TypeCorrect` | `Spec => []TypeOK` |
| | `SeatsCorrect` | `Spec => []SeatsMatchStates` |
| | `ListsCorrect` | `Spec => []ListsMatchGames` |
| | `TurnCorrect` | `Spec => []OneAliveOnTurn` |
| | `HealedCorrect` | `Spec => []LobbyIsHealed` |
| | `TermsKept` | `Spec => RoundKeepsItsTerms` |
| `RoundsProofs` | `CountCorrect` | `Spec => []FoundCharsCount` |
| | `EndsByTheRules` | `Spec => RoundEndsByTheRules` |
| | `TurnPassesOnlyDead` | `Spec => TurnPassesNobodyAlive` |
| | `ServerKeepsRounds` | `Spec => GamesAreRounds` (each game implements `Round`) |
| `ServerProofs` | `ServerImplementsGames` | `Spec => GamesSpec` (`Server` implements `GameManager`) |
| | `SessionsTypeCorrect` | `Spec => []SessionsTypeOK` |
| | `SocketsAlwaysAgree` | `Spec => []SocketsAgree` |
| | `NamesAlwaysAgree` | `Spec => []NamesAgree` |
| | `OfflineKeepsSeat` | `Spec => []OfflineHasSeat` |
| | `LimitsAlwaysKept` | `Spec => []LimitsAreKept` |
| | `NoDeletedPlayer` | `Spec => []PlayersAreConnected` |
| | `NamesKeepSeats` | `Spec => NameKeepsItsSeat` |
| | `WrongMsgsCounted` | `Spec => WrongMsgsStayCounted` |
| `ReadingProofs` | `LoopImplementsServer` | `LoopSpec => Spec` (the loop implements `Server`) |
| | `SnapshotAlwaysCurrent` | `LoopSpec => []SnapshotIsCurrent` |
| | `TextsImplementServer` | `TextSpec => Spec` (texts do what `Server` allows) |
| | `GrammarAlwaysAccepted` | `TextSpec => []GrammarIsAccepted` |
| | `MergedNeverPlay` | `Message \subseteq ClientMessages` implies `TextSpec => MergedPlayNothing` |
| `SessionProofs` | `SessionTypeCorrect` | `Spec => []TypeOK` |
| | `OneHolderAlways` | `Spec => []OneHolder` |
| | `SessionUsesGames` | `Spec => GM!Spec` (`Session` implements `GameManager`) |
| `AgreementProofs` | `StatesAgreeAlways` | `Spec => []StatesAgree` |
| | `PlayersAgreeAlways` | `Spec => []PlayersAgree` |
| | `RoundAgreesAlways` | `Spec => []RoundAgrees` |
| | `LinesExpectedAlways` | `~Failures` implies `Spec => LinesAreExpected` |
| `StartupProofs` | `TypeCorrect` | `Spec => []TypeOK` |
| | `OneServerServes` | `Spec => []OneServerPerEndpoint` |
| | `ServesThere` | `Spec => []ServesWhereAsked` |
| | `CanBeStartedAgain` | `Spec => RestartIsPossible` |

`ListLemmas` has the facts about lists that all of them share. The refinements form a
chain: the loop, and the clients that send texts, implement the handlers in any order, those
implement the games, and each game implements `Round`; so what is proved of the games holds
for the whole server.

The assumptions on the constants are those the modules name, and TLC evaluates them in the
runs: the null values are no clients, games or descriptors; the word pool is a set of words
that are not empty; `STARTING_HP >= 1`, `LOBBY_SIZE >= 2`, at least one wrong message and at
least two missed pings before a removal (the code has larger numbers); `Me` is a client; the
keywords are words, words have letters and contain neither `|` nor the end of a line, and a
message is a text of at least one piece (a text without any, which begins with NUL, is the
action `EmptyText`). No set is assumed finite. `StartupProofs` assumes nothing.
`MergedNeverPlay` is about the client of this repository: its hypothesis says that messages
are keywords, LOGIN with a word and QUESS with a letter (`ClientMessages`, from `main.py`).
Without it the property is false, as another client may send JOIN and then a separator.

### Games

The inductive invariant `IInv` of `GameManagerProofs` is `TypeOK`, `SeatsMatchStates`,
`ListsMatchGames`, `TurnHolder` and `LobbyIsHealed`. None of them is inductive alone. That
life points do not drop below zero needs the player on turn to be alive; that the player on
turn is alive after START needs the lobby to be healed; that START takes its game out of the
right list needs the list to fit the number of players; that JOIN does not touch a
running round needs the front of `not_started_games` to be in the lobby. `TurnHolder`
is `OneAliveOnTurn` said of each player in a round in place of each started game, the
form in which a step uses it.

There is one lemma per action. What several of them share is stated once: who sits
with whom (`LobbyMates`, `RoundMates`, `StartedFacts`), what a step leaves alone
(`PlacedElsewhere`, `HeldElsewhere`), what remains after a departure
(`SeatsAfterLeaving`), and the end of a round (`RoundEnds`, used for a completed word,
for the last player alive and for the last one left). `NextClientIsAlive` is the
correctness of `Game::nextClient`: whenever someone in the list is alive, it returns a
player of the list that is; `NextAfterBadQuess` and `TurnAfterLeaving` say which one.

`TermsKept` is an action property: under `IInv` a JOIN or START never concerns a started
game, and a guess stores letters only where there were none.

`RoundsProofs` adds `FoundFits` for each started game, that is `FoundCharsCount`: a letter is
known by all its positions or by none, so a right guess shows positions that were not shown,
and the counter grows by their number. `ServerKeepsRounds` takes one handler after the other:
what happens to each game in it (`RoundEnters`, `RoundStutters`, and so on for each action of
`Round`), with the invariants of the games for what the mapping needs, such as that a
player belongs to one game and that `hp` is that of the seats.

### Sessions

The invariant of `ServerProofs` is the one of the games together with the six invariants of
the sessions and `UnusedIsFresh`: an object that is not in `client_list` is as its
constructor leaves it. `SocketsAgree` needs it when `newConnection` takes an object, and
`NamesAgree` needs `SocketsAgree`, since an online name is told from an offline one by its
socket. The invariant of the games is not proved again: each session step is a step of
`GameManager` (this is `ServerImplementsGames`), whose invariance is that of
`GameManagerProofs`. There, `GameManager` is instantiated once by the model (`GM`) and once with
its proofs (`P`); the lemmas `Same...` say that the two are the same. A ping round is proved
for any set of clients that it reaches, in any order of `client_list`. `NamesKept` is what
a step does to the clients that carry a name before and after it; the two action
properties follow from it.

In `ReadingProofs`, `LoopIInv` is that invariant, types, and `SnapshotIsCurrent`. The one
of `Server` is needed for `OwnSocketOnly`: the client of a descriptor has this descriptor as
its socket, so that a handler closes no other than its own.

### Start-up

`SockFits` says what a process has done by the time of its next system call, and `OneListens`
that an endpoint has one listening socket. Two sockets may be bound to one endpoint, so
`OneServerPerEndpoint` is not about `bind`; it is inductive with the two because `Listen`
looks at those that listen. `PortFits` has the arithmetic of the 16 bits.

### The client and its connections

The inductive invariant of `SessionProofs`, `SIInv`, is the invariant of the games, the
types of both ends, `Alone` (the name is on one connection) and `Linked`: an online player
has logged in and missed no ping; one who has logged in and has no seat is online; without a
seat there is no game. `Linked` is what the types of the counters rest on, as the server
counts missed pings of an offline player only and deletes it in time. Again there is a lemma
for each action; the actions of the server share `ServerKept`, those of the thread share
`GoesKept`, and the methods of the client have lemmas about the record they return.

### Client and server agree

`StatesAgree`, `PlayersAgree` and `RoundAgrees` speak of states in which nothing is under
way, and are far from inductive: what matters is what the lines that are under way will do.
`View` is what the client knows of its game; `After(x, l)` is what it knows after the line
`l`, and `Expects(x, l)` says that it does not count `l` as wrong. `Leads(x, ls, y)` says
that there is a run of views from `x` to `y`, one after each line of `ls`, each line
expected; the run is a function on `0..Len(ls)`, so no recursion is needed. The
invariant `Follows`: the lines the client holds and those on its connection lead it from what
it knows to a view that `Meets` what the server has now, while the connection is new
(`UNLOGGED`) or the player's (the state, and in a game the players, letters and turn).
`Opened` completes it; `SIInv` is used beside it.

The proof has two halves. On the server's side, each action of the games that concerns the
player's game sends lines that lead from what it had to what it has (`JoinTells`,
`QuessTells`, `LeaveTells`, `GoingTells`, `BackTells`, and so on, summed up by `Informed`), or
sends none and changes nothing that is shown. How many lines wait before them does not matter.
On the client's side, handling the first line is `After` wherever the line is expected
(`LobbyLinesFollowed`, `RoundLinesFollowed`), reading moves lines from the connection to the
client without changing their order, and a client that gives up its connection owes nothing to
it; a `ReceivePart` makes `clean` false. `Leads` composes (`LeadsOn`), and what remains after
its first line is a run again. At rest there is no line left, so the view is the client's own.
`Calm`, for `LinesAreExpected`, says that there is nothing the thread could handle a second
time. It needs `~Failures`, as in the run that checks the property: after a `recv()` that
raised, the loop handles again what `data` holds (`CommunicationHandlerer.py:213`). The three
invariants need no such hypothesis.

### Texts

The split of a message at `|` is a fold over a
sequence, and what a fold computes for every sequence needs induction. The induction is
done with sets (`ListLemmas`): a set that has 0, and with `n` also `n + 1`, has all numbers,
by the least one it would miss; likewise for lists (`Induction`, `ListInduction`). `FoldExists` gives
a fold the values it takes from one element to the next. `BrokenAt(sep, s)` is `s` broken at its
separators: one more element breaks it again or lengthens the last list (`BrokenAppend`), what
`s` is broken into makes `s` (`BrokenMakes`), and separators between lists without any
break the whole at these places (`BrokenLists`). `FlattenSteps` is for lists put together.

`GrammarAlwaysAccepted` has no step of the system in it, it is about every text.
`ReadAsSentence`: the tokens of a text name the keyword `k` and have its format exactly if the text
is in `LooseFormats` for `k`, which has the end of a line and the last separator as options. It
goes from the tokens to their text and back, by the number of tokens (`PlainTokens`,
`ArgumentTokens`), and from there to the formats (`PlainSentences`, `QuessSentences`,
`LoginSentences`). The formats of the documentation are those without the options, so what is in
them is accepted.

`TextsImplementServer` takes each branch of `handle_message` to the action it stands for;
`NameAssumption` gives it the name of a login. A text that begins with NUL changes nothing that
`Server` has, and no step follows it. For `MergedNeverPlay` the invariant of
`ServerProofs` is used through it. What is accepted for JOIN or START has nothing but an end of a line or
a separator behind its keyword, and one for QUESS has only those behind its letter
(`SecondOfPlain`, `FourthOfGuess`); in a text of two messages a keyword stands there
(`MergedText`). What remains is LOGIN, PONG and refusals, and the departures among them
(`LeavePlaysNothing`).

### Only model-checked

* Liveness (`GuessedRoundsEnd`, `InputIsTaken`, `CloseIsNoticed`, `OfflineIsResolved`,
  `DeadLineIsNoticed`, `BoundIsServed`): reasoning under fairness is out of the prover's
  reach.

## What is not modelled

* Bytes: the buffer of 2048 bytes, and a length that is exactly that of the buffer, where no NUL
  ends the text. `BUFFER_SIZE` only tells long input from a text.
* Messages to the server that TCP cuts: a part of a message is a text like any other, and
  in `Server` any client can send any.
* In `Session`, LOGIN joined with another message; what the two sides think of each other after
  a line that was cut.
* Failures of `select` and `accept`, exhausted memory and descriptors.
* `pingAllOnline` and `reconnectMsg`, which nothing calls.
* The choice of the word: any word of the pool.
* Of the Python client: start and stop of the thread, the checks of the format of lines
  and of typed text, layout, labels, pop-ups.

## Plan

1. `Session`: what the next update repairs after a line that was cut; more than one instruction
   waiting; two clients of one game side by side.
