---------------------------- MODULE AgreementProofs ----------------------------
(***************************************************************************)
(* Proofs that the client and the server agree (Session), for any number   *)
(* of other players, games and connections, any words and any bounds.      *)
(*                                                                         *)
(* What the client will think once it has handled all lines that are on    *)
(* their way is what the server thinks now.  So the invariant is about a   *)
(* run of the client through these lines.                                  *)
(***************************************************************************)
EXTENDS SessionProofs, SequenceTheorems

-----------------------------------------------------------------------------
(* What a line tells the client *)

\* What the client knows of its game.  Behind ERROR|1 comes no line any more ("GONE").
View ==
    [client_state : {"UNLOGGED", "LOGGED", "LOBBY", "GAME", "GONE"},
     clients : Seq(Client), number_of_clients : Nat, word_len : Nat, word : SUBSET Nat,
     quess_entry : BOOLEAN]

ViewOf(t) ==
    [client_state |-> t.client_state, clients |-> t.clients,
     number_of_clients |-> t.number_of_clients, word_len |-> t.word_len, word |-> t.word,
     quess_entry |-> t.quess_entry]

\* The line l is not counted as wrong.
Expects(x, l) ==
    /\ x.client_state # "GONE" /\ l.type # "REST"
    /\ l.type = "ACCEPT|1" => x.client_state = "UNLOGGED"
    /\ l.type = "ACCEPT|2" => x.client_state = "LOGGED"
    /\ l.type = "LOBBYUPDATE" =>
          x.client_state = "LOBBY" /\ ~CH!HasStranger(x, l) /\ Me \in Range(x.clients)
    /\ l.type = "STARTING" => x.client_state = "LOBBY" /\ l.turn \in Range(x.clients)
    /\ l.type = "CORRECTQUESS" => x.client_state = "GAME" /\ l.positions \subseteq 1..x.word_len
    /\ l.type = "BADQUESS" => x.client_state = "GAME" /\ {l.by, l.turn} \subseteq Range(x.clients)
    /\ l.type = "WINNER" => x.client_state = "GAME"
    /\ l.type = "GAMEUPDATE" =>
          x.client_state = "GAME" /\ ~CH!HasStranger(x, l) /\ Me \in Range(l.clients)

\* A new Game object, and an update of its players.
Fresh(x, state) ==
    [x EXCEPT !.client_state = state, !.clients = <<Me>>, !.number_of_clients = 0,
              !.word_len = 0, !.word = {}]
Listed(x, ps) == [x EXCEPT !.clients = ps, !.number_of_clients = Len(ps)]

\* What the client knows after it.
After(x, l) ==
    CASE l.type = "ACCEPT|1"     -> [x EXCEPT !.client_state = "LOGGED"]
      [] l.type = "ERROR|1"      -> [x EXCEPT !.client_state = "GONE"]
      [] l.type = "ACCEPT|2"     -> Fresh(x, "LOBBY")
      [] l.type = "LOBBYUPDATE"  -> Listed(x, l.clients)
      [] l.type = "STARTING"     -> [x EXCEPT !.client_state = "GAME", !.word_len = l.len,
                                              !.word = {}, !.quess_entry = (l.turn = Me)]
      [] l.type = "CORRECTQUESS" -> [x EXCEPT !.word = @ \cup l.positions]
      [] l.type = "BADQUESS"     -> [x EXCEPT !.quess_entry = (l.turn = Me)]
      [] l.type = "WINNER"       -> [x EXCEPT !.client_state = "LOBBY"]
      [] l.type = "GAMEUPDATE"   -> [Listed(x, l.clients) EXCEPT !.quess_entry = (l.turn = Me)]
      [] l.type = "RECONNECT"    -> Fresh(x, l.state)
      [] l.type = "QUESSED"      -> [x EXCEPT !.word_len = l.len, !.word = l.positions]
      [] l.type \in {"ERROR", "PING", "REST"} -> x

\* f is what the client knows before the lines ls, after the first of them, and so
\* on, and it expects each.
Run(f, ls) ==
    /\ f \in [0..Len(ls) -> View]
    /\ \A i \in 1..Len(ls) : Expects(f[i - 1], ls[i]) /\ f[i] = After(f[i - 1], ls[i])

\* The lines ls lead the client from x to y.
Leads(x, ls, y) == \E f : Run(f, ls) /\ f[0] = x /\ f[Len(ls)] = y

\* What a line leaves is a view.
LEMMA AfterType ==
    ASSUME NEW x \in View, NEW l \in ServerLine
    PROVE  After(x, l) \in View
<1>1. <<Me>> \in Seq(Client) /\ 0 \in Nat /\ {} \in SUBSET Nat
  BY MeAssumption, ShortLists
<1>2. PICK turn \in BOOLEAN : turn = (l.turn = Me)
  OBVIOUS
<1>3. ASSUME NEW state \in {"LOBBY", "GAME"} PROVE Fresh(x, state) \in View
  BY <1>1 DEF Fresh, View
<1>4. ASSUME NEW ps \in Seq(Client) PROVE Listed(x, ps) \in View
  <2>1. Len(ps) \in Nat
    BY SeqFacts
  <2>. QED
    BY <2>1 DEF Listed, View
<1>5. ASSUME NEW u \in View PROVE [u EXCEPT !.quess_entry = turn] \in View
  BY DEF View
<1>6. CASE l.type \in {"ACCEPT|1", "ERROR|1", "WINNER", "ERROR", "PING", "REST"}
  BY <1>6 DEF After, View
<1>7. CASE l.type = "ACCEPT|2"
  BY <1>3, <1>7 DEF After
<1>8. CASE l.type = "LOBBYUPDATE"
  BY <1>4, <1>8, LineFields DEF After
<1>9. CASE l.type = "STARTING"
  <2>1. After(x, l) = [x EXCEPT !.client_state = "GAME", !.word_len = l.len,
                                !.word = {}, !.quess_entry = turn]
    BY <1>2, <1>9 DEF After
  <2>. QED
    BY <1>1, <1>9, <2>1, LineFields DEF View
<1>10. CASE l.type = "CORRECTQUESS"
  <2>1. l.positions \subseteq Nat
    BY <1>10, LineFields
  <2>. QED
    BY <1>10, <2>1 DEF After, View
<1>11. CASE l.type = "BADQUESS"
  BY <1>2, <1>5, <1>11 DEF After
<1>12. CASE l.type = "GAMEUPDATE"
  BY <1>2, <1>4, <1>5, <1>12, LineFields DEF After
<1>13. CASE l.type = "RECONNECT"
  BY <1>3, <1>13, LineFields DEF After
<1>14. CASE l.type = "QUESSED"
  <2>1. l.len \in Nat /\ l.positions \in SUBSET Nat
    BY <1>14, LineFields
  <2>. QED
    BY <1>14, <2>1 DEF After, View
<1>. QED
  BY <1>6, <1>7, <1>8, <1>9, <1>10, <1>11, <1>12, <1>13, <1>14, LineFields

\* No line changes nothing.
LEMMA LeadsNowhere ==
    ASSUME NEW x \in View
    PROVE  Leads(x, <<>>, x)
<1>1. PICK f : f = [i \in 0..0 |-> x]
  OBVIOUS
<1>2. Len(<<>>) = 0
  OBVIOUS
<1>3. Run(f, <<>>) /\ f[0] = x
  BY <1>1, <1>2 DEF Run
<1>. QED
  BY <1>2, <1>3 DEF Leads

\* And nothing else.
LEMMA NowhereElse ==
    ASSUME NEW x, NEW y, Leads(x, <<>>, y)
    PROVE  x = y
BY DEF Leads

\* One line.
LEMMA LeadsOne ==
    ASSUME NEW x \in View, NEW l \in ServerLine, Expects(x, l)
    PROVE  Leads(x, <<l>>, After(x, l))
<1>1. After(x, l) \in View
  BY AfterType
<1>2. PICK f : f = [i \in 0..1 |-> IF i = 0 THEN x ELSE After(x, l)]
  OBVIOUS
<1>3. Len(<<l>>) = 1 /\ <<l>>[1] = l
  OBVIOUS
<1>4. f[0] = x /\ f[1] = After(x, l) /\ f \in [0..1 -> View]
  BY <1>1, <1>2
<1>5. Run(f, <<l>>)
  <2>1. \A i \in 1..1 : i = 1 /\ i - 1 = 0
    OBVIOUS
  <2>. QED
    BY <1>3, <1>4, <2>1 DEF Run
<1>. QED
  BY <1>3, <1>4, <1>5 DEF Leads

\* Lines after lines.
LEMMA LeadsOn ==
    ASSUME NEW s \in Seq(ServerLine), NEW r \in Seq(ServerLine),
           NEW x, NEW y, NEW z, Leads(x, s, y), Leads(y, r, z)
    PROVE  Leads(x, s \o r, z)
<1>1. PICK m \in Nat, n \in Nat : m = Len(s) /\ n = Len(r)
  BY SeqFacts
<1>2. PICK f : Run(f, s) /\ f[0] = x /\ f[m] = y
  BY <1>1 DEF Leads
<1>3. PICK g : Run(g, r) /\ g[0] = y /\ g[n] = z
  BY <1>1 DEF Leads
<1>4. /\ Len(s \o r) = m + n
      /\ \A i \in 1..(m + n) : (s \o r)[i] = IF i <= m THEN s[i] ELSE r[i - m]
  BY <1>1, ConcatProperties
<1>5. /\ f \in [0..m -> View] /\ g \in [0..n -> View]
      /\ \A i \in 1..m : Expects(f[i - 1], s[i]) /\ f[i] = After(f[i - 1], s[i])
      /\ \A i \in 1..n : Expects(g[i - 1], r[i]) /\ g[i] = After(g[i - 1], r[i])
  BY <1>1, <1>2, <1>3 DEF Run
<1>6. PICK h : h = [i \in 0..(m + n) |-> IF i <= m THEN f[i] ELSE g[i - m]]
  OBVIOUS
<1>7. h \in [0..(m + n) -> View]
  BY <1>5, <1>6
<1>8. /\ \A i \in 0..m : h[i] = f[i]
      /\ \A i \in 0..n : h[m + i] = g[i]
  <2>1. ASSUME NEW i \in 0..m PROVE h[i] = f[i]
    BY <1>6
  <2>2. ASSUME NEW i \in 0..n PROVE h[m + i] = g[i]
    <3>1. CASE i = 0
      BY <1>2, <1>3, <1>6, <3>1
    <3>2. CASE i # 0
      <4>1. m + i \in 0..(m + n) /\ ~(m + i <= m) /\ (m + i) - m = i
        BY <3>2
      <4>. QED
        BY <1>6, <4>1
    <3>. QED
      BY <3>1, <3>2
  <2>. QED
    BY <2>1, <2>2
<1>9. ASSUME NEW i \in 1..(m + n)
      PROVE  Expects(h[i - 1], (s \o r)[i]) /\ h[i] = After(h[i - 1], (s \o r)[i])
  <2>1. CASE i <= m
    <3>1. i \in 1..m /\ i \in 0..m /\ i - 1 \in 0..m
      BY <2>1
    <3>. QED
      BY <1>4, <1>5, <1>8, <2>1, <3>1
  <2>2. CASE ~(i <= m)
    <3>1. PICK j \in 1..n : j = i - m
      BY <2>2
    <3>2. i = m + j /\ i - 1 = m + (j - 1) /\ j \in 0..n /\ j - 1 \in 0..n
      BY <3>1
    <3>3. h[i] = g[j] /\ h[i - 1] = g[j - 1]
      BY <1>8, <3>2
    <3>4. (s \o r)[i] = r[j]
      BY <1>4, <2>2, <3>1
    <3>. QED
      BY <1>5, <3>3, <3>4
  <2>. QED
    BY <2>1, <2>2
<1>10. Run(h, s \o r)
  BY <1>4, <1>7, <1>9 DEF Run
<1>11. h[0] = x /\ h[m + n] = z
  BY <1>2, <1>3, <1>8
<1>. QED
  BY <1>4, <1>10, <1>11 DEF Leads

\* The first line.
LEMMA LeadsFirst ==
    ASSUME NEW s \in Seq(ServerLine), s # <<>>, NEW x, NEW y, Leads(x, s, y)
    PROVE  x \in View /\ Expects(x, Head(s)) /\ Leads(After(x, Head(s)), Tail(s), y)
<1>1. PICK n \in Nat : n + 1 = Len(s)
  <2>1. Len(s) \in Nat /\ Len(s) # 0
    BY SeqFacts, EmptyList
  <2>2. \A m \in Nat : m # 0 => m - 1 \in Nat /\ (m - 1) + 1 = m
    OBVIOUS
  <2>. QED
    BY <2>1, <2>2
<1>2. PICK f : Run(f, s) /\ f[0] = x /\ f[n + 1] = y
  BY <1>1 DEF Leads
<1>3. /\ Head(s) = s[1] /\ Tail(s) \in Seq(ServerLine) /\ Len(Tail(s)) = n
      /\ \A i \in 1..n : Tail(s)[i] = s[i + 1]
  BY <1>1, HeadTailProperties
<1>4. /\ f \in [0..(n + 1) -> View]
      /\ \A i \in 1..(n + 1) : Expects(f[i - 1], s[i]) /\ f[i] = After(f[i - 1], s[i])
  BY <1>1, <1>2 DEF Run
<1>5. x \in View /\ Expects(x, Head(s)) /\ f[1] = After(x, Head(s))
  <2>1. 1 \in 1..(n + 1) /\ 0 \in 0..(n + 1) /\ 1 - 1 = 0
    OBVIOUS
  <2>. QED
    BY <1>2, <1>3, <1>4, <2>1
<1>6. PICK g : g = [i \in 0..n |-> f[i + 1]]
  OBVIOUS
<1>7. g \in [0..n -> View]
  BY <1>4, <1>6
<1>8. ASSUME NEW i \in 1..n
      PROVE  Expects(g[i - 1], Tail(s)[i]) /\ g[i] = After(g[i - 1], Tail(s)[i])
  <2>1. /\ i \in 0..n /\ i - 1 \in 0..n /\ i + 1 \in 1..(n + 1)
        /\ (i - 1) + 1 = i /\ (i + 1) - 1 = i
    OBVIOUS
  <2>2. g[i] = f[i + 1] /\ g[i - 1] = f[i]
    BY <1>6, <2>1
  <2>. QED
    BY <1>3, <1>4, <2>1, <2>2
<1>9. g[0] = f[1] /\ g[n] = y
  <2>1. 0 \in 0..n /\ n \in 0..n /\ 0 + 1 = 1
    OBVIOUS
  <2>. QED
    BY <1>2, <1>6, <2>1
<1>10. Run(g, Tail(s))
  BY <1>3, <1>7, <1>8 DEF Run
<1>. QED
  BY <1>3, <1>5, <1>9, <1>10 DEF Leads

-----------------------------------------------------------------------------
(* What the client does with a line that it expects *)

\* But for what it knows of its game, the thread u is the thread t.
OtherwiseSame(t, u) ==
    /\ u.client_socket = t.client_socket /\ u.lines = t.lines /\ u.alive = t.alive
    /\ u.number_of_wrong_msg = t.number_of_wrong_msg /\ u.attempts = t.attempts
    /\ u.received = t.received

\* What the thread knows is a view.
LEMMA ViewType ==
    ASSUME NEW t \in ThreadRecord
    PROVE  ViewOf(t) \in View
BY DEF ViewOf, View, ThreadRecord

\* A new Game object.
LEMMA NewGameFollowed ==
    ASSUME NEW t \in ThreadRecord, NEW state, NEW scene, NEW u,
           u = [CH!NewGame(t) EXCEPT !.client_state = state, !.scene = scene]
    PROVE  ViewOf(u) = Fresh(ViewOf(t), state) /\ OtherwiseSame(t, u)
<1>1. PICK n : n = CH!NewGame(t)
  OBVIOUS
<1>2. n = [t EXCEPT !.clients = <<Me>>, !.number_of_clients = 0, !.word_len = 0, !.word = {}]
  BY <1>1 DEF CH!NewGame
<1>3. u = [n EXCEPT !.client_state = state, !.scene = scene]
  BY <1>1
<1>4. /\ u.client_state = state /\ u.clients = <<Me>> /\ u.number_of_clients = 0
      /\ u.word_len = 0 /\ u.word = {} /\ u.quess_entry = t.quess_entry
  BY <1>2, <1>3 DEF ThreadRecord
<1>5. OtherwiseSame(t, u)
  BY <1>2, <1>3 DEF OtherwiseSame, ThreadRecord
<1>6. Fresh(ViewOf(t), state) =
        [client_state |-> state, clients |-> <<Me>>, number_of_clients |-> 0,
         word_len |-> 0, word |-> {}, quess_entry |-> t.quess_entry]
  <2>1. PICK me : me = <<Me>>
    OBVIOUS
  <2>2. Fresh(ViewOf(t), state) =
          [ViewOf(t) EXCEPT !.client_state = state, !.clients = me,
                            !.number_of_clients = 0, !.word_len = 0, !.word = {}]
    BY <2>1 DEF Fresh
  <2>. QED
    BY <2>1, <2>2 DEF ViewOf
<1>7. ViewOf(u) = Fresh(ViewOf(t), state)
  BY <1>4, <1>6 DEF ViewOf
<1>. QED
  BY <1>5, <1>7

\* The lines of the way into a game and of the lobby.
LEMMA LobbyLinesFollowed ==
    ASSUME NEW t \in ThreadRecord, NEW l \in ServerLine, Expects(ViewOf(t), l),
           l.type \in {"ACCEPT|1", "ACCEPT|2", "LOBBYUPDATE", "STARTING", "RECONNECT"}
    PROVE  /\ ViewOf(CH!Handled(t, l)) = After(ViewOf(t), l)
           /\ OtherwiseSame(t, CH!Handled(t, l))
<1>1. CASE l.type = "ACCEPT|1"
  <2>1. CH!Handled(t, l) = [t EXCEPT !.client_state = "LOGGED", !.scene = "join_frame"]
    BY <1>1 DEF CH!Handled, CH!OnAccept1, Expects, ViewOf
  <2>2. After(ViewOf(t), l) = [ViewOf(t) EXCEPT !.client_state = "LOGGED"]
    BY <1>1 DEF After
  <2>. QED
    BY <2>1, <2>2 DEF ViewOf, OtherwiseSame, ThreadRecord
<1>2. CASE l.type = "ACCEPT|2"
  <2>1. CH!Handled(t, l) =
          [CH!NewGame(t) EXCEPT !.client_state = "LOBBY", !.scene = "lobby_frame"]
    BY <1>2 DEF CH!Handled, CH!OnAccept2, Expects, ViewOf
  <2>2. After(ViewOf(t), l) = Fresh(ViewOf(t), "LOBBY")
    BY <1>2 DEF After
  <2>3. PICK u : u = CH!Handled(t, l)
    OBVIOUS
  <2>4. ViewOf(u) = Fresh(ViewOf(t), "LOBBY") /\ OtherwiseSame(t, u)
    BY <2>1, <2>3, NewGameFollowed
  <2>. QED
    BY <2>2, <2>3, <2>4
<1>3. CASE l.type = "LOBBYUPDATE"
  <2>1. PICK b : b = (Len(l.clients) >= 2)
    OBVIOUS
  <2>2. /\ t.client_state = "LOBBY" /\ ~CH!HasStranger(t, l)
        /\ Me \in Range(t.clients)
    BY <1>3 DEF Expects, ViewOf, CH!HasStranger
  <2>3. CH!Range(t.clients) = Range(t.clients)
    BY DEF CH!Range, Range
  <2>4. CH!OnLobbyUpdate(t, l) = [CH!Updated(t, l) EXCEPT !.start_button = b]
    BY <2>1, <2>2, <2>3 DEF CH!OnLobbyUpdate
  <2>5. CH!Handled(t, l) = [CH!Updated(t, l) EXCEPT !.start_button = b]
    BY <1>3, <2>4 DEF CH!Handled
  <2>6. After(ViewOf(t), l) = Listed(ViewOf(t), l.clients)
    BY <1>3 DEF After
  <2>7. PICK ps : ps = l.clients
    OBVIOUS
  <2>8. PICK u : u = [[t EXCEPT !.clients = ps, !.number_of_clients = Len(ps)]
                         EXCEPT !.start_button = b]
    OBVIOUS
  <2>9. /\ u.client_state = t.client_state /\ u.clients = ps
        /\ u.number_of_clients = Len(ps) /\ u.word_len = t.word_len /\ u.word = t.word
        /\ u.quess_entry = t.quess_entry
    BY <2>8 DEF ThreadRecord
  <2>10. OtherwiseSame(t, u)
    BY <2>8 DEF OtherwiseSame, ThreadRecord
  <2>11. ViewOf(u) = Listed(ViewOf(t), ps)
    <3>1. PICK x : x = Listed(ViewOf(t), ps)
      OBVIOUS
    <3>2. x =
            [client_state |-> t.client_state, clients |-> ps, number_of_clients |-> Len(ps),
             word_len |-> t.word_len, word |-> t.word, quess_entry |-> t.quess_entry]
      BY <3>1 DEF ViewOf, Listed
    <3>. QED
      BY <2>9, <3>1, <3>2 DEF ViewOf
  <2>12. u = CH!Handled(t, l)
    BY <2>5, <2>7, <2>8 DEF CH!Updated
  <2>. QED
    BY <2>6, <2>7, <2>10, <2>11, <2>12
<1>4. CASE l.type = "STARTING"
  <2>1. PICK b : b = (l.turn = Me)
    OBVIOUS
  <2>2. t.client_state = "LOBBY" /\ l.turn \in CH!Range(t.clients)
    BY <1>4 DEF Expects, ViewOf, CH!Range, Range
  <2>3. CH!Handled(t, l) =
          [t EXCEPT !.client_state = "GAME", !.scene = "game_frame",
                    !.word_len = l.len, !.word = {}, !.quess_entry = b]
    BY <1>4, <2>1, <2>2 DEF CH!Handled, CH!OnStarting
  <2>4. After(ViewOf(t), l) =
          [ViewOf(t) EXCEPT !.client_state = "GAME", !.word_len = l.len,
                            !.word = {}, !.quess_entry = b]
    BY <1>4, <2>1 DEF After
  <2>5. PICK n : n = l.len
    OBVIOUS
  <2>6. PICK u : u = [t EXCEPT !.client_state = "GAME", !.scene = "game_frame",
                               !.word_len = n, !.word = {}, !.quess_entry = b]
    OBVIOUS
  <2>7. /\ u.client_state = "GAME" /\ u.clients = t.clients
        /\ u.number_of_clients = t.number_of_clients /\ u.word_len = n /\ u.word = {}
        /\ u.quess_entry = b
    BY <2>6 DEF ThreadRecord
  <2>8. OtherwiseSame(t, u)
    BY <2>6 DEF OtherwiseSame, ThreadRecord
  <2>9. After(ViewOf(t), l) =
          [client_state |-> "GAME", clients |-> t.clients,
           number_of_clients |-> t.number_of_clients, word_len |-> n, word |-> {},
           quess_entry |-> b]
    BY <2>4, <2>5 DEF ViewOf
  <2>10. ViewOf(u) = After(ViewOf(t), l)
    BY <2>7, <2>9 DEF ViewOf
  <2>. QED
    BY <2>3, <2>5, <2>6, <2>8, <2>10
<1>5. CASE l.type = "RECONNECT"
  <2>1. PICK s : s = IF l.state = "GAME" THEN "game_frame" ELSE "lobby_frame"
    OBVIOUS
  <2>2. CH!Handled(t, l) =
          [CH!NewGame(t) EXCEPT !.client_state = l.state, !.scene = s]
    BY <1>5, <2>1 DEF CH!Handled, CH!OnReconnect
  <2>3. After(ViewOf(t), l) = Fresh(ViewOf(t), l.state)
    BY <1>5 DEF After
  <2>4. PICK u, state : u = CH!Handled(t, l) /\ state = l.state
    OBVIOUS
  <2>5. u = [CH!NewGame(t) EXCEPT !.client_state = state, !.scene = s]
    BY <2>2, <2>4
  <2>6. ViewOf(u) = Fresh(ViewOf(t), state) /\ OtherwiseSame(t, u)
    BY <2>5, NewGameFollowed
  <2>. QED
    BY <2>3, <2>4, <2>6
<1>. QED
  BY <1>1, <1>2, <1>3, <1>4, <1>5

\* The lines of a round.
LEMMA RoundLinesFollowed ==
    ASSUME NEW t \in ThreadRecord, NEW l \in ServerLine, Expects(ViewOf(t), l),
           l.type \in {"CORRECTQUESS", "BADQUESS", "WINNER", "GAMEUPDATE", "QUESSED", "ERROR"}
    PROVE  /\ ViewOf(CH!Handled(t, l)) = After(ViewOf(t), l)
           /\ OtherwiseSame(t, CH!Handled(t, l))
<1>1. CASE l.type = "CORRECTQUESS"
  <2>1. PICK w : w = t.word \cup l.positions
    OBVIOUS
  <2>2. CH!Handled(t, l) = [t EXCEPT !.word = w]
    BY <1>1, <2>1 DEF CH!Handled, CH!OnCorrectQuess, Expects, ViewOf, ThreadRecord
  <2>3. After(ViewOf(t), l) = [ViewOf(t) EXCEPT !.word = w]
    BY <1>1, <2>1 DEF After, ViewOf
  <2>. QED
    BY <2>2, <2>3 DEF ViewOf, OtherwiseSame, ThreadRecord
<1>2. CASE l.type = "BADQUESS"
  <2>1. PICK b : b = (l.turn = Me)
    OBVIOUS
  <2>2. t.client_state = "GAME" /\ {l.by, l.turn} \subseteq CH!Range(t.clients)
    BY <1>2 DEF Expects, ViewOf, CH!Range, Range
  <2>3. CH!Handled(t, l) = [t EXCEPT !.quess_entry = b]
    BY <1>2, <2>1, <2>2 DEF CH!Handled, CH!OnBadQuess
  <2>4. After(ViewOf(t), l) = [ViewOf(t) EXCEPT !.quess_entry = b]
    BY <1>2, <2>1 DEF After
  <2>. QED
    BY <2>3, <2>4 DEF ViewOf, OtherwiseSame, ThreadRecord
<1>3. CASE l.type = "WINNER"
  <2>1. CH!Handled(t, l) = [t EXCEPT !.client_state = "LOBBY", !.scene = "lobby_frame"]
    BY <1>3 DEF CH!Handled, CH!OnWinner, Expects, ViewOf
  <2>2. After(ViewOf(t), l) = [ViewOf(t) EXCEPT !.client_state = "LOBBY"]
    BY <1>3 DEF After
  <2>. QED
    BY <2>1, <2>2 DEF ViewOf, OtherwiseSame, ThreadRecord
<1>4. CASE l.type = "GAMEUPDATE"
  <2>1. PICK b : b = (l.turn = Me)
    OBVIOUS
  <2>2. /\ t.client_state = "GAME" /\ ~CH!HasStranger(t, l)
        /\ Me \in Range(l.clients)
    BY <1>4 DEF Expects, ViewOf, CH!HasStranger
  <2>3. CH!Range(l.clients) = Range(l.clients)
    BY DEF CH!Range, Range
  <2>4. CH!OnGameUpdate(t, l) = [CH!Updated(t, l) EXCEPT !.quess_entry = b]
    BY <2>1, <2>2, <2>3 DEF CH!OnGameUpdate
  <2>5. CH!Handled(t, l) = [CH!Updated(t, l) EXCEPT !.quess_entry = b]
    BY <1>4, <2>4 DEF CH!Handled
  <2>6. After(ViewOf(t), l) = [Listed(ViewOf(t), l.clients) EXCEPT !.quess_entry = b]
    BY <1>4, <2>1 DEF After
  <2>7. PICK ps : ps = l.clients
    OBVIOUS
  <2>8. PICK u : u = [[t EXCEPT !.clients = ps, !.number_of_clients = Len(ps)]
                         EXCEPT !.quess_entry = b]
    OBVIOUS
  <2>9. /\ u.client_state = t.client_state /\ u.clients = ps
        /\ u.number_of_clients = Len(ps) /\ u.word_len = t.word_len /\ u.word = t.word
        /\ u.quess_entry = b
    BY <2>8 DEF ThreadRecord
  <2>10. OtherwiseSame(t, u)
    BY <2>8 DEF OtherwiseSame, ThreadRecord
  <2>11. ViewOf(u) = [Listed(ViewOf(t), ps) EXCEPT !.quess_entry = b]
    <3>1. PICK x : x = [Listed(ViewOf(t), ps) EXCEPT !.quess_entry = b]
      OBVIOUS
    <3>2. x =
            [client_state |-> t.client_state, clients |-> ps, number_of_clients |-> Len(ps),
             word_len |-> t.word_len, word |-> t.word, quess_entry |-> b]
      BY <3>1 DEF ViewOf, Listed
    <3>. QED
      BY <2>9, <3>1, <3>2 DEF ViewOf
  <2>12. u = CH!Handled(t, l)
    BY <2>5, <2>7, <2>8 DEF CH!Updated
  <2>. QED
    BY <2>6, <2>7, <2>10, <2>11, <2>12
<1>5. CASE l.type = "QUESSED"
  <2>1. CH!Handled(t, l) = [t EXCEPT !.word_len = l.len, !.word = l.positions]
    BY <1>5 DEF CH!Handled, CH!OnQuessed
  <2>2. After(ViewOf(t), l) = [ViewOf(t) EXCEPT !.word_len = l.len, !.word = l.positions]
    BY <1>5 DEF After
  <2>3. PICK n, w : n = l.len /\ w = l.positions
    OBVIOUS
  <2>4. PICK u : u = [t EXCEPT !.word_len = n, !.word = w]
    OBVIOUS
  <2>5. /\ u.client_state = t.client_state /\ u.clients = t.clients
        /\ u.number_of_clients = t.number_of_clients /\ u.word_len = n /\ u.word = w
        /\ u.quess_entry = t.quess_entry
    BY <2>4 DEF ThreadRecord
  <2>6. OtherwiseSame(t, u)
    BY <2>4 DEF OtherwiseSame, ThreadRecord
  <2>7. ViewOf(u) = [ViewOf(t) EXCEPT !.word_len = n, !.word = w]
    <3>1. PICK x : x = [ViewOf(t) EXCEPT !.word_len = n, !.word = w]
      OBVIOUS
    <3>2. x =
            [client_state |-> t.client_state, clients |-> t.clients,
             number_of_clients |-> t.number_of_clients, word_len |-> n, word |-> w,
             quess_entry |-> t.quess_entry]
      BY <3>1 DEF ViewOf
    <3>. QED
      BY <2>5, <3>1, <3>2 DEF ViewOf
  <2>. QED
    BY <2>1, <2>2, <2>3, <2>4, <2>6, <2>7
<1>6. CASE l.type = "ERROR"
  BY <1>6 DEF CH!Handled, After, OtherwiseSame
<1>. QED
  BY <1>1, <1>2, <1>3, <1>4, <1>5, <1>6

\* A line that the client expects makes of it what After says, and no wrong message
\* is counted; behind ERROR|1, which ends the connection, it expects none.
LEMMA LinesFollowed ==
    ASSUME NEW t \in ThreadRecord, NEW l \in ServerLine, Expects(ViewOf(t), l),
           l.type \notin {"PING", "ERROR|1"}
    PROVE  /\ ViewOf(CH!Handled(t, l)) = After(ViewOf(t), l)
           /\ OtherwiseSame(t, CH!Handled(t, l))
<1>1. l.type # "REST"
  BY DEF Expects
<1>. QED
  BY <1>1, LobbyLinesFollowed, RoundLinesFollowed, LineFields

-----------------------------------------------------------------------------
(* What the lines of the server do with what the client knows *)

\* In the state s the client has the players ps before it ...
Sees(x, s, ps) == x.client_state = s /\ x.clients = ps /\ x.number_of_clients = Len(ps)

\* ... and of the round the letters w of a word of length n, and whether it is on turn.
SeesRound(x, n, w, turn) == x.word_len = n /\ x.word = w /\ (x.quess_entry <=> turn = Me)

\* Lines are lists, and lists of two or three lines are put together of shorter ones.
LEMMA LinesTogether ==
    ASSUME NEW a \in ServerLine, NEW b \in ServerLine
    PROVE  /\ <<a>> \in Seq(ServerLine) /\ <<a, b>> \in Seq(ServerLine)
           /\ <<a>> \o <<b>> = <<a, b>>
           /\ \A c \in ServerLine : <<a, b>> \o <<c>> = <<a, b, c>>
<1>1. <<a>> \o <<b>> = <<a, b>>
  <2>1. /\ <<a>> \in Seq(ServerLine) /\ Len(<<a>>) = 1 /\ <<a>>[1] = a
        /\ <<b>> \in Seq(ServerLine) /\ Len(<<b>>) = 1 /\ <<b>>[1] = b
        /\ <<a, b>> \in Seq(ServerLine) /\ Len(<<a, b>>) = 2
        /\ <<a, b>>[1] = a /\ <<a, b>>[2] = b
    BY ShortLists
  <2>2. PICK s \in Seq(ServerLine) : s = <<a>> \o <<b>>
    BY <2>1, ConcatProperties
  <2>3. Len(s) = 2 /\ s[1] = a /\ s[2] = b
    BY <2>1, <2>2, ConcatProperties
  <2>4. \A i \in 1..2 : i = 1 \/ i = 2
    OBVIOUS
  <2>. QED
    BY <2>1, <2>2, <2>3, <2>4, SeqEqual
<1>2. ASSUME NEW c \in ServerLine PROVE <<a, b>> \o <<c>> = <<a, b, c>>
  <2>1. /\ <<a, b>> \in Seq(ServerLine) /\ Len(<<a, b>>) = 2
        /\ <<a, b>>[1] = a /\ <<a, b>>[2] = b
        /\ <<c>> \in Seq(ServerLine) /\ Len(<<c>>) = 1 /\ <<c>>[1] = c
        /\ <<a, b, c>> \in Seq(ServerLine) /\ Len(<<a, b, c>>) = 3
        /\ <<a, b, c>>[1] = a /\ <<a, b, c>>[2] = b /\ <<a, b, c>>[3] = c
    BY ShortLists
  <2>2. PICK s \in Seq(ServerLine) : s = <<a, b>> \o <<c>>
    BY <2>1, ConcatProperties
  <2>3. Len(s) = 3 /\ s[1] = a /\ s[2] = b /\ s[3] = c
    BY <2>1, <2>2, ConcatProperties
  <2>4. \A i \in 1..3 : i = 1 \/ i = 2 \/ i = 3
    OBVIOUS
  <2>. QED
    BY <2>1, <2>2, <2>3, <2>4, SeqEqual
<1>. QED
  BY <1>1, <1>2, ShortLists

\* One line, with the view it leaves.
LEMMA Told ==
    ASSUME NEW x \in View, NEW l \in ServerLine, Expects(x, l), NEW y, y = After(x, l)
    PROVE  y \in View /\ Leads(x, <<l>>, y)
BY AfterType, LeadsOne

\* One line after others.
LEMMA ToldThen ==
    ASSUME NEW x, NEW y \in View, NEW l \in ServerLine, NEW z, NEW s \in Seq(ServerLine),
           Leads(x, s, y), Leads(y, <<l>>, z)
    PROVE  Leads(x, s \o <<l>>, z)
BY LinesTogether, LeadsOn

\* A list of other length has no stranger, nor has one of known names.
LEMMA NoStranger ==
    ASSUME NEW x, NEW l, NEW qs, NEW ps, x.clients = qs, x.number_of_clients = Len(qs),
           l.clients = ps, Len(qs) = Len(ps) => Range(ps) \subseteq Range(qs)
    PROVE  ~CH!HasStranger(x, l)
BY DEF CH!HasStranger, CH!Range, Range

\* A new Game object has nobody before the first update.
LEMMA NoStrangerYet ==
    ASSUME NEW x, NEW l, x.number_of_clients = 0, l.clients \in Seq(Client), l.clients # <<>>
    PROVE  ~CH!HasStranger(x, l)
BY EmptyList DEF CH!HasStranger

\* The lobby is told of its players.
LEMMA LobbyTold ==
    ASSUME NEW x \in View, x.client_state = "LOBBY", Me \in Range(x.clients),
           NEW ps \in Seq(Client), ~CH!HasStranger(x, LobbyLine(ps))
    PROVE  \E y \in View : Leads(x, <<LobbyLine(ps)>>, y) /\ Sees(y, "LOBBY", ps)
<1>1. LobbyLine(ps) \in ServerLine
  BY UpdateLineTypes
<1>2. LobbyLine(ps).type = "LOBBYUPDATE" /\ LobbyLine(ps).clients = ps
  BY DEF LobbyLine
<1>3. Expects(x, LobbyLine(ps))
  BY <1>2 DEF Expects
<1>4. PICK y : y = After(x, LobbyLine(ps))
  OBVIOUS
<1>5. y = Listed(x, ps)
  BY <1>2, <1>4 DEF After
<1>6. Sees(y, "LOBBY", ps)
  BY <1>5 DEF Listed, Sees, View
<1>. QED
  BY <1>1, <1>3, <1>4, <1>6, Told

\* The players in a round are told who plays and who is on turn.
LEMMA GameTold ==
    ASSUME NEW x \in View, x.client_state = "GAME", NEW ps \in Seq(Client),
           NEW turn \in Client \cup {NoClient}, Me \in Range(ps),
           ~CH!HasStranger(x, GameLine(ps, turn))
    PROVE  \E y \in View : /\ Leads(x, <<GameLine(ps, turn)>>, y) /\ Sees(y, "GAME", ps)
                           /\ SeesRound(y, x.word_len, x.word, turn)
<1>1. PICK l \in ServerLine : l = GameLine(ps, turn)
  BY UpdateLineTypes
<1>2. l.type = "GAMEUPDATE" /\ l.clients = ps /\ l.turn = turn
  BY <1>1 DEF GameLine
<1>3. Expects(x, l)
  BY <1>1, <1>2 DEF Expects
<1>4. PICK b \in BOOLEAN : b = (turn = Me)
  OBVIOUS
<1>5. PICK y : y = After(x, l)
  OBVIOUS
<1>6. y = [Listed(x, ps) EXCEPT !.quess_entry = b]
  BY <1>2, <1>4, <1>5 DEF After
<1>7. Sees(y, "GAME", ps) /\ y.word_len = x.word_len /\ y.word = x.word /\ y.quess_entry = b
  BY <1>6 DEF Listed, Sees, View
<1>8. SeesRound(y, x.word_len, x.word, turn)
  BY <1>4, <1>7 DEF SeesRound
<1>. QED
  BY <1>1, <1>3, <1>5, <1>7, <1>8, Told

\* The players are told that the round is over, and who is in the lobby.
LEMMA EndTold ==
    ASSUME NEW x \in View, NEW qs, Sees(x, "GAME", qs), Me \in Range(qs),
           NEW ps \in Seq(Client), Len(qs) = Len(ps) => Range(ps) \subseteq Range(qs)
    PROVE  \E y \in View : /\ Leads(x, <<Line("WINNER"), LobbyLine(ps)>>, y)
                           /\ Sees(y, "LOBBY", ps)
<1>1. PICK l \in ServerLine : l = Line("WINNER")
  BY BareLineType
<1>2. l.type = "WINNER"
  BY <1>1 DEF Line
<1>3. PICK u : u = After(x, l)
  OBVIOUS
<1>4. u = [x EXCEPT !.client_state = "LOBBY"]
  BY <1>2, <1>3 DEF After
<1>5. Sees(u, "LOBBY", qs)
  BY <1>4 DEF Sees, View
<1>6. Expects(x, l)
  BY <1>2 DEF Expects, Sees
<1>7. u \in View /\ Leads(x, <<l>>, u)
  BY <1>3, <1>6, Told
<1>8. LobbyLine(ps).clients = ps /\ LobbyLine(ps) \in ServerLine
  BY UpdateLineTypes DEF LobbyLine
<1>9. u.client_state = "LOBBY" /\ u.clients = qs /\ u.number_of_clients = Len(qs)
  BY <1>5 DEF Sees
<1>10. ~CH!HasStranger(u, LobbyLine(ps))
  BY <1>8, <1>9, NoStranger
<1>11. PICK y \in View : Leads(u, <<LobbyLine(ps)>>, y) /\ Sees(y, "LOBBY", ps)
  BY <1>7, <1>9, <1>10, LobbyTold
<1>12. Leads(x, <<l>> \o <<LobbyLine(ps)>>, y)
  BY <1>7, <1>8, <1>11, LinesTogether, ToldThen
<1>. QED
  BY <1>1, <1>8, <1>11, <1>12, LinesTogether

\* The players are told that a round begins.
LEMMA StartTold ==
    ASSUME NEW x \in View, NEW qs, Sees(x, "LOBBY", qs), NEW turn \in Range(qs),
           turn \in Client, NEW n \in Nat
    PROVE  \E y \in View : /\ Leads(x, <<[type |-> "STARTING", turn |-> turn, len |-> n]>>, y)
                           /\ Sees(y, "GAME", qs) /\ SeesRound(y, n, {}, turn)
<1>1. PICK l : l = [type |-> "STARTING", turn |-> turn, len |-> n]
  OBVIOUS
<1>2. l \in ServerLine /\ l.type = "STARTING" /\ l.turn = turn /\ l.len = n
  BY <1>1 DEF ServerLine
<1>3. PICK b \in BOOLEAN : b = (turn = Me)
  OBVIOUS
<1>4. PICK y : y = After(x, l)
  OBVIOUS
<1>5. y = [x EXCEPT !.client_state = "GAME", !.word_len = n, !.word = {}, !.quess_entry = b]
  BY <1>2, <1>3, <1>4 DEF After
<1>6. /\ Sees(y, "GAME", qs) /\ y.word_len = n /\ y.word = {} /\ y.quess_entry = b
  BY <1>5 DEF Sees, View
<1>7. SeesRound(y, n, {}, turn)
  BY <1>3, <1>6 DEF SeesRound
<1>8. Expects(x, l)
  BY <1>2 DEF Expects, Sees
<1>. QED
  BY <1>1, <1>2, <1>4, <1>6, <1>7, <1>8, Told

\* The players are told what a letter reveals.
LEMMA CorrectTold ==
    ASSUME NEW x \in View, NEW qs, Sees(x, "GAME", qs),
           NEW n \in Nat, NEW w, NEW turn, SeesRound(x, n, w, turn), NEW found \in SUBSET (1..n)
    PROVE  \E y \in View : /\ Leads(x, <<[type |-> "CORRECTQUESS", positions |-> found]>>, y)
                           /\ Sees(y, "GAME", qs) /\ SeesRound(y, n, w \cup found, turn)
<1>1. PICK l : l = [type |-> "CORRECTQUESS", positions |-> found]
  OBVIOUS
<1>2. l \in ServerLine /\ l.type = "CORRECTQUESS" /\ l.positions = found
  <2>1. found \in SUBSET Nat
    OBVIOUS
  <2>. QED
    BY <1>1, <2>1 DEF ServerLine
<1>3. PICK v : v = w \cup found
  OBVIOUS
<1>4. PICK y : y = After(x, l)
  OBVIOUS
<1>5. y = [x EXCEPT !.word = v]
  BY <1>2, <1>3, <1>4 DEF After, SeesRound
<1>6. Sees(y, "GAME", qs) /\ SeesRound(y, n, v, turn)
  BY <1>5 DEF Sees, SeesRound, View
<1>7. Expects(x, l)
  BY <1>2 DEF Expects, Sees, SeesRound
<1>. QED
  BY <1>1, <1>2, <1>3, <1>4, <1>6, <1>7, Told

\* The players are told of a wrong letter, and whose turn it is.
LEMMA BadTold ==
    ASSUME NEW x \in View, NEW qs, Sees(x, "GAME", qs),
           NEW n, NEW w, NEW old, SeesRound(x, n, w, old),
           NEW c \in Client, NEW turn \in Client, {c, turn} \subseteq Range(qs)
    PROVE  \E y \in View : /\ Leads(x, <<[type |-> "BADQUESS", by |-> c, turn |-> turn]>>, y)
                           /\ Sees(y, "GAME", qs) /\ SeesRound(y, n, w, turn)
<1>1. PICK l : l = [type |-> "BADQUESS", by |-> c, turn |-> turn]
  OBVIOUS
<1>2. l \in ServerLine /\ l.type = "BADQUESS" /\ l.by = c /\ l.turn = turn
  BY <1>1 DEF ServerLine
<1>3. PICK b \in BOOLEAN : b = (turn = Me)
  OBVIOUS
<1>4. PICK y : y = After(x, l)
  OBVIOUS
<1>5. y = [x EXCEPT !.quess_entry = b]
  BY <1>2, <1>3, <1>4 DEF After
<1>6. Sees(y, "GAME", qs) /\ SeesRound(y, n, w, turn)
  BY <1>3, <1>5 DEF Sees, SeesRound, View
<1>7. Expects(x, l)
  BY <1>2 DEF Expects, Sees
<1>. QED
  BY <1>1, <1>2, <1>4, <1>6, <1>7, Told

\* What a new Game object starts with.
LEMMA FreshFields ==
    ASSUME NEW x \in View, NEW s
    PROVE  /\ Fresh(x, s).client_state = s /\ Fresh(x, s).number_of_clients = 0
           /\ Fresh(x, s).clients = <<Me>> /\ Me \in Range(Fresh(x, s).clients)
<1>1. PICK me : me = <<Me>>
  OBVIOUS
<1>2. PICK u : u = [x EXCEPT !.client_state = s, !.clients = me, !.number_of_clients = 0,
                             !.word_len = 0, !.word = {}]
  OBVIOUS
<1>3. u.client_state = s /\ u.number_of_clients = 0 /\ u.clients = me
  BY <1>2 DEF View
<1>4. Fresh(x, s) = u
  BY <1>1, <1>2 DEF Fresh
<1>5. Me \in Range(me)
  BY <1>1, MeAssumption, FrontOfList, ShortLists
<1>. QED
  BY <1>1, <1>3, <1>4, <1>5

\* The answer to JOIN, and to a LOGIN that returns to the lobby: a new Game object,
\* then its players.
LEMMA EntryTold ==
    ASSUME NEW x \in View, NEW l \in ServerLine, Expects(x, l), After(x, l) = Fresh(x, "LOBBY"),
           NEW ps \in Seq(Client), ps # <<>>
    PROVE  \E y \in View : Leads(x, <<l, LobbyLine(ps)>>, y) /\ Sees(y, "LOBBY", ps)
<1>1. PICK u : u = Fresh(x, "LOBBY")
  OBVIOUS
<1>2. u.client_state = "LOBBY" /\ u.number_of_clients = 0 /\ Me \in Range(u.clients)
  BY <1>1, FreshFields
<1>3. u \in View /\ Leads(x, <<l>>, u)
  BY <1>1, Told
<1>4. LobbyLine(ps).clients = ps /\ LobbyLine(ps) \in ServerLine
  BY UpdateLineTypes DEF LobbyLine
<1>5. ~CH!HasStranger(u, LobbyLine(ps))
  BY <1>2, <1>4, NoStrangerYet
<1>6. PICK y \in View : Leads(u, <<LobbyLine(ps)>>, y) /\ Sees(y, "LOBBY", ps)
  BY <1>2, <1>3, <1>5, LobbyTold
<1>7. Leads(x, <<l>> \o <<LobbyLine(ps)>>, y)
  BY <1>3, <1>4, <1>6, LinesTogether, ToldThen
<1>. QED
  BY <1>4, <1>6, <1>7, LinesTogether

\* The answer to a LOGIN that returns into a round.
LEMMA ReturnTold ==
    ASSUME NEW x \in View, x.client_state # "GONE", NEW n \in Nat, NEW w \in SUBSET Nat,
           NEW ps \in Seq(Client), Me \in Range(ps), NEW turn \in Client \cup {NoClient}
    PROVE  \E y \in View :
              /\ Leads(x, <<[type |-> "RECONNECT", state |-> "GAME"],
                            [type |-> "QUESSED", len |-> n, positions |-> w],
                            GameLine(ps, turn)>>, y)
              /\ Sees(y, "GAME", ps) /\ SeesRound(y, n, w, turn)
<1>1. PICK a, b : /\ a = [type |-> "RECONNECT", state |-> "GAME"]
                  /\ b = [type |-> "QUESSED", len |-> n, positions |-> w]
  OBVIOUS
<1>2. /\ a \in ServerLine /\ a.type = "RECONNECT" /\ a.state = "GAME"
      /\ b \in ServerLine /\ b.type = "QUESSED" /\ b.len = n /\ b.positions = w
  BY <1>1 DEF ServerLine
<1>3. PICK u : u = Fresh(x, "GAME")
  OBVIOUS
<1>4. Expects(x, a) /\ u = After(x, a)
  BY <1>2, <1>3 DEF Expects, After
<1>5. u \in View /\ Leads(x, <<a>>, u) /\ u.client_state = "GAME" /\ u.number_of_clients = 0
  BY <1>2, <1>3, <1>4, FreshFields, Told
<1>6. PICK v : v = [u EXCEPT !.word_len = n, !.word = w]
  OBVIOUS
<1>7. Expects(u, b) /\ v = After(u, b)
  BY <1>2, <1>5, <1>6 DEF Expects, After
<1>8. /\ v.client_state = "GAME" /\ v.number_of_clients = 0
      /\ v.word_len = n /\ v.word = w
  BY <1>5, <1>6 DEF View
<1>9. v \in View /\ Leads(u, <<b>>, v)
  BY <1>2, <1>5, <1>7, Told
<1>10. GameLine(ps, turn).clients = ps /\ GameLine(ps, turn) \in ServerLine
  BY UpdateLineTypes DEF GameLine
<1>11. ps # <<>>
  BY EmptyList
<1>12. ~CH!HasStranger(v, GameLine(ps, turn))
  BY <1>8, <1>10, <1>11, NoStrangerYet
<1>13. PICK y \in View : /\ Leads(v, <<GameLine(ps, turn)>>, y) /\ Sees(y, "GAME", ps)
                         /\ SeesRound(y, v.word_len, v.word, turn)
  BY <1>8, <1>9, <1>12, GameTold
<1>14. Leads(x, <<a, b>>, v)
  BY <1>2, <1>5, <1>9, LinesTogether, ToldThen
<1>15. Leads(x, <<a, b>> \o <<GameLine(ps, turn)>>, y)
  BY <1>2, <1>9, <1>10, <1>13, <1>14, LinesTogether, ToldThen
<1>16. <<a, b>> \o <<GameLine(ps, turn)>> = <<a, b, GameLine(ps, turn)>>
  BY <1>2, <1>10, LinesTogether
<1>. QED
  BY <1>1, <1>8, <1>13, <1>15, <1>16

\* ACCEPT|1 logs the client in, ERROR|1 sends it away, and ERROR and PING leave it
\* what it is.
LEMMA BareTold ==
    ASSUME NEW x \in View, x.client_state # "GONE"
    PROVE  /\ x.client_state = "UNLOGGED" =>
                \E y \in View : /\ Leads(x, <<Line("ACCEPT|1")>>, y) /\ y.client_state = "LOGGED"
           /\ \E y \in View : Leads(x, <<Line("ERROR|1")>>, y)
           /\ Leads(x, <<Line("ERROR")>>, x) /\ Leads(x, <<PingLine>>, x)
<1>1. \A type \in {"ACCEPT|1", "ERROR|1", "ERROR", "PING"} :
         Line(type) \in ServerLine /\ Line(type).type = type
  BY BareLineType DEF Line
<1>2. ASSUME x.client_state = "UNLOGGED"
      PROVE  \E y \in View : Leads(x, <<Line("ACCEPT|1")>>, y) /\ y.client_state = "LOGGED"
  <2>1. PICK y : y = [x EXCEPT !.client_state = "LOGGED"]
    OBVIOUS
  <2>2. Expects(x, Line("ACCEPT|1")) /\ y = After(x, Line("ACCEPT|1"))
    BY <1>1, <1>2, <2>1 DEF Expects, After
  <2>3. y.client_state = "LOGGED"
    BY <2>1 DEF View
  <2>. QED
    BY <1>1, <2>2, <2>3, Told
<1>3. Expects(x, Line("ERROR|1"))
  BY <1>1 DEF Expects
<1>4. \A type \in {"ERROR", "PING"} : Expects(x, Line(type)) /\ After(x, Line(type)) = x
  BY <1>1 DEF Expects, After
<1>. QED
  BY <1>1, <1>2, <1>3, <1>4, Told DEF PingLine

-----------------------------------------------------------------------------
(* The player's game *)

\* x is what the server has of the game g.
Shows(x, g) ==
    IF g \in started_games
    THEN /\ Sees(x, "GAME", players[g])
         /\ SeesRound(x, Len(word[g]), Known(g), client_on_turn[g])
    ELSE Sees(x, "LOBBY", players[g])

\* A player with a seat is among the players of its game, and in a round the one that
\* is on turn is the game's.
SeatKnown ==
    ~spinning /\ client_state[Me] \in Seated =>
        /\ game[Me] \in Game
        /\ players[game[Me]] \in Seq(Client) /\ IsInjective(players[game[Me]])
        /\ Me \in Range(players[game[Me]])
        /\ game[Me] \in started_games <=> client_state[Me] \in InGame
        /\ game[Me] \in started_games =>
              /\ client_on_turn[game[Me]] \in Client
              /\ client_on_turn[game[Me]] \in Range(players[game[Me]])
              /\ client_on_turn[game[Me]] = Me <=> client_state[Me] = "ON_TURN"
        /\ Len(word[game[Me]]) \in Nat /\ Known(game[Me]) \subseteq Nat

\* The games keep it so.
LEMMA SeatIsKnown == P!IInv => SeatKnown
<1> SUFFICES ASSUME P!IInv, ~spinning, client_state[Me] \in Seated
             PROVE  /\ game[Me] \in Game
                    /\ players[game[Me]] \in Seq(Client) /\ IsInjective(players[game[Me]])
                    /\ Me \in Range(players[game[Me]])
                    /\ game[Me] \in started_games <=> client_state[Me] \in InGame
                    /\ game[Me] \in started_games =>
                          /\ client_on_turn[game[Me]] \in Client
                          /\ client_on_turn[game[Me]] \in Range(players[game[Me]])
                          /\ client_on_turn[game[Me]] = Me <=> client_state[Me] = "ON_TURN"
                    /\ Len(word[game[Me]]) \in Nat /\ Known(game[Me]) \subseteq Nat
  BY DEF SeatKnown
<1>1. Me \in Client
  BY MeAssumption
<1>2. /\ P!TypeOK /\ P!SeatsMatchStates
      /\ P!Seated = Seated /\ P!InGame = InGame
  BY DEF P!IInv, P!Seated, Seated, P!InGame, InGame
<1>3. PICK g \in Game : g = game[Me]
  BY <1>1, SeatedHasGame
<1>4. P!Range(players[g]) = Range(players[g]) /\ (P!IsInjective(players[g]) <=> IsInjective(players[g]))
  BY DEF P!Range, Range, P!IsInjective, IsInjective
<1>5. players[g] \in Seq(Client) /\ IsInjective(players[g]) /\ Me \in Range(players[g])
  BY <1>1, <1>2, <1>3, <1>4, GamesAssumption, P!SeatFacts
<1>6. client_state[Me] \in {"LOBBY"} \cup InGame
  BY DEF Seated, InGame
<1>7. ASSUME client_state[Me] = "LOBBY" PROVE g \notin started_games /\ client_state[Me] \notin InGame
  BY <1>1, <1>3, <1>7, GamesAssumption, P!LobbyMates DEF InGame
<1>8. ASSUME client_state[Me] \in InGame
      PROVE  /\ g \in started_games /\ client_on_turn[g] \in Client
             /\ client_on_turn[g] \in Range(players[g])
             /\ client_on_turn[g] = Me <=> client_state[Me] = "ON_TURN"
  <2>1. g \in started_games
    BY <1>1, <1>2, <1>3, <1>8, GamesAssumption, P!RoundMates
  <2>2. P!Held(Me)
    BY <1>1, <1>2, <1>8 DEF P!IInv, P!TurnHolder
  <2>3. PICK t \in Client : /\ t = client_on_turn[g] /\ game[t] = g
                            /\ client_state[t] = "ON_TURN"
                            /\ client_state[Me] = "ON_TURN" => Me = t
    BY <1>3, <2>2 DEF P!Held
  <2>4. t \in Range(players[g])
    BY <1>2, <1>3, <1>4, <2>3, GamesAssumption, P!SeatFacts DEF Seated, InGame
  <2>. QED
    BY <2>1, <2>3, <2>4
<1>9. Len(word[g]) \in Nat /\ Known(g) \subseteq Nat
  BY GameTypes, SeqFacts, KnownType
<1>. QED
  BY <1>3, <1>5, <1>6, <1>7, <1>8, <1>9

\* And after a step.
LEMMA SeatIsKnownAfter == P!IInv' => SeatKnown'
BY SeatIsKnown, PTL

-----------------------------------------------------------------------------
(* What the players of a game are told of a step keeps them informed *)

\* With the lines ls, one that had what the server has of the game g has it again.  (A
\* server that spins has nothing to say any more.)
Informed(x, ls, g) == \E y \in View : Leads(x, ls, y) /\ (~spinning' => Shows(y, g)')

\* Games are the same here and in GameManagerProofs.
LEMMA SameWords ==
    /\ P!Seated = Seated /\ P!InGame = InGame
    /\ \A s : P!Range(s) = Range(s)
    /\ \A s, e : P!Without(s, e) = Without(s, e)
<1>1. P!Seated = Seated /\ P!InGame = InGame
  BY DEF P!Seated, Seated, P!InGame, InGame
<1>2. \A s : P!Range(s) = Range(s)
  BY DEF P!Range, Range
<1>3. \A s, e : P!Find(s, e) = Find(s, e)
  BY <1>2 DEF P!Find, Find
<1>4. \A s, e : P!Without(s, e) = Without(s, e)
  BY <1>2, <1>3 DEF P!Without, Without, P!RemoveAt, RemoveAt
<1>. QED
  BY <1>1, <1>2, <1>4

\* Nothing is told of a game that stays as it is.
LEMMA QuietGame ==
    ASSUME NEW g, NEW x, Shows(x, g),
           players'[g] = players[g], word'[g] = word[g],
           quessed_chars'[g] = quessed_chars[g], client_on_turn'[g] = client_on_turn[g],
           g \in started_games' <=> g \in started_games
    PROVE  Shows(x, g)'
<1>1. Known(g)' = Known(g)
  BY DEF Known
<1>. QED
  BY <1>1 DEF Shows

\* The players of a lobby are told who joins.
LEMMA JoinTells ==
    ASSUME P!IInv, NEW c \in Client, GM!JoinGame(c), NEW g \in Game, Me \in Range(players[g]),
           NEW x \in View, Shows(x, g)
    PROVE  /\ game'[c] = g => Informed(x, <<LobbyLine(players'[g])>>, g)
           /\ game'[c] # g => Shows(x, g)'
<1>1. P!JoinGame(c)
  BY SameLobbySteps
<1>2. /\ players \in [Game -> Seq(Client)] /\ game \in [Client -> Game \cup {NoGame}]
      /\ started_games \subseteq Game
  BY GameTypes
<1>3. PICK h \in Game : /\ P!JoinableGame(h)
                        /\ players' = [players EXCEPT ![h] = P!AddClient(h, c)]
                        /\ game' = [game EXCEPT ![c] = h]
  BY <1>1 DEF P!JoinGame
<1>4. /\ ~spinning
      /\ UNCHANGED <<client_on_turn, word, quessed_chars, started_games>>
  BY <1>1 DEF P!JoinGame, P!roundVars
<1>5. game'[c] = h
  BY <1>2, <1>3
<1>6. ASSUME h = g PROVE Informed(x, <<LobbyLine(players'[g])>>, g)
  <2>1. PICK qs \in Seq(Client) : qs = players[g]
    BY <1>2
  <2>2. PICK ps \in Seq(Client) : ps = players'[g] /\ Len(ps) = Len(qs) + 1
    BY <1>2, <1>3, <1>6, <2>1, AppendAdds DEF P!AddClient
  <2>3. g \notin started_games
    <3>1. qs # <<>>
      BY <2>1, EmptyList
    <3>2. not_started_games # <<>> /\ g = Head(not_started_games)
      BY <1>3, <1>6, <2>1, <3>1 DEF P!JoinableGame, P!Live
    <3>3. not_started_games \in Seq(Game)
      BY DEF P!IInv, P!TypeOK
    <3>4. g \in Range(not_started_games)
      BY <3>2, <3>3, FrontOfList
    <3>. QED
      BY <1>4, <3>4, SameWords, GamesAssumption, P!StartedFacts
  <2>4. x.client_state = "LOBBY" /\ x.clients = qs /\ x.number_of_clients = Len(qs)
    BY <2>1, <2>3 DEF Shows, Sees
  <2>5. LobbyLine(ps).clients = ps
    BY DEF LobbyLine
  <2>6. Len(qs) # Len(ps)
    <3>1. \A n \in Nat : n # n + 1
      OBVIOUS
    <3>. QED
      BY <2>2, <3>1, SeqFacts
  <2>7. ~CH!HasStranger(x, LobbyLine(ps))
    BY <2>4, <2>5, <2>6, NoStranger
  <2>8. PICK y \in View : Leads(x, <<LobbyLine(ps)>>, y) /\ Sees(y, "LOBBY", ps)
    BY <2>1, <2>4, <2>7, LobbyTold
  <2>9. Shows(y, g)'
    BY <1>4, <2>2, <2>3, <2>8 DEF Shows
  <2>. QED
    BY <2>2, <2>8, <2>9 DEF Informed
<1>7. ASSUME h # g PROVE Shows(x, g)'
  BY <1>2, <1>3, <1>4, <1>7, QuietGame
<1>. QED
  BY <1>5, <1>6, <1>7

\* The players are told that a round begins.
LEMMA StartTells ==
    ASSUME P!IInv, P!IInv', NEW c \in Client, GM!StartGame(c), NEW g \in Game,
           NEW x \in View, Shows(x, g)
    PROVE  /\ game[c] = g => Informed(x, StartLines(g), g)
           /\ game[c] # g => Shows(x, g)'
<1>1. P!StartGame(c)
  BY SameLobbySteps
<1>2. /\ ~spinning /\ client_state[c] = "LOBBY"
      /\ game[c] \in Game /\ game[c] \notin started_games /\ Len(players[game[c]]) \in 1..LOBBY_SIZE
  BY <1>1, GamesAssumption, P!LobbyMates DEF P!StartGame
<1>3. PICK h \in Game : h = game[c]
  BY <1>2
<1>4. /\ started_games' = started_games \cup {h} /\ players' = players
      /\ client_on_turn' = [client_on_turn EXCEPT ![h] = Head(players[h])]
      /\ quessed_chars' = [quessed_chars EXCEPT ![h] = [ch \in Letter |-> {}]]
      /\ \E w : word' = [word EXCEPT ![h] = w]
  BY <1>1, <1>3 DEF P!StartGame, P!GameStart
<1>5. /\ players \in [Game -> Seq(Client)] /\ client_on_turn \in [Game -> Client \cup {NoClient}]
      /\ quessed_chars \in [Game -> [Letter -> SUBSET Nat]] /\ word \in [Game -> Seq(Letter)]
  BY GameTypes
<1>6. word' \in [Game -> Seq(Letter)]
  BY GameTypesAfter
<1>7. ASSUME h = g PROVE Informed(x, StartLines(g), g)
  <2>1. PICK qs \in Seq(Client) : qs = players[g]
    BY <1>5
  <2>2. qs # <<>>
    <3>1. Len(qs) # 0
      BY <1>2, <1>3, <1>7, <2>1, GamesAssumption
    <3>. QED
      BY <3>1, EmptyList
  <2>3. PICK turn \in Client : turn = Head(qs) /\ turn \in Range(qs)
    BY <2>2, FrontOfList
  <2>4. client_on_turn'[g] = turn
    BY <1>4, <1>5, <1>7, <2>1, <2>3
  <2>5. PICK n \in Nat : n = Len(word'[g])
    BY <1>6, SeqFacts
  <2>6. Known(g)' = {}
    <3>1. quessed_chars'[g] = [ch \in Letter |-> {}]
      BY <1>4, <1>5, <1>7
    <3>2. \A s \in Range(quessed_chars'[g]) : s = {}
      BY <3>1 DEF Range
    <3>. QED
      BY <3>2 DEF Known
  <2>7. Sees(x, "LOBBY", qs)
    BY <1>2, <1>3, <1>7, <2>1 DEF Shows
  <2>8. PICK y \in View : /\ Leads(x, <<[type |-> "STARTING", turn |-> turn, len |-> n]>>, y)
                          /\ Sees(y, "GAME", qs) /\ SeesRound(y, n, {}, turn)
    BY <2>3, <2>7, StartTold
  <2>9. Shows(y, g)'
    BY <1>4, <1>7, <2>1, <2>4, <2>5, <2>6, <2>8 DEF Shows
  <2>. QED
    BY <2>4, <2>5, <2>8, <2>9 DEF Informed, StartLines
<1>8. ASSUME h # g PROVE Shows(x, g)'
  BY <1>4, <1>5, <1>8, QuietGame
<1>. QED
  BY <1>3, <1>7, <1>8

\* If the round of g ends, this is told at last.
LEMMA EndTells ==
    ASSUME NEW g \in started_games, g \notin started_games', NEW x \in View, NEW qs,
           Sees(x, "GAME", qs), Me \in Range(qs), NEW ps \in Seq(Client), ps = players'[g],
           Range(ps) \subseteq Range(qs)
    PROVE  /\ EndLines(g) = <<Line("WINNER"), LobbyLine(ps)>>
           /\ EndLines(g) \in Seq(ServerLine)
           /\ \E y \in View : Leads(x, EndLines(g), y) /\ Shows(y, g)'
<1>1. EndLines(g) = <<Line("WINNER"), LobbyLine(ps)>>
  BY DEF EndLines
<1>2. EndLines(g) \in Seq(ServerLine)
  BY <1>1, BareLineType, UpdateLineTypes, LinesTogether
<1>3. PICK y \in View : Leads(x, EndLines(g), y) /\ Sees(y, "LOBBY", ps)
  BY <1>1, EndTold
<1>4. Shows(y, g)'
  BY <1>3 DEF Shows
<1>. QED
  BY <1>1, <1>2, <1>3, <1>4

\* A wrong letter: whose turn it is, or that the round is over.
LEMMA BadQuessTells ==
    ASSUME P!IInv, NEW c \in Client, NEW ch \in Letter, P!BadQuess(c, ch), NEW g \in Game,
           g = game[c], Me \in Range(players[g]), NEW x \in View, Shows(x, g)
    PROVE  Informed(x, QuessLines(c, ch), g)
<1>1. /\ ~spinning /\ client_state[c] = "ON_TURN" /\ spinning' = spinning
      /\ UNCHANGED <<players, word, quessed_chars>>
      /\ started_games' \in {started_games, started_games \ {g}}
  BY DEF P!BadQuess, P!MayQuess, P!roundVars, P!listVars, P!AnnounceWinner
<1>2. PICK next : /\ next = P!NextClient(players[g], P!Find(players[g], client_on_turn[g]), P!Hurt(c))
                  /\ P!Alive(players[g], P!Hurt(c)) # {}
                  /\ client_on_turn' = [client_on_turn EXCEPT ![g] = next]
                  /\ P!Revealed(g, ch) = {}
  BY DEF P!BadQuess
<1>3. next \in Range(players[g]) /\ next \in Client
  BY <1>1, <1>2, SameWords, GamesAssumption, P!NextAfterBadQuess
<1>4. g \in started_games /\ c \in Range(players[g])
  BY <1>1, SameWords, GamesAssumption, P!RoundMates DEF InGame
<1>5. PICK qs \in Seq(Client) : qs = players[g] /\ qs = players'[g]
  BY <1>1, GameTypes
<1>6. client_on_turn'[g] = next
  BY <1>2, GameTypes
<1>7. PICK n, w, old : /\ n = Len(word[g]) /\ w = Known(g) /\ w = Known(g)'
                       /\ old = client_on_turn[g]
  BY <1>1 DEF Known
<1>8. Sees(x, "GAME", qs) /\ SeesRound(x, n, w, old)
  BY <1>4, <1>5, <1>7 DEF Shows
<1>9. PICK l : l = [type |-> "BADQUESS", by |-> c, turn |-> next]
  OBVIOUS
<1>10. l \in ServerLine
  BY <1>3, <1>9 DEF ServerLine
<1>11. PICK u \in View : Leads(x, <<l>>, u) /\ Sees(u, "GAME", qs) /\ SeesRound(u, n, w, next)
  BY <1>3, <1>4, <1>5, <1>8, <1>9, BadTold
<1>12. QuessLines(c, ch) = <<l>> \o EndLines(g)
  BY <1>1, <1>2, <1>6, <1>9, SameHelpers DEF QuessLines
<1>13. <<l>> \in Seq(ServerLine)
  BY <1>10, LinesTogether
<1>14. CASE g \in started_games'
  <2>1. EndLines(g) = <<>>
    BY <1>14 DEF EndLines
  <2>2. QuessLines(c, ch) = <<l>>
    BY <1>12, <1>13, <2>1, ConcatEmptySeq
  <2>3. Shows(u, g)'
    BY <1>1, <1>5, <1>6, <1>7, <1>11, <1>14 DEF Shows
  <2>. QED
    BY <1>11, <2>2, <2>3 DEF Informed
<1>15. CASE g \notin started_games'
  <2>1. EndLines(g) \in Seq(ServerLine)
    BY <1>4, <1>5, <1>11, <1>15, EndTells
  <2>2. PICK y \in View : Leads(u, EndLines(g), y) /\ Shows(y, g)'
    BY <1>4, <1>5, <1>11, <1>15, EndTells
  <2>3. Leads(x, <<l>> \o EndLines(g), y)
    BY <1>11, <1>13, <2>1, <2>2, LeadsOn
  <2>. QED
    BY <1>12, <2>2, <2>3 DEF Informed
<1>. QED
  BY <1>14, <1>15

\* The letters that are known after a letter was found.
LEMMA KnownGrows ==
    ASSUME P!IInv, NEW g \in Game, NEW ch \in Letter, NEW found, found = P!Revealed(g, ch),
           found # {}, quessed_chars' = [quessed_chars EXCEPT ![g][ch] = found]
    PROVE  Known(g)' = Known(g) \cup found
<1>1. quessed_chars \in [Game -> [Letter -> SUBSET Nat]]
  BY GameTypes
<1>2. PICK q, r : q = quessed_chars[g] /\ r = quessed_chars'[g]
  OBVIOUS
<1>3. /\ DOMAIN q = Letter /\ DOMAIN r = Letter /\ r[ch] = found
      /\ \A d \in Letter \ {ch} : r[d] = q[d]
  BY <1>1, <1>2
<1>4. q[ch] = {}
  BY <1>2 DEF P!Revealed
<1>5. Known(g) = UNION {q[d] : d \in Letter} /\ Known(g)' = UNION {r[d] : d \in Letter}
  BY <1>2, <1>3 DEF Known, Range
<1>6. ASSUME NEW i \in UNION {r[d] : d \in Letter}
      PROVE  i \in UNION {q[d] : d \in Letter} \/ i \in found
  <2>1. PICK d \in Letter : i \in r[d]
    OBVIOUS
  <2>. QED
    BY <1>3, <2>1
<1>7. ASSUME NEW i, i \in UNION {q[d] : d \in Letter} \/ i \in found
      PROVE  i \in UNION {r[d] : d \in Letter}
  <2>1. CASE i \in found
    BY <1>3, <2>1
  <2>2. CASE i \in UNION {q[d] : d \in Letter}
    <3>1. PICK d \in Letter : i \in q[d]
      BY <2>2
    <3>. QED
      BY <1>3, <1>4, <3>1
  <2>. QED
    BY <1>7, <2>1, <2>2
<1>. QED
  BY <1>5, <1>6, <1>7

\* A letter of the word: its positions, or that the round is over.
LEMMA GoodQuessTells ==
    ASSUME P!IInv, NEW c \in Client, NEW ch \in Letter, P!GoodQuess(c, ch), NEW g \in Game,
           g = game[c], Me \in Range(players[g]), NEW x \in View, Shows(x, g)
    PROVE  Informed(x, QuessLines(c, ch), g)
<1>1. /\ ~spinning /\ client_state[c] = "ON_TURN" /\ spinning' = spinning
      /\ UNCHANGED <<players, word, client_on_turn>>
      /\ started_games' \in {started_games, started_games \ {g}}
  BY DEF P!GoodQuess, P!MayQuess, P!listVars, P!AnnounceWinner
<1>2. PICK found : found = P!Revealed(g, ch)
  OBVIOUS
<1>3. /\ found # {} /\ quessed_chars' = [quessed_chars EXCEPT ![g][ch] = found]
  BY <1>2 DEF P!GoodQuess
<1>4. g \in started_games
  BY <1>1, SameWords, GamesAssumption, P!RoundMates DEF InGame
<1>5. PICK qs \in Seq(Client) : qs = players[g] /\ qs = players'[g]
  BY <1>1, GameTypes
<1>6. PICK n \in Nat : n = Len(word[g]) /\ found \in SUBSET (1..n)
  <2>1. found \subseteq 1..Len(word[g]) /\ Len(word[g]) \in Nat
    BY <1>2, SameHelpers, RevealedType
  <2>. QED
    BY <2>1
<1>7. PICK w, turn : w = Known(g) /\ turn = client_on_turn[g]
  OBVIOUS
<1>8. Known(g)' = w \cup found
  BY <1>2, <1>3, <1>7, KnownGrows
<1>9. Sees(x, "GAME", qs) /\ SeesRound(x, n, w, turn)
  BY <1>4, <1>5, <1>6, <1>7 DEF Shows
<1>10. GM!Revealed(game[c], ch) = found
  BY <1>2, SameHelpers
<1>11. CASE g \in started_games'
  <2>1. PICK y \in View : /\ Leads(x, <<[type |-> "CORRECTQUESS", positions |-> found]>>, y)
                          /\ Sees(y, "GAME", qs) /\ SeesRound(y, n, w \cup found, turn)
    BY <1>6, <1>9, CorrectTold
  <2>2. QuessLines(c, ch) = <<[type |-> "CORRECTQUESS", positions |-> found]>>
    BY <1>1, <1>3, <1>10, <1>11 DEF QuessLines, EndLines
  <2>3. Shows(y, g)'
    BY <1>1, <1>5, <1>6, <1>7, <1>8, <1>11, <2>1 DEF Shows
  <2>. QED
    BY <2>1, <2>2, <2>3 DEF Informed
<1>12. CASE g \notin started_games'
  <2>1. EndLines(g) # <<>>
    BY <1>4, <1>12 DEF EndLines
  <2>2. QuessLines(c, ch) = EndLines(g)
    BY <1>1, <1>3, <1>10, <2>1 DEF QuessLines
  <2>. QED
    BY <1>4, <1>5, <1>9, <1>12, <2>2, EndTells DEF Informed
<1>. QED
  BY <1>11, <1>12

\* A guess that never ends: nothing is told.
LEMMA SpinningTells ==
    ASSUME spinning', NEW x \in View, NEW g
    PROVE  Informed(x, <<>>, g)
BY LeadsNowhere DEF Informed

\* The players are told of a guess.
LEMMA QuessTells ==
    ASSUME P!IInv, NEW c \in Client, NEW ch \in Letter, GM!Quess(c, ch), NEW g \in Game,
           Me \in Range(players[g]), NEW x \in View, Shows(x, g)
    PROVE  /\ game[c] = g => Informed(x, QuessLines(c, ch), g)
           /\ game[c] # g /\ ~spinning' => Shows(x, g)'
<1>1. P!Quess(c, ch)
  BY SameQuess
<1>2. ASSUME game[c] = g, P!BadQuessSpins(c, ch) PROVE Informed(x, QuessLines(c, ch), g)
  <2>1. spinning'
    BY <1>2 DEF P!BadQuessSpins
  <2>2. QuessLines(c, ch) = <<>>
    BY <2>1 DEF QuessLines
  <2>. QED
    BY <2>1, <2>2, SpinningTells
<1>3. ASSUME game[c] = g PROVE Informed(x, QuessLines(c, ch), g)
  BY <1>1, <1>2, <1>3, BadQuessTells, GoodQuessTells DEF P!Quess
<1>4. ASSUME game[c] # g, ~spinning' PROVE Shows(x, g)'
  <2>1. P!BadQuess(c, ch) \/ P!GoodQuess(c, ch)
    BY <1>1, <1>4 DEF P!Quess, P!BadQuessSpins
  <2>2. client_state[c] = "ON_TURN" /\ ~spinning
    BY <2>1 DEF P!BadQuess, P!GoodQuess, P!MayQuess
  <2>3. PICK h \in Game : h = game[c] /\ h # g
    BY <1>4, <2>2, SeatedHasGame DEF Seated, InGame
  <2>4. /\ players' = players /\ word' = word
        /\ started_games' \in {started_games, started_games \ {h}}
        /\ quessed_chars' = quessed_chars \/ \E q : quessed_chars' = [quessed_chars EXCEPT ![h] = q]
        /\ client_on_turn' = client_on_turn \/ \E t : client_on_turn' = [client_on_turn EXCEPT ![h] = t]
    BY <2>1, <2>3 DEF P!BadQuess, P!GoodQuess, P!roundVars, P!listVars, P!AnnounceWinner
  <2>5. quessed_chars'[g] = quessed_chars[g] /\ client_on_turn'[g] = client_on_turn[g]
    BY <2>3, <2>4, GameTypes
  <2>. QED
    BY <2>3, <2>4, <2>5, QuietGame
<1>. QED
  BY <1>3, <1>4

\* Who plays in the game, told without need, changes nothing.
LEMMA UpdateTells ==
    ASSUME P!IInv, NEW g \in Game, Me \in Range(players[g]), NEW x \in View, Shows(x, g)
    PROVE  \E y \in View : Leads(x, <<UpdateLine(g)>>, y) /\ Shows(y, g)
<1>1. PICK qs \in Seq(Client) : qs = players[g]
  BY GameTypes
<1>2. PICK turn \in Client \cup {NoClient} : turn = client_on_turn[g]
  BY GameTypes
<1>3. CASE g \in started_games
  <2>1. /\ x.client_state = "GAME" /\ x.clients = qs /\ x.number_of_clients = Len(qs)
        /\ x.word_len = Len(word[g]) /\ x.word = Known(g)
    BY <1>1, <1>3 DEF Shows, Sees, SeesRound
  <2>2. GameLine(qs, turn).clients = qs
    BY DEF GameLine
  <2>3. ~CH!HasStranger(x, GameLine(qs, turn))
    BY <2>1, <2>2, NoStranger
  <2>4. PICK y \in View : /\ Leads(x, <<GameLine(qs, turn)>>, y) /\ Sees(y, "GAME", qs)
                          /\ SeesRound(y, x.word_len, x.word, turn)
    BY <1>1, <2>1, <2>3, GameTold
  <2>. QED
    BY <1>1, <1>2, <1>3, <2>1, <2>4 DEF Shows, UpdateLine
<1>4. CASE g \notin started_games
  <2>1. x.client_state = "LOBBY" /\ x.clients = qs /\ x.number_of_clients = Len(qs)
    BY <1>1, <1>4 DEF Shows, Sees
  <2>2. LobbyLine(qs).clients = qs
    BY DEF LobbyLine
  <2>3. ~CH!HasStranger(x, LobbyLine(qs))
    BY <2>1, <2>2, NoStranger
  <2>4. PICK y \in View : Leads(x, <<LobbyLine(qs)>>, y) /\ Sees(y, "LOBBY", qs)
    BY <1>1, <2>1, <2>3, LobbyTold
  <2>. QED
    BY <1>1, <1>4, <2>4 DEF Shows, UpdateLine
<1>. QED
  BY <1>3, <1>4

\* The lobby is told who leaves.
LEMMA LeaveLobbyTells ==
    ASSUME P!IInv, NEW c \in Client \ {Me}, P!LeaveLobby(c), NEW g \in Game,
           Me \in Range(players[g]), NEW x \in View, Shows(x, g)
    PROVE  /\ game[c] = g => Informed(x, LeaveLines(g), g)
           /\ game[c] # g => Shows(x, g)'
<1>1. /\ ~spinning /\ spinning' = spinning /\ client_state[c] = "LOBBY"
      /\ started_games' = started_games
  BY DEF P!LeaveLobby
<1>2. game[c] \in Game /\ game[c] \notin started_games
  BY <1>1, GamesAssumption, P!LobbyMates
<1>3. PICK h, ps : /\ h \in Game
                   /\ h = game[c] /\ ps = P!Without(players[h], c)
                   /\ players' = [players EXCEPT ![h] = ps]
  BY <1>2 DEF P!LeaveLobby
<1>4. ASSUME h = g PROVE Informed(x, LeaveLines(g), g)
  <2>1. PICK qs \in Seq(Client) : qs = players[g] /\ IsInjective(qs)
    <3>1. players[g] \in Seq(Client) /\ P!IsInjective(players[g])
      BY <1>1, GamesAssumption, P!SeatFacts DEF P!IInv
    <3>. QED
      BY <3>1 DEF P!IsInjective, IsInjective
  <2>2. ps \in Seq(Client) /\ Range(ps) \subseteq Range(qs)
    BY <1>3, <1>4, <2>1, SameWords, WithoutRemoves
  <2>3. players'[g] = ps
    BY <1>3, <1>4, GameTypes
  <2>4. x.client_state = "LOBBY" /\ x.clients = qs /\ x.number_of_clients = Len(qs)
    BY <1>2, <1>3, <1>4, <2>1 DEF Shows, Sees
  <2>5. LobbyLine(ps).clients = ps
    BY DEF LobbyLine
  <2>6. ~CH!HasStranger(x, LobbyLine(ps))
    BY <2>2, <2>4, <2>5, NoStranger
  <2>7. PICK y \in View : Leads(x, <<LobbyLine(ps)>>, y) /\ Sees(y, "LOBBY", ps)
    BY <2>1, <2>2, <2>4, <2>6, LobbyTold
  <2>8. LeaveLines(g) = <<LobbyLine(ps)>>
    BY <1>1, <1>2, <1>3, <1>4, <2>3 DEF LeaveLines
  <2>9. Shows(y, g)'
    BY <1>1, <1>2, <1>3, <1>4, <2>3, <2>7 DEF Shows
  <2>. QED
    BY <2>7, <2>8, <2>9 DEF Informed
<1>5. ASSUME h # g PROVE Shows(x, g)'
  <2>1. /\ client_on_turn' = client_on_turn \/ \E t : client_on_turn' = [client_on_turn EXCEPT ![h] = t]
        /\ word' = word \/ \E w : word' = [word EXCEPT ![h] = w]
        /\ quessed_chars' = quessed_chars \/ \E q : quessed_chars' = [quessed_chars EXCEPT ![h] = q]
    BY <1>3 DEF P!LeaveLobby, P!roundVars
  <2>2. /\ players'[g] = players[g] /\ client_on_turn'[g] = client_on_turn[g]
        /\ word'[g] = word[g] /\ quessed_chars'[g] = quessed_chars[g]
    BY <1>3, <1>5, <2>1, GameTypes
  <2>. QED
    BY <1>1, <2>2, QuietGame
<1>. QED
  BY <1>3, <1>4, <1>5

\* The players in a round are told who leaves, and that the round is over if only one
\* is left.
LEMMA LeaveGameTells ==
    ASSUME P!IInv, P!IInv', NEW c \in Client \ {Me}, P!LeaveGame(c), NEW g \in Game,
           Me \in Range(players[g]), NEW x \in View, Shows(x, g)
    PROVE  /\ game[c] = g => Informed(x, LeaveLines(g), g)
           /\ game[c] # g => Shows(x, g)'
<1>1. /\ ~spinning /\ spinning' = spinning /\ client_state[c] \in P!InGame
      /\ UNCHANGED <<word, quessed_chars>>
  BY DEF P!LeaveGame, P!roundVars
<1>2. game[c] \in Game /\ game[c] \in started_games
  BY <1>1, GamesAssumption, P!RoundMates
<1>3. PICK h, ps : /\ h \in Game
                   /\ h = game[c] /\ ps = P!Without(players[h], c)
                   /\ players' = [players EXCEPT ![h] = ps]
                   /\ started_games' \in {started_games, started_games \ {h}}
                   /\ \E t : client_on_turn' = [client_on_turn EXCEPT ![h] = t]
  BY <1>2 DEF P!LeaveGame, P!AnnounceWinner, P!listVars
<1>4. ASSUME h = g PROVE Informed(x, LeaveLines(g), g)
  <2>1. PICK qs \in Seq(Client) : qs = players[g] /\ IsInjective(qs)
    <3>1. players[g] \in Seq(Client) /\ P!IsInjective(players[g])
      BY <1>1, GamesAssumption, P!SeatFacts DEF P!IInv
    <3>. QED
      BY <3>1 DEF P!IsInjective, IsInjective
  <2>2. ps \in Seq(Client) /\ Range(ps) = Range(qs) \ {c}
    BY <1>3, <1>4, <2>1, SameWords, WithoutRemoves
  <2>3. players'[g] = ps
    BY <1>3, <1>4, GameTypes
  <2>4. PICK turn \in Client \cup {NoClient} : turn = client_on_turn'[g]
    BY GameTypesAfter
  <2>5. PICK n, w : n = Len(word[g]) /\ w = Known(g) /\ n = Len(word'[g]) /\ w = Known(g)'
    BY <1>1 DEF Known
  <2>6. /\ x.client_state = "GAME" /\ x.clients = qs /\ x.number_of_clients = Len(qs)
        /\ x.word_len = n /\ x.word = w
    BY <1>2, <1>3, <1>4, <2>1, <2>5 DEF Shows, Sees, SeesRound
  <2>7. GameLine(ps, turn).clients = ps
    BY DEF GameLine
  <2>8. ~CH!HasStranger(x, GameLine(ps, turn))
    BY <2>2, <2>6, <2>7, NoStranger
  <2>9. PICK u \in View : /\ Leads(x, <<GameLine(ps, turn)>>, u) /\ Sees(u, "GAME", ps)
                          /\ SeesRound(u, n, w, turn)
    BY <2>1, <2>2, <2>6, <2>8, GameTold
  <2>10. LeaveLines(g) = <<GameLine(ps, turn)>> \o EndLines(g)
    BY <1>1, <1>2, <1>3, <1>4, <2>3, <2>4 DEF LeaveLines
  <2>11. <<GameLine(ps, turn)>> \in Seq(ServerLine)
    BY <2>2, UpdateLineTypes, LinesTogether
  <2>12. CASE g \in started_games'
    <3>1. EndLines(g) = <<>>
      BY <2>12 DEF EndLines
    <3>2. LeaveLines(g) = <<GameLine(ps, turn)>>
      BY <2>10, <2>11, <3>1, ConcatEmptySeq
    <3>3. Shows(u, g)'
      BY <2>3, <2>4, <2>5, <2>9, <2>12 DEF Shows
    <3>. QED
      BY <2>9, <3>2, <3>3 DEF Informed
  <2>13. CASE g \notin started_games'
    <3>1. Me \in Range(ps) /\ g \in started_games
      BY <1>2, <1>3, <1>4, <2>1, <2>2
    <3>2. EndLines(g) \in Seq(ServerLine)
      BY <2>2, <2>3, <2>9, <2>13, <3>1, EndTells
    <3>3. PICK y \in View : Leads(u, EndLines(g), y) /\ Shows(y, g)'
      BY <2>2, <2>3, <2>9, <2>13, <3>1, EndTells
    <3>4. Leads(x, <<GameLine(ps, turn)>> \o EndLines(g), y)
      BY <2>9, <2>11, <3>2, <3>3, LeadsOn
    <3>. QED
      BY <2>10, <3>3, <3>4 DEF Informed
  <2>. QED
    BY <2>12, <2>13
<1>5. ASSUME h # g PROVE Shows(x, g)'
  <2>1. /\ players'[g] = players[g] /\ client_on_turn'[g] = client_on_turn[g]
    BY <1>3, <1>5, GameTypes
  <2>. QED
    BY <1>1, <1>3, <1>5, <2>1, QuietGame
<1>. QED
  BY <1>3, <1>4, <1>5

\* Somebody without a seat leaves.  If the object still names a game, its players are
\* told what they know.
LEMMA LeaveUnseatedTells ==
    ASSUME P!IInv, NEW c, P!LeaveUnseated(c), NEW g \in Game,
           Me \in Range(players[g]), NEW x \in View, Shows(x, g)
    PROVE  Informed(x, LeaveLines(g), g) /\ Shows(x, g)'
<1>1. /\ ~spinning /\ spinning' = spinning
      /\ UNCHANGED <<players, client_on_turn, word, quessed_chars, started_games>>
  BY DEF P!LeaveUnseated, P!roundVars, P!listVars
<1>2. PICK y \in View : Leads(x, <<UpdateLine(g)>>, y) /\ Shows(y, g)
  BY UpdateTells
<1>3. Shows(x, g)' /\ Shows(y, g)'
  BY <1>1, <1>2, QuietGame
<1>4. EndLines(g) = <<>>
  BY <1>1 DEF EndLines
<1>5. <<GameLine(players[g], client_on_turn[g])>> \in Seq(ServerLine)
  BY UpdateLineTypes, GameTypes, LinesTogether
<1>6. LeaveLines(g) = <<UpdateLine(g)>>
  BY <1>1, <1>4, <1>5, ConcatEmptySeq DEF LeaveLines, UpdateLine
<1>. QED
  BY <1>2, <1>3, <1>6 DEF Informed

\* The players of a game are told when another leaves it.
LEMMA LeaveTells ==
    ASSUME P!IInv, P!IInv', NEW c \in Client \ {Me}, GM!Leave(c), NEW g \in Game,
           Me \in Range(players[g]), NEW x \in View, Shows(x, g)
    PROVE  /\ game[c] = g => Informed(x, LeaveLines(g), g)
           /\ game[c] # g /\ ~spinning' => Shows(x, g)'
<1>1. P!Leave(c)
  BY SameLeave
<1>2. CASE P!LeaveSpins(c)
  <2>1. spinning' /\ LeaveLines(g) = <<>>
    BY <1>2 DEF P!LeaveSpins, LeaveLines
  <2>. QED
    BY <2>1, SpinningTells
<1>. QED
  BY <1>1, <1>2, LeaveUnseatedTells, LeaveLobbyTells, LeaveGameTells DEF P!Leave

\* With the update before it, if the other was there.
LEMMA GoingTells ==
    ASSUME P!IInv, P!IInv', NEW c \in Client \ {Me}, GM!Leave(c), NEW g \in Game, game[c] = g,
           NEW ls \in GoingLines(g), Me \in Range(players[g]), NEW x \in View, Shows(x, g)
    PROVE  Informed(x, ls, g)
<1>1. CASE ls = LeaveLines(g)
  BY <1>1, LeaveTells
<1>2. CASE ls = <<UpdateLine(g)>> \o LeaveLines(g)
  <2>1. PICK u \in Seq(ServerLine) : u = <<UpdateLine(g)>>
    BY UpdateLineType, ShortLists
  <2>2. PICK v \in Seq(ServerLine) : v = LeaveLines(g)
    BY LeaveLinesType
  <2>3. PICK y \in View : Leads(x, u, y) /\ Shows(y, g)
    BY <2>1, UpdateTells
  <2>4. Informed(y, v, g)
    BY <2>2, <2>3, LeaveTells
  <2>5. PICK z \in View : Leads(y, v, z) /\ (~spinning' => Shows(z, g)')
    BY <2>4 DEF Informed
  <2>6. Leads(x, u \o v, z)
    BY <2>3, <2>5, LeadsOn
  <2>7. ls = u \o v
    BY <1>2, <2>1, <2>2
  <2>. QED
    BY <2>5, <2>6, <2>7 DEF Informed
<1>. QED
  BY <1>1, <1>2 DEF GoingLines

\* What the player is told when it returns.
LEMMA BackTells ==
    ASSUME P!IInv, NEW g \in Game, Me \in Range(players[g]), NEW x \in View,
           x.client_state # "GONE"
    PROVE  \E y \in View : Leads(x, BackLines(g), y) /\ Shows(y, g)
<1>1. PICK qs \in Seq(Client) : qs = players[g]
  BY GameTypes
<1>2. PICK turn \in Client \cup {NoClient} : turn = client_on_turn[g]
  BY GameTypes
<1>3. PICK n \in Nat, w \in SUBSET Nat : n = Len(word[g]) /\ w = Known(g)
  BY GameTypes, SeqFacts, KnownType
<1>4. CASE g \in started_games
  <2>1. PICK y \in View :
              /\ Leads(x, <<[type |-> "RECONNECT", state |-> "GAME"],
                            [type |-> "QUESSED", len |-> n, positions |-> w],
                            GameLine(qs, turn)>>, y)
              /\ Sees(y, "GAME", qs) /\ SeesRound(y, n, w, turn)
    BY <1>1, ReturnTold
  <2>2. BackLines(g) = <<[type |-> "RECONNECT", state |-> "GAME"],
                         [type |-> "QUESSED", len |-> n, positions |-> w],
                         GameLine(qs, turn)>>
    BY <1>1, <1>2, <1>3, <1>4 DEF BackLines, UpdateLine
  <2>. QED
    BY <1>1, <1>2, <1>3, <1>4, <2>1, <2>2 DEF Shows
<1>5. CASE g \notin started_games
  <2>1. PICK l : l = [type |-> "RECONNECT", state |-> "LOBBY"]
    OBVIOUS
  <2>2. l \in ServerLine /\ l.type = "RECONNECT" /\ l.state = "LOBBY"
    BY <2>1 DEF ServerLine
  <2>3. Expects(x, l) /\ After(x, l) = Fresh(x, "LOBBY")
    BY <2>2 DEF Expects, After
  <2>4. qs # <<>>
    BY <1>1, EmptyList
  <2>5. PICK y \in View : Leads(x, <<l, LobbyLine(qs)>>, y) /\ Sees(y, "LOBBY", qs)
    BY <2>2, <2>3, <2>4, EntryTold
  <2>6. BackLines(g) = <<l, LobbyLine(qs)>>
    BY <1>1, <1>5, <2>1 DEF BackLines, UpdateLine
  <2>. QED
    BY <1>1, <1>5, <2>5, <2>6 DEF Shows
<1>. QED
  BY <1>4, <1>5

\* What the player is told when it joins a game.
LEMMA EntryTells ==
    ASSUME P!IInv, P!IInv', GM!JoinGame(Me), NEW g, g = game'[Me],
           NEW x \in View, x.client_state = "LOGGED"
    PROVE  /\ g \in Game /\ <<Line("ACCEPT|2"), LobbyLine(players'[g])>> \in Seq(ServerLine)
           /\ client_state'[Me] = "LOBBY" /\ ~spinning'
           /\ Informed(x, <<Line("ACCEPT|2"), LobbyLine(players'[g])>>, g)
<1>1. /\ client_state'[Me] = "LOBBY" /\ ~spinning'
  BY MeAssumption, GameTypes DEF GM!JoinGame
<1>2. /\ g \in Game /\ players'[g] \in Seq(Client) /\ Me \in Range(players'[g])
      /\ g \notin started_games'
  BY <1>1, SeatIsKnownAfter DEF SeatKnown, Seated, InGame
<1>3. PICK ps \in Seq(Client) : ps = players'[g]
  BY <1>2
<1>4. ps # <<>>
  BY <1>2, <1>3, EmptyList
<1>5. PICK l \in ServerLine : l = Line("ACCEPT|2")
  BY BareLineType
<1>6. l.type = "ACCEPT|2"
  BY <1>5 DEF Line
<1>7. Expects(x, l) /\ After(x, l) = Fresh(x, "LOBBY")
  BY <1>6 DEF Expects, After
<1>8. PICK y \in View : Leads(x, <<l, LobbyLine(ps)>>, y) /\ Sees(y, "LOBBY", ps)
  BY <1>4, <1>7, EntryTold
<1>9. Shows(y, g)'
  BY <1>2, <1>3, <1>8 DEF Shows
<1>10. <<l, LobbyLine(ps)>> \in Seq(ServerLine)
  BY UpdateLineTypes, LinesTogether
<1>. QED
  BY <1>1, <1>2, <1>3, <1>5, <1>8, <1>9, <1>10 DEF Informed

-----------------------------------------------------------------------------
(* The inductive invariant *)

\* x is what the client should know.
Agrees(x) ==
    IF client_state[Me] \in Seated THEN Shows(x, game[Me]) ELSE x.client_state = ServersView

\* x is what the client should know, if its connection has that holder.
Meets(x, holder) ==
    ~spinning =>
        /\ holder = "fresh" => x.client_state = "UNLOGGED"
        /\ holder = "player" => Agrees(x)

\* The lines that wait for the client, handled or not, are lines it expects, and lead it
\* to where the server has it.
Follows ==
    LET k == thread.client_socket IN
    clean /\ k \in Conn =>
        \E y \in View : /\ Leads(ViewOf(thread), thread.lines \o conn[k].out, y)
                        /\ Meets(y, Holder(k))

\* The client's end of the connection it has is open.
Opened == thread.client_socket \in Conn => conn[thread.client_socket].open

Following == Opened /\ Follows

\* What the server still has to tell on the connection k, which gets the holder h.
Answers(k, ls, h) ==
    \A y \in View : Meets(y, Holder(k)) => \E z \in View : Leads(y, ls, z) /\ Meets(z, h)'

-----------------------------------------------------------------------------
(* The server's steps keep it *)

\* The server has no client where it is after ERROR|1.
LEMMA NotGone ==
    ASSUME SIInv, ~spinning, NEW h \in {"fresh", "player"}, NEW x, Meets(x, h)
    PROVE  x.client_state # "GONE"
<1>1. client_state[Me] \in ClientState
  BY GameTypes, MeAssumption DEF SIInv
<1>2. ServersView # "GONE"
  BY <1>1 DEF ServersView, ClientState, InGame
<1>. QED
  BY <1>2 DEF Meets, Agrees, Shows, Sees

\* Games that stay as they are agree with what they agreed with.
LEMMA AgreesStill ==
    ASSUME UNCHANGED gameVars, NEW x
    PROVE  /\ Agrees(x)' <=> Agrees(x)
           /\ \A h : Meets(x, h)' <=> Meets(x, h)
<1>1. \A g : Shows(x, g)' <=> Shows(x, g)
  BY DEF Shows, Known, gameVars
<1>2. Agrees(x)' <=> Agrees(x)
  BY <1>1 DEF Agrees, ServersView, gameVars
<1>. QED
  BY <1>2 DEF Meets, gameVars

\* Nobody has to be told where nobody listens.
LEMMA AnswersNobody ==
    ASSUME NEW k, NEW ls, \A y \in View : Meets(y, Holder(k)) => \E z \in View : Leads(y, ls, z)
    PROVE  Answers(k, ls, "none")
BY DEF Answers, Meets

\* A step on the connection k, on which ls are sent.
LEMMA FollowedAt ==
    ASSUME SIInv, Following, UNCHANGED clientVars, ~spinning,
           NEW k \in Conn, NEW c \in Connection, conn' = [conn EXCEPT ![k] = c],
           c.open = conn[k].open, NEW h, h = c.holder,
           NEW ls \in Seq(ServerLine), conn[k].open => c.out = conn[k].out \o ls,
           Answers(k, ls, h),
           Holder(k) = "player" \/ ~Online \/ UNCHANGED gameVars
    PROVE  Following'
<1>1. conn \in [Conn -> Connection] /\ thread \in ThreadRecord
  BY DEF SIInv, Types
<1>2. thread' = thread /\ clean' = clean
  BY DEF clientVars
<1>3. conn'[k] = c /\ \A j \in Conn \ {k} : conn'[j] = conn[j]
  BY <1>1
<1>4. Opened'
  BY <1>2, <1>3 DEF Following, Opened
<1>5. ASSUME clean, thread.client_socket \in Conn
      PROVE  LET i == thread.client_socket IN
             \E y, b : /\ y \in View
                       /\ Leads(ViewOf(thread), thread.lines \o conn'[i].out, y)
                       /\ b = conn'[i].holder /\ Meets(y, b)'
  <2>1. PICK i \in Conn : i = thread.client_socket
    BY <1>5
  <2>2. PICK y \in View : /\ Leads(ViewOf(thread), thread.lines \o conn[i].out, y)
                          /\ Meets(y, Holder(i))
    BY <1>5, <2>1 DEF Following, Follows
  <2>3. CASE i = k
    <3>1. PICK z \in View : Leads(y, ls, z) /\ Meets(z, h)'
      BY <2>2, <2>3 DEF Answers
    <3>2. PICK s \in Seq(ServerLine), o \in Seq(ServerLine) : s = thread.lines /\ o = conn[k].out
      BY <1>1 DEF ThreadRecord, Connection
    <3>3. s \o o \in Seq(ServerLine) /\ (s \o o) \o ls = s \o (o \o ls)
      BY ConcatProperties, ConcatAssociative
    <3>4. Leads(ViewOf(thread), (s \o o) \o ls, z)
      BY <2>2, <2>3, <3>1, <3>2, <3>3, LeadsOn
    <3>5. conn'[k].out = o \o ls
      BY <1>3, <2>1, <2>3, <3>2 DEF Following, Opened
    <3>6. Leads(ViewOf(thread), thread.lines \o conn'[i].out, z)
      BY <2>3, <3>2, <3>3, <3>4, <3>5
    <3>7. conn'[i].holder = h
      BY <1>3, <2>3
    <3>. QED
      BY <2>1, <3>1, <3>6, <3>7
  <2>4. CASE i # k
    <3>1. conn'[i] = conn[i]
      BY <1>3, <2>4
    <3>2. PICK b : b = Holder(i)
      OBVIOUS
    <3>3. Meets(y, b)'
      <4>1. CASE UNCHANGED gameVars
        BY <2>2, <3>2, <4>1, AgreesStill
      <4>2. CASE b # "player"
        BY <2>2, <3>2, <4>2 DEF Meets
      <4>3. CASE b = "player" /\ (Holder(k) = "player" \/ ~Online)
        BY <2>4, <3>2, <4>3 DEF SIInv, Alone, Online
      <4>. QED
        BY <4>1, <4>2, <4>3
    <3>4. conn'[i].holder = b
      BY <3>1, <3>2 DEF Holder
    <3>. QED
      BY <2>1, <2>2, <3>1, <3>3, <3>4
  <2>. QED
    BY <2>3, <2>4
<1>6. Follows'
  BY <1>2, <1>5 DEF Follows, Meets, Holder
<1>. QED
  BY <1>4, <1>6 DEF Following

\* The server closes its end of k after it has sent ls.
LEMMA FollowedClosed ==
    ASSUME SIInv, Following, UNCHANGED clientVars, ~spinning,
           NEW k \in Conn, NEW c \in Connection, conn' = [conn EXCEPT ![k] = ServerClosed(c)],
           c.open = conn[k].open,
           NEW ls \in Seq(ServerLine), conn[k].open => c.out = conn[k].out \o ls,
           \A y \in View : Meets(y, Holder(k)) => \E z \in View : Leads(y, ls, z),
           Holder(k) = "player" \/ ~Online \/ UNCHANGED gameVars
    PROVE  Following'
<1>1. PICK d \in Connection : /\ d = ServerClosed(c) /\ d.holder = "none"
                              /\ d.open = c.open /\ d.out = c.out
  BY ClosedFields
<1>2. Answers(k, ls, "none")
  BY AnswersNobody
<1>. QED
  BY <1>1, <1>2, FollowedAt

\* It closes it without a word.
LEMMA FollowedSilently ==
    ASSUME SIInv, Following, UNCHANGED clientVars, ~spinning,
           NEW k \in Conn, conn' = [conn EXCEPT ![k] = ServerClosed(conn[k])],
           Holder(k) = "player" \/ UNCHANGED gameVars
    PROVE  Following'
<1>1. conn[k] \in Connection /\ conn[k].out \in Seq(ServerLine)
  BY DEF SIInv, Types, Connection
<1>2. PICK ls \in Seq(ServerLine) : ls = <<>>
  BY ShortLists
<1>3. conn[k].out = conn[k].out \o ls
  BY <1>1, <1>2, ConcatEmptySeq
<1>4. \A y \in View : \E z \in View : Leads(y, ls, z)
  BY <1>2, LeadsNowhere
<1>. QED
  BY <1>1, <1>3, <1>4, FollowedClosed

\* A connection that has read and is sent ls.
LEMMA AnsweredConnection ==
    ASSUME SIInv, NEW k \in Conn, conn[k].in # <<>>, NEW ls \in Seq(ServerLine)
    PROVE  \E c \in Connection :
              /\ c = Answered(k, ls) /\ c.open = conn[k].open /\ c.holder = Holder(k)
              /\ conn[k].open => c.out = conn[k].out \o ls
BY AnsweredFields DEF SIInv, Types, Holder

\* A fresh connection is read only if something has arrived.
LEMMA FreshReads ==
    ASSUME SIInv, NEW k \in Conn, Reads(k, 1)
    PROVE  ~spinning /\ conn[k].in # <<>>
<1>1. ~spinning /\ 1 <= Len(conn[k].in)
  BY DEF Reads
<1>2. conn[k].in \in Seq(Message)
  BY DEF SIInv, Types, Connection
<1>. QED
  BY <1>1, <1>2, EmptyList

\* LOGIN.
LEMMA LoginFollowed ==
    ASSUME SIInv, Following, UNCHANGED clientVars, NEW k \in Conn, Login(k)
    PROVE  Following'
<1>1. ~spinning /\ Holder(k) = "fresh" /\ conn[k].in # <<>>
  BY FreshReads DEF Login
<1>2. /\ Line("ACCEPT|1") \in ServerLine /\ Line("ERROR|1") \in ServerLine
      /\ <<Line("ACCEPT|1")>> \in Seq(ServerLine) /\ <<Line("ERROR|1")>> \in Seq(ServerLine)
  BY BareLineType, ShortLists
<1>3. CASE LoginNew(k)
  <2>1. PICK ls \in Seq(ServerLine) : ls = <<Line("ACCEPT|1")>>
    BY <1>2
  <2>2. PICK a \in Connection : /\ a = Answered(k, ls) /\ a.open = conn[k].open
                                /\ conn[k].open => a.out = conn[k].out \o ls
    BY <1>1, AnsweredConnection
  <2>3. PICK c \in Connection : /\ c = OfPlayer(a) /\ c.open = conn[k].open /\ c.holder = "player"
                                /\ conn[k].open => c.out = conn[k].out \o ls
    BY <2>2, OfPlayerFields
  <2>4. client_state[Me] = "UNLOGED" /\ conn' = [conn EXCEPT ![k] = c]
    BY <1>3, <2>1, <2>2, <2>3 DEF LoginNew, GM!LogIn
  <2>5. client_state'[Me] = "LOGGED"
    BY <1>3, GameTypes, MeAssumption DEF SIInv, LoginNew, GM!LogIn
  <2>6. ~Online
    BY <1>1, <2>4 DEF SIInv, Linked
  <2>7. Answers(k, ls, "player")
    <3>1. SUFFICES ASSUME NEW y \in View, Meets(y, Holder(k))
                   PROVE  \E z \in View : Leads(y, ls, z) /\ Meets(z, "player")'
      BY DEF Answers
    <3>2. y.client_state = "UNLOGGED"
      BY <1>1, <3>1 DEF Meets
    <3>3. PICK z \in View : Leads(y, ls, z) /\ z.client_state = "LOGGED"
      BY <2>1, <3>2, BareTold
    <3>4. Meets(z, "player")'
      BY <2>5, <3>3 DEF Meets, Agrees, ServersView, Seated, InGame
    <3>. QED
      BY <3>3, <3>4
  <2>. QED
    BY <1>1, <2>3, <2>4, <2>6, <2>7, FollowedAt
<1>4. CASE LoginBack(k)
  <2>1. /\ client_state[Me] # "UNLOGED" /\ ~Online /\ UNCHANGED gameVars
        /\ conn' = [conn EXCEPT ![k] = OfPlayer(Answered(k, BackLines(game[Me])))]
    BY <1>4 DEF LoginBack
  <2>2. client_state[Me] \in Seated
    BY <1>1, <2>1, GameTypes, MeAssumption DEF SIInv, Linked, ClientState, Seated, InGame
  <2>3. game[Me] \in Game /\ Me \in Range(players[game[Me]])
    BY <1>1, <2>2, SeatIsKnown DEF SIInv, SeatKnown
  <2>4. PICK ls \in Seq(ServerLine) : ls = BackLines(game[Me])
    BY <2>3, BackLinesType DEF SIInv
  <2>5. PICK a \in Connection : /\ a = Answered(k, ls) /\ a.open = conn[k].open
                                /\ conn[k].open => a.out = conn[k].out \o ls
    BY <1>1, AnsweredConnection
  <2>6. PICK c \in Connection : /\ c = OfPlayer(a) /\ c.open = conn[k].open /\ c.holder = "player"
                                /\ conn[k].open => c.out = conn[k].out \o ls
    BY <2>5, OfPlayerFields
  <2>7. conn' = [conn EXCEPT ![k] = c]
    BY <2>1, <2>4, <2>5, <2>6
  <2>8. Answers(k, ls, "player")
    <3>1. SUFFICES ASSUME NEW y \in View, Meets(y, Holder(k))
                   PROVE  \E z \in View : Leads(y, ls, z) /\ Meets(z, "player")'
      BY DEF Answers
    <3>2. y.client_state = "UNLOGGED"
      BY <1>1, <3>1 DEF Meets
    <3>3. PICK z \in View : Leads(y, ls, z) /\ Shows(z, game[Me])
      BY <2>3, <2>4, <3>2, BackTells DEF SIInv
    <3>4. Meets(z, "player")
      BY <2>2, <3>3 DEF Meets, Agrees
    <3>. QED
      BY <2>1, <3>3, <3>4, AgreesStill
  <2>. QED
    BY <1>1, <2>1, <2>6, <2>7, <2>8, FollowedAt
<1>5. CASE LoginRefused(k)
  <2>1. PICK ls \in Seq(ServerLine) : ls = <<Line("ERROR|1")>>
    BY <1>2
  <2>2. PICK a \in Connection : /\ a = Answered(k, ls) /\ a.open = conn[k].open
                                /\ conn[k].open => a.out = conn[k].out \o ls
    BY <1>1, AnsweredConnection
  <2>3. conn' = [conn EXCEPT ![k] = ServerClosed(a)] /\ UNCHANGED gameVars
    BY <1>5, <2>1, <2>2 DEF LoginRefused
  <2>4. ASSUME NEW y \in View, Meets(y, Holder(k)) PROVE \E z \in View : Leads(y, ls, z)
    BY <1>1, <2>1, <2>4, NotGone, BareTold
  <2>. QED
    BY <1>1, <2>2, <2>3, <2>4, FollowedClosed
<1>. QED
  BY <1>3, <1>4, <1>5 DEF Login

\* A wrong message, answered or not.
LEMMA WrongFollowed ==
    ASSUME SIInv, Following, UNCHANGED clientVars, ~spinning, NEW k \in Conn,
           Holder(k) = "player", NEW c \in Connection, c.holder = "player",
           c.open = conn[k].open, NEW ls \in {<<Line("ERROR")>>, <<>>},
           conn[k].open => c.out = conn[k].out \o ls, Wrong(k, c)
    PROVE  Following'
<1>1. ls \in Seq(ServerLine)
  BY BareLineType, ShortLists
<1>2. ASSUME NEW y \in View, Meets(y, Holder(k)) PROVE Leads(y, ls, y)
  BY <1>2, NotGone, BareTold, LeadsNowhere
<1>3. CASE mine.wrong_msgs + 1 >= MAX_WRONG_MSGS
  <2>1. conn' = [conn EXCEPT ![k] = ServerClosed(c)]
    BY <1>3 DEF Wrong
  <2>2. \A y \in View : Meets(y, Holder(k)) => \E z \in View : Leads(y, ls, z)
    BY <1>2
  <2>. QED
    BY <1>1, <2>1, <2>2, FollowedClosed
<1>4. CASE ~(mine.wrong_msgs + 1 >= MAX_WRONG_MSGS)
  <2>1. conn' = [conn EXCEPT ![k] = c] /\ UNCHANGED gameVars
    BY <1>4 DEF Wrong
  <2>2. Answers(k, ls, "player")
    BY <1>2, <2>1, AgreesStill DEF Answers
  <2>. QED
    BY <1>1, <2>1, <2>2, FollowedAt
<1>. QED
  BY <1>3, <1>4

\* A message that is answered with ERROR.
LEMMA ErrorFollowed ==
    ASSUME SIInv, Following, UNCHANGED clientVars, ~spinning, NEW k \in Conn,
           Holder(k) = "player", conn[k].in # <<>>, Wrong(k, Answered(k, <<Line("ERROR")>>))
    PROVE  Following'
<1>1. PICK ls \in Seq(ServerLine) : ls = <<Line("ERROR")>>
  BY BareLineType, ShortLists
<1>2. PICK c \in Connection : /\ c = Answered(k, ls) /\ c.open = conn[k].open /\ c.holder = "player"
                              /\ conn[k].open => c.out = conn[k].out \o ls
  BY AnsweredConnection
<1>. QED
  BY <1>1, <1>2, WrongFollowed

\* A message of the player that is answered with ls.
LEMMA AnswerFollowed ==
    ASSUME SIInv, Following, UNCHANGED clientVars, ~spinning, NEW k \in Conn,
           Holder(k) = "player", conn[k].in # <<>>, NEW ls \in Seq(ServerLine),
           conn' = [conn EXCEPT ![k] = Answered(k, ls)],
           \A y \in View : Agrees(y) => \E z \in View : Leads(y, ls, z) /\ (~spinning' => Agrees(z)')
    PROVE  Following'
<1>1. PICK c \in Connection : /\ c = Answered(k, ls) /\ c.open = conn[k].open /\ c.holder = "player"
                              /\ conn[k].open => c.out = conn[k].out \o ls
  BY AnsweredConnection
<1>2. Answers(k, ls, "player")
  BY DEF Answers, Meets
<1>. QED
  BY <1>1, <1>2, FollowedAt

\* JOIN.
LEMMA JoinFollowed ==
    ASSUME SIInv, Following, UNCHANGED clientVars, NEW k \in Conn, Join(k)
    PROVE  Following'
<1>1. ~spinning /\ Holder(k) = "player" /\ conn[k].in # <<>>
  BY ReceivesFacts DEF Join
<1>2. CASE client_state[Me] = "LOGGED"
  <2>1. PICK g : g = game'[Me]
    OBVIOUS
  <2>2. PICK ls : ls = <<Line("ACCEPT|2"), LobbyLine(players'[g])>>
    OBVIOUS
  <2>3. GM!JoinGame(Me) /\ conn' = [conn EXCEPT ![k] = Answered(k, ls)]
    BY <1>2, <2>1, <2>2 DEF Join
  <2>4. P!IInv /\ P!IInv'
    BY <2>3, GamesKeepIInv, MeAssumption DEF SIInv, GM!Next
  <2>5. \E y \in View : y.client_state = "LOGGED"
    <3>1. PICK s : s = [client_state |-> "LOGGED", clients |-> <<>>, number_of_clients |-> 0,
                        word_len |-> 0, word |-> {}, quess_entry |-> FALSE]
      OBVIOUS
    <3>2. s \in View
      BY <3>1, ShortLists DEF View
    <3>. QED
      BY <3>1, <3>2
  <2>6. ls \in Seq(ServerLine) /\ client_state'[Me] = "LOBBY"
    BY <2>1, <2>2, <2>3, <2>4, <2>5, EntryTells
  <2>7. ASSUME NEW y \in View, Agrees(y)
        PROVE  \E z \in View : Leads(y, ls, z) /\ (~spinning' => Agrees(z)')
    <3>1. y.client_state = "LOGGED"
      BY <1>2, <2>7 DEF Agrees, ServersView, Seated, InGame
    <3>2. Informed(y, ls, g)
      BY <2>1, <2>2, <2>3, <2>4, <3>1, EntryTells
    <3>3. PICK z \in View : Leads(y, ls, z) /\ (~spinning' => Shows(z, g)')
      BY <3>2 DEF Informed
    <3>4. ~spinning' => Agrees(z)'
      BY <2>1, <2>6, <3>3 DEF Agrees, Seated
    <3>. QED
      BY <3>3, <3>4
  <2>. QED
    BY <1>1, <2>3, <2>6, <2>7, AnswerFollowed
<1>3. CASE client_state[Me] # "LOGGED"
  BY <1>1, <1>3, ErrorFollowed DEF Join
<1>. QED
  BY <1>2, <1>3

\* A step of the game of a player who keeps its seat.
LEMMA AgreesOn ==
    ASSUME P!IInv, ~spinning, client_state[Me] \in Seated, NEW g, g = game[Me],
           game'[Me] = g, client_state'[Me] \in Seated, NEW ls,
           \A x \in View : Shows(x, g) => Informed(x, ls, g),
           NEW y \in View, Agrees(y)
    PROVE  \E z \in View : Leads(y, ls, z) /\ (~spinning' => Agrees(z)')
<1>1. Shows(y, g)
  BY DEF Agrees
<1>2. PICK z \in View : Leads(y, ls, z) /\ (~spinning' => Shows(z, g)')
  BY <1>1 DEF Informed
<1>3. ~spinning' => Agrees(z)'
  BY <1>2 DEF Agrees
<1>. QED
  BY <1>2, <1>3

\* START.
LEMMA StartFollowed ==
    ASSUME SIInv, Following, UNCHANGED clientVars, NEW k \in Conn, Start(k)
    PROVE  Following'
<1>1. ~spinning /\ Holder(k) = "player" /\ conn[k].in # <<>>
  BY ReceivesFacts DEF Start
<1>2. CASE client_state[Me] = "LOBBY" /\ Len(players[game[Me]]) >= 2
  <2>1. PICK g : g = game[Me]
    OBVIOUS
  <2>2. PICK ls : ls = StartLines(g)
    OBVIOUS
  <2>3. GM!StartGame(Me) /\ conn' = [conn EXCEPT ![k] = Answered(k, ls)]
    BY <1>2, <2>1, <2>2 DEF Start
  <2>4. P!IInv /\ P!IInv'
    BY <2>3, GamesKeepIInv, MeAssumption DEF SIInv, GM!Next
  <2>5. client_state[Me] \in Seated /\ client_state'[Me] \in Seated /\ game'[Me] = g
    BY <2>1, <2>3, RoundSteps, MeAssumption DEF SIInv
  <2>6. g \in Game
    BY <1>1, <2>1, <2>4, <2>5, SeatedHasGame, MeAssumption
  <2>7. ls \in Seq(ServerLine)
    BY <2>2, <2>4, <2>6, StartLinesType
  <2>8. \A x \in View : Shows(x, g) => Informed(x, ls, g)
    BY <2>1, <2>2, <2>3, <2>4, <2>6, StartTells, MeAssumption
  <2>9. \A y \in View : Agrees(y) =>
           \E z \in View : Leads(y, ls, z) /\ (~spinning' => Agrees(z)')
    BY <1>1, <2>1, <2>4, <2>5, <2>8, AgreesOn
  <2>. QED
    BY <1>1, <2>3, <2>7, <2>9, AnswerFollowed
<1>3. CASE ~(client_state[Me] = "LOBBY" /\ Len(players[game[Me]]) >= 2)
  BY <1>1, <1>3, ErrorFollowed DEF Start
<1>. QED
  BY <1>2, <1>3

\* QUESS.
LEMMA QuessFollowed ==
    ASSUME SIInv, Following, UNCHANGED clientVars, NEW k \in Conn, Quess(k)
    PROVE  Following'
<1>1. ~spinning /\ Holder(k) = "player" /\ conn[k].in # <<>>
  BY ReceivesFacts DEF Quess
<1>2. CASE client_state[Me] = "ON_TURN"
  <2>1. PICK g : g = game[Me]
    OBVIOUS
  <2>2. PICK ch \in Letter :
          /\ GM!Quess(Me, ch) /\ conn' = [conn EXCEPT ![k] = Answered(k, QuessLines(Me, ch))]
    BY <1>2 DEF Quess
  <2>3. PICK ls : ls = QuessLines(Me, ch)
    OBVIOUS
  <2>4. P!IInv /\ P!IInv'
    BY <2>2, GamesKeepIInv, MeAssumption DEF SIInv, GM!Next
  <2>5. client_state[Me] \in Seated /\ client_state'[Me] \in Seated /\ game'[Me] = g
    BY <2>1, <2>2, RoundSteps, MeAssumption DEF SIInv
  <2>6. g \in Game /\ Me \in Range(players[g])
    BY <1>1, <2>1, <2>4, <2>5, SeatIsKnown DEF SeatKnown
  <2>7. ls \in Seq(ServerLine)
    BY <2>1, <2>3, <2>4, <2>6, QuessLinesType, MeAssumption
  <2>8. \A x \in View : Shows(x, g) => Informed(x, ls, g)
    BY <2>1, <2>2, <2>3, <2>4, <2>6, QuessTells, MeAssumption
  <2>9. \A y \in View : Agrees(y) =>
           \E z \in View : Leads(y, ls, z) /\ (~spinning' => Agrees(z)')
    BY <1>1, <2>1, <2>4, <2>5, <2>8, AgreesOn
  <2>. QED
    BY <1>1, <2>2, <2>3, <2>7, <2>9, AnswerFollowed
<1>3. CASE client_state[Me] # "ON_TURN"
  BY <1>1, <1>3, ErrorFollowed DEF Quess
<1>. QED
  BY <1>2, <1>3

\* PONG.
LEMMA PongFollowed ==
    ASSUME SIInv, Following, UNCHANGED clientVars, NEW k \in Conn, Pong(k)
    PROVE  Following'
<1>1. ~spinning /\ Holder(k) = "player" /\ conn[k].in # <<>>
  BY ReceivesFacts DEF Pong
<1>2. PICK ls \in Seq(ServerLine) : ls = <<>>
  BY ShortLists
<1>3. UNCHANGED gameVars /\ conn' = [conn EXCEPT ![k] = Answered(k, ls)]
  BY <1>2 DEF Pong
<1>4. \A y \in View : Agrees(y) => Leads(y, ls, y) /\ Agrees(y)'
  BY <1>2, <1>3, AgreesStill, LeadsNowhere
<1>. QED
  BY <1>1, <1>3, <1>4, AnswerFollowed

\* PONG before LOGIN.
LEMMA PongFreshFollowed ==
    ASSUME SIInv, Following, UNCHANGED clientVars, NEW k \in Conn, PongFresh(k)
    PROVE  Following'
<1>1. ~spinning /\ Holder(k) = "fresh" /\ conn[k].in # <<>> /\ UNCHANGED gameVars
  BY FreshReads DEF PongFresh
<1>2. PICK ls \in Seq(ServerLine) : ls = <<>>
  BY ShortLists
<1>3. PICK a \in Connection : /\ a = Answered(k, ls) /\ a.open = conn[k].open /\ a.holder = Holder(k)
                              /\ conn[k].open => a.out = conn[k].out \o ls
  BY <1>1, AnsweredConnection
<1>4. PICK c : c = [a EXCEPT !.didPingedBack = TRUE]
  OBVIOUS
<1>5. /\ c \in Connection /\ c.open = conn[k].open /\ c.holder = "fresh"
      /\ conn[k].open => c.out = conn[k].out \o ls
  BY <1>1, <1>3, <1>4 DEF Connection
<1>6. conn' = [conn EXCEPT ![k] = c]
  BY <1>2, <1>3, <1>4 DEF PongFresh
<1>7. Answers(k, ls, "fresh")
  BY <1>1, <1>2, AgreesStill, LeadsNowhere DEF Answers
<1>. QED
  BY <1>1, <1>5, <1>6, <1>7, FollowedAt

\* Messages read as one.
LEMMA MergedFollowed ==
    ASSUME SIInv, Following, UNCHANGED clientVars, NEW k \in Conn, Merged(k)
    PROVE  Following'
<1>1. conn[k] \in Connection /\ conn[k].in \in Seq(Message)
  BY DEF SIInv, Types, Connection
<1>2. PICK n \in 2..Len(conn[k].in), answer \in {<<Line("ERROR")>>, <<>>} :
        /\ Reads(k, n) /\ Holder(k) = "player"
        /\ Wrong(k, Sent([conn[k] EXCEPT !.in = SubSeq(@, n + 1, Len(@))], answer))
  BY DEF Merged
<1>3. ~spinning /\ answer \in Seq(ServerLine)
  BY <1>2, BareLineType, ShortLists DEF Reads
<1>4. PICK ms : ms = SubSeq(conn[k].in, n + 1, Len(conn[k].in))
  OBVIOUS
<1>5. ms \in Seq(Message)
  <2>1. n \in 0..Len(conn[k].in)
    BY <1>1, <1>2, SeqFacts
  <2>. QED
    BY <1>1, <1>4, <2>1, PartsOfList
<1>6. PICK r \in Connection : /\ r = [conn[k] EXCEPT !.in = ms] /\ r.holder = conn[k].holder
                              /\ r.open = conn[k].open /\ r.out = conn[k].out
  BY <1>1, <1>5, ReadFields
<1>7. PICK c \in Connection : /\ c = Sent(r, answer) /\ c.holder = "player"
                              /\ c.open = conn[k].open
                              /\ conn[k].open => c.out = conn[k].out \o answer
  <2>1. PICK ls \in Seq(ServerLine) : ls = answer
    BY <1>3
  <2>2. /\ Sent(r, ls) \in Connection /\ Sent(r, ls).holder = r.holder
        /\ Sent(r, ls).open = r.open
        /\ r.open => Sent(r, ls).out = r.out \o ls
    BY SentFields
  <2>. QED
    BY <1>2, <1>6, <2>1, <2>2 DEF Holder
<1>8. Wrong(k, c)
  BY <1>2, <1>4, <1>6, <1>7
<1>. QED
  BY <1>2, <1>3, <1>7, <1>8, WrongFollowed

\* The end of the connection, and the ping round.
LEMMA RestFollowed ==
    ASSUME SIInv, Following, UNCHANGED clientVars, NEW k \in Conn,
           Eof(k) \/ PingFresh(k) \/ PingAnswered(k) \/ PingMissed(k)
    PROVE  Following'
<1>1. conn[k] \in Connection /\ conn[k].out \in Seq(ServerLine)
  BY DEF SIInv, Types, Connection
<1>2. PICK ls \in Seq(ServerLine) : ls = <<PingLine>>
  BY BareLineType, ShortLists DEF PingLine
<1>3. CASE Eof(k)
  <2>1. ~spinning /\ conn' = [conn EXCEPT ![k] = ServerClosed(conn[k])]
    BY <1>3 DEF Eof
  <2>2. Holder(k) = "player" \/ UNCHANGED gameVars
    BY <1>3 DEF Eof
  <2>. QED
    BY <2>1, <2>2, FollowedSilently
<1>4. CASE PingFresh(k)
  <2>1. ~spinning /\ Holder(k) = "fresh" /\ UNCHANGED gameVars
    BY <1>4 DEF PingFresh
  <2>2. CASE conn[k].didPingedBack
    <3>1. PICK r : r = [conn[k] EXCEPT !.didPingedBack = FALSE]
      OBVIOUS
    <3>2. /\ r \in Connection /\ r.holder = conn[k].holder /\ r.open = conn[k].open
          /\ r.in = conn[k].in /\ r.out = conn[k].out
      BY <1>1, <3>1 DEF Connection
    <3>3. PICK c \in Connection : /\ c = Sent(r, ls) /\ c.holder = "fresh" /\ c.open = conn[k].open
                                  /\ c.in = conn[k].in
                                  /\ conn[k].open => c.out = conn[k].out \o ls
      <4>1. /\ Sent(r, ls) \in Connection /\ Sent(r, ls).holder = r.holder
            /\ Sent(r, ls).open = r.open /\ Sent(r, ls).in = r.in
            /\ r.open => Sent(r, ls).out = r.out \o ls
        BY <1>2, <3>2, SentFields
      <4>. QED
        BY <2>1, <3>2, <4>1 DEF Holder
    <3>4. conn' = [conn EXCEPT ![k] = c]
      BY <1>2, <1>4, <2>2, <3>1, <3>3 DEF PingFresh
    <3>5. Answers(k, ls, "fresh")
      BY <1>2, <2>1, NotGone, BareTold, AgreesStill DEF Answers
    <3>. QED
      BY <2>1, <3>3, <3>4, <3>5, FollowedAt
  <2>3. CASE ~conn[k].didPingedBack
    <3>1. conn' = [conn EXCEPT ![k] = ServerClosed(conn[k])]
      BY <1>4, <2>3 DEF PingFresh
    <3>. QED
      BY <2>1, <3>1, FollowedSilently
  <2>. QED
    BY <2>2, <2>3
<1>5. CASE PingAnswered(k)
  <2>1. ~spinning /\ Holder(k) = "player" /\ UNCHANGED gameVars
    BY <1>5 DEF PingAnswered
  <2>2. PICK c \in Connection : /\ c = Sent(conn[k], ls) /\ c.holder = "player"
                                /\ c.open = conn[k].open
                                /\ conn[k].open => c.out = conn[k].out \o ls
    <3>1. /\ Sent(conn[k], ls) \in Connection /\ Sent(conn[k], ls).holder = conn[k].holder
          /\ Sent(conn[k], ls).open = conn[k].open
          /\ conn[k].open => Sent(conn[k], ls).out = conn[k].out \o ls
      BY <1>1, <1>2, SentFields
    <3>. QED
      BY <2>1, <3>1 DEF Holder
  <2>3. conn' = [conn EXCEPT ![k] = c]
    BY <1>2, <1>5, <2>2 DEF PingAnswered
  <2>4. Answers(k, ls, "player")
    BY <1>2, <2>1, NotGone, BareTold, AgreesStill DEF Answers
  <2>. QED
    BY <2>1, <2>2, <2>3, <2>4, FollowedAt
<1>6. CASE PingMissed(k)
  <2>1. /\ ~spinning /\ Holder(k) = "player"
        /\ conn' = [conn EXCEPT ![k] = ServerClosed(conn[k])]
    BY <1>6 DEF PingMissed
  <2>. QED
    BY <2>1, FollowedSilently
<1>. QED
  BY <1>3, <1>4, <1>5, <1>6

\* The ping round while the player is away.
LEMMA OfflineFollowed ==
    ASSUME SIInv, Following, UNCHANGED clientVars, PingOffline
    PROVE  Following'
<1>1. ~spinning /\ ~Online /\ conn' = conn /\ thread' = thread /\ clean' = clean
  BY DEF PingOffline, clientVars
<1>2. Opened'
  BY <1>1 DEF Following, Opened
<1>3. ASSUME clean, thread.client_socket \in Conn
      PROVE  \E y, b : /\ y \in View
                       /\ Leads(ViewOf(thread),
                                thread.lines \o conn[thread.client_socket].out, y)
                       /\ b = conn[thread.client_socket].holder /\ Meets(y, b)'
  <2>1. PICK i \in Conn : i = thread.client_socket
    BY <1>3
  <2>2. PICK y, b : /\ y \in View
                    /\ Leads(ViewOf(thread), thread.lines \o conn[i].out, y)
                    /\ Meets(y, b) /\ b = Holder(i)
    BY <1>3, <2>1 DEF Following, Follows
  <2>3. b # "player"
    BY <1>1, <2>2 DEF Online
  <2>4. Meets(y, b)'
    BY <1>1, <2>2, <2>3 DEF Meets
  <2>. QED
    BY <2>1, <2>2, <2>4 DEF Holder
<1>4. Follows'
  BY <1>1, <1>3 DEF Follows, Meets, Holder
<1>. QED
  BY <1>2, <1>4 DEF Following

\* Every step of the server.
LEMMA ServerFollowed ==
    ASSUME SIInv, Following, Server
    PROVE  Following'
<1>1. UNCHANGED clientVars
  BY DEF Server
<1>. QED
  BY <1>1, LoginFollowed, JoinFollowed, StartFollowed, QuessFollowed, PongFollowed,
     PongFreshFollowed, MergedFollowed, RestFollowed, OfflineFollowed DEF Server

-----------------------------------------------------------------------------
(* The steps of the others keep it *)

\* A step of another player, who tells ls to the game g.
LEMMA FollowedTold ==
    ASSUME SIInv, Following, UNCHANGED clientVars, ~spinning, NEW g, NEW ls, Tell(g, ls),
           g \in Game \/ ls = <<>>, g \in Game => ls \in Seq(ServerLine),
           NEW told, told = (IF g # NoGame /\ game[Me] = g THEN ls ELSE <<>>),
           \A y \in View : Agrees(y) => \E z \in View : Leads(y, told, z) /\ (~spinning' => Agrees(z)')
    PROVE  Following'
<1>1. conn \in [Conn -> Connection] /\ thread \in ThreadRecord
  BY DEF SIInv, Types
<1>2. thread' = thread /\ clean' = clean
  BY DEF clientVars
<1>3. ls \in Seq(ServerLine) /\ told \in Seq(ServerLine)
  BY ShortLists
<1>4. ASSUME NEW j \in Conn
      PROVE  /\ conn'[j].holder = conn[j].holder /\ conn'[j].open = conn[j].open
             /\ conn'[j].in = conn[j].in
             /\ Holder(j) # "player" => conn'[j] = conn[j]
             /\ Holder(j) = "player" /\ conn[j].open => conn'[j].out = conn[j].out \o told
  <2>1. conn[j] \in Connection /\ conn[j].out \in Seq(ServerLine)
    BY <1>1 DEF Connection
  <2>2. CASE Holder(j) = "player" /\ g # NoGame /\ game[Me] = g
    <3>1. conn'[j] = Sent(conn[j], ls) /\ told = ls
      BY <2>2 DEF Tell
    <3>2. /\ Sent(conn[j], ls).holder = conn[j].holder /\ Sent(conn[j], ls).open = conn[j].open
          /\ Sent(conn[j], ls).in = conn[j].in
          /\ conn[j].open => Sent(conn[j], ls).out = conn[j].out \o ls
      BY <1>3, <2>1, SentFields
    <3>. QED
      BY <2>2, <3>1, <3>2
  <2>3. CASE ~(Holder(j) = "player" /\ g # NoGame /\ game[Me] = g)
    <3>1. conn'[j] = conn[j]
      BY <2>3 DEF Tell
    <3>2. conn[j].out \o <<>> = conn[j].out
      BY <2>1, ConcatEmptySeq
    <3>. QED
      BY <2>3, <3>1, <3>2
  <2>. QED
    BY <2>2, <2>3
<1>5. Opened'
  BY <1>2, <1>4 DEF Following, Opened
<1>6. ASSUME clean, thread.client_socket \in Conn
      PROVE  LET i == thread.client_socket IN
             \E y, b : /\ y \in View
                       /\ Leads(ViewOf(thread), thread.lines \o conn'[i].out, y)
                       /\ b = conn'[i].holder /\ Meets(y, b)'
  <2>1. PICK i \in Conn : i = thread.client_socket
    BY <1>6
  <2>2. PICK y, b : /\ y \in View
                    /\ Leads(ViewOf(thread), thread.lines \o conn[i].out, y)
                    /\ b = Holder(i) /\ Meets(y, b)
    BY <1>6, <2>1 DEF Following, Follows
  <2>3. conn'[i].holder = b
    BY <1>4, <2>2 DEF Holder
  <2>4. CASE b = "player"
    <3>1. PICK z \in View : Leads(y, told, z) /\ (~spinning' => Agrees(z)')
      BY <2>2, <2>4 DEF Meets
    <3>2. PICK s \in Seq(ServerLine), o \in Seq(ServerLine) : s = thread.lines /\ o = conn[i].out
      BY <1>1 DEF ThreadRecord, Connection
    <3>3. s \o o \in Seq(ServerLine) /\ (s \o o) \o told = s \o (o \o told)
      <4>1. PICK d \in Seq(ServerLine) : d = told
        BY <1>3
      <4>2. (s \o o) \o d = s \o (o \o d)
        BY ConcatAssociative
      <4>. QED
        BY <4>1, <4>2, ConcatProperties
    <3>4. Leads(ViewOf(thread), (s \o o) \o told, z)
      BY <1>3, <2>2, <3>1, <3>2, <3>3, LeadsOn
    <3>5. conn'[i].out = o \o told
      BY <1>4, <2>1, <2>2, <2>4, <3>2 DEF Following, Opened
    <3>6. Leads(ViewOf(thread), thread.lines \o conn'[i].out, z)
      BY <3>2, <3>3, <3>4, <3>5
    <3>7. Meets(z, b)'
      BY <2>4, <3>1 DEF Meets
    <3>. QED
      BY <2>1, <2>3, <3>6, <3>7
  <2>5. CASE b # "player"
    <3>1. conn'[i] = conn[i]
      BY <1>4, <2>2, <2>5
    <3>2. Meets(y, b)'
      BY <2>2, <2>5 DEF Meets
    <3>. QED
      BY <2>1, <2>2, <2>3, <3>1, <3>2
  <2>. QED
    BY <2>4, <2>5
<1>7. Follows'
  BY <1>2, <1>6 DEF Follows, Meets, Holder
<1>. QED
  BY <1>5, <1>7 DEF Following

\* A player without a seat is told nothing.
LEMMA UnseatedTold ==
    ASSUME SIInv, ~spinning, client_state[Me] \notin Seated,
           client_state'[Me] = client_state[Me]
    PROVE  /\ game[Me] = NoGame
           /\ \A y \in View : Agrees(y) =>
                 \E z \in View : Leads(y, <<>>, z) /\ (~spinning' => Agrees(z)')
<1>1. game[Me] = NoGame
  BY DEF SIInv, Linked
<1>2. \A y : Agrees(y) => Agrees(y)'
  BY DEF Agrees, ServersView
<1>. QED
  BY <1>1, <1>2, LeadsNowhere

\* A player who keeps its seat, or has none, is told what concerns its game.
LEMMA TellFollowed ==
    ASSUME SIInv, Following, UNCHANGED clientVars, ~spinning, game'[Me] = game[Me],
           \/ client_state'[Me] = client_state[Me]
           \/ client_state[Me] \in Seated /\ client_state'[Me] \in Seated,
           NEW h, NEW ls, Tell(h, ls), h \in Game \/ ls = <<>>,
           h \in Game => ls \in Seq(ServerLine),
           \A g \in Game : Me \in Range(players[g]) => \A x \in View : Shows(x, g) =>
              /\ h = g => Informed(x, ls, g)
              /\ h # g /\ ~spinning' => Shows(x, g)'
    PROVE  Following'
<1>1. PICK told : told = IF h # NoGame /\ game[Me] = h THEN ls ELSE <<>>
  OBVIOUS
<1>2. \A y \in View : Agrees(y) =>
         \E z \in View : Leads(y, told, z) /\ (~spinning' => Agrees(z)')
  <2>1. CASE client_state[Me] \notin Seated
    <3>1. told = <<>>
      BY <1>1, <2>1 DEF SIInv, Linked
    <3>. QED
      BY <2>1, <3>1, UnseatedTold
  <2>2. CASE client_state[Me] \in Seated
    <3>1. P!IInv
      BY DEF SIInv
    <3>2. PICK g \in Game : g = game[Me] /\ Me \in Range(players[g]) /\ g # NoGame
      BY <2>2, <3>1, SeatIsKnown, GamesAssumption DEF SeatKnown
    <3>3. ASSUME NEW x \in View, Shows(x, g) PROVE Informed(x, told, g)
      <4>1. CASE h = g
        <5>1. told = ls
          BY <1>1, <3>2, <4>1
        <5>. QED
          BY <3>2, <3>3, <4>1, <5>1
      <4>2. CASE h # g
        <5>1. told = <<>>
          BY <1>1, <3>2, <4>2
        <5>2. ~spinning' => Shows(x, g)'
          BY <3>2, <3>3, <4>2
        <5>. QED
          BY <5>1, <5>2, LeadsNowhere DEF Informed
      <4>. QED
        BY <4>1, <4>2
    <3>4. client_state'[Me] \in Seated /\ game'[Me] = g
      BY <2>2, <3>2
    <3>. QED
      BY <2>2, <3>1, <3>2, <3>3, <3>4, AgreesOn
  <2>. QED
    BY <2>1, <2>2
<1>. QED
  BY <1>1, <1>2, FollowedTold

\* Who is there or away changes nothing in the games.
LEMMA FlapsFollowed ==
    ASSUME SIInv, Following, UNCHANGED clientVars, NEW c \in Client \ {Me}, OtherFlaps(c)
    PROVE  Following'
<1>1. PICK h, ls : h = game[c] /\ ls = <<UpdateLine(h)>>
  OBVIOUS
<1>2. ~spinning /\ Tell(h, ls) /\ UNCHANGED gameVars
  BY <1>1 DEF OtherFlaps
<1>3. P!IInv /\ h \in Game /\ ls \in Seq(ServerLine)
  <2>1. P!IInv /\ h \in Game
    BY <1>1, <1>2, SeatedHasGame DEF OtherFlaps, SIInv
  <2>. QED
    BY <1>1, <2>1, UpdateLineType, ShortLists
<1>4. game'[Me] = game[Me] /\ client_state'[Me] = client_state[Me]
  BY <1>2 DEF gameVars
<1>5. ASSUME NEW g \in Game, Me \in Range(players[g]), NEW x \in View, Shows(x, g)
      PROVE  /\ h = g => Informed(x, ls, g)
             /\ h # g /\ ~spinning' => Shows(x, g)'
  <2>1. \A y : Shows(y, g) => Shows(y, g)'
    BY <1>2, QuietGame DEF gameVars
  <2>2. ASSUME h = g PROVE Informed(x, ls, g)
    <3>1. PICK y \in View : Leads(x, ls, y) /\ Shows(y, g)
      BY <1>1, <1>3, <1>5, <2>2, UpdateTells
    <3>. QED
      BY <2>1, <3>1 DEF Informed
  <2>. QED
    BY <1>5, <2>1, <2>2
<1>. QED
  BY <1>2, <1>3, <1>4, <1>5, TellFollowed

\* What another player does in the games, and tells.
LEMMA OthersFollowed ==
    ASSUME SIInv, Following, UNCHANGED clientVars, NEW c \in Client \ {Me}, OtherSteps(c)
    PROVE  Following'
<1>1. \/ GM!LogIn(c) /\ UNCHANGED conn
      \/ GM!JoinGame(c) \/ GM!StartGame(c)
      \/ (\E ch \in Letter : GM!Quess(c, ch)) \/ GM!Leave(c)
  BY DEF OtherSteps
<1>2. /\ P!IInv /\ ~spinning /\ P!IInv'
      /\ game'[Me] = game[Me]
      /\ \/ client_state'[Me] = client_state[Me]
         \/ client_state[Me] \in Seated /\ client_state'[Me] \in Seated
  BY <1>1, OthersLeaveMeAlone DEF SIInv
<1>3. game[c] \in Game \cup {NoGame} /\ NoGame \notin Game
  BY <1>2, GameTypes, GamesAssumption
<1>4. ASSUME NEW h, NEW ls, Tell(h, ls),
             h \in Game \/ ls = <<>>, h \in Game => ls \in Seq(ServerLine),
             \A g \in Game : Me \in Range(players[g]) => \A x \in View : Shows(x, g) =>
                /\ h = g => Informed(x, ls, g)
                /\ h # g /\ ~spinning' => Shows(x, g)'
      PROVE  Following'
  BY <1>2, <1>4, TellFollowed
<1>5. ASSUME UNCHANGED conn,
             \A g \in Game : Me \in Range(players[g]) => \A x \in View :
                Shows(x, g) /\ ~spinning' => Shows(x, g)'
      PROVE  Following'
  <2>1. PICK h, ls : h = NoGame /\ ls = <<>>
    OBVIOUS
  <2>2. Tell(h, ls)
    <3>1. conn = [j \in Conn |-> conn[j]]
      BY DEF SIInv, Types
    <3>. QED
      BY <1>5, <2>1, <3>1 DEF Tell
  <2>. QED
    BY <1>3, <1>4, <1>5, <2>1, <2>2
<1>6. CASE GM!JoinGame(c) /\ Tell(game'[c], <<LobbyLine(players'[game'[c]])>>)
  <2>1. PICK h \in Game : h = game'[c]
    BY <1>2, <1>6, GameTypes DEF GM!JoinGame
  <2>2. PICK ls : ls = <<LobbyLine(players'[h])>>
    OBVIOUS
  <2>3. ls \in Seq(ServerLine)
    BY <1>2, <2>1, <2>2, GameTypesAfter, UpdateLineTypes, ShortLists
  <2>4. ASSUME NEW g \in Game, Me \in Range(players[g]), NEW x \in View, Shows(x, g)
        PROVE  /\ h = g => Informed(x, ls, g)
               /\ h # g /\ ~spinning' => Shows(x, g)'
    BY <1>2, <1>6, <2>1, <2>2, <2>4, JoinTells
  <2>. QED
    BY <1>4, <1>6, <2>1, <2>2, <2>3, <2>4
<1>7. CASE GM!StartGame(c) /\ Tell(game[c], StartLines(game[c]))
  <2>1. PICK h \in Game : h = game[c]
    BY <1>2, <1>7, RoundSteps, SeatedHasGame
  <2>2. PICK ls : ls = StartLines(h)
    OBVIOUS
  <2>3. ls \in Seq(ServerLine)
    BY <1>2, <2>1, <2>2, StartLinesType
  <2>4. ASSUME NEW g \in Game, Me \in Range(players[g]), NEW x \in View, Shows(x, g)
        PROVE  /\ h = g => Informed(x, ls, g)
               /\ h # g /\ ~spinning' => Shows(x, g)'
    BY <1>2, <1>7, <2>1, <2>2, <2>4, StartTells
  <2>. QED
    BY <1>4, <1>7, <2>1, <2>2, <2>3, <2>4
<1>8. ASSUME NEW ch \in Letter, GM!Quess(c, ch), Tell(game[c], QuessLines(c, ch))
      PROVE  Following'
  <2>1. PICK h \in Game : h = game[c]
    BY <1>2, <1>8, RoundSteps, SeatedHasGame
  <2>2. PICK ls : ls = QuessLines(c, ch)
    OBVIOUS
  <2>3. ls \in Seq(ServerLine)
    BY <1>2, <2>1, <2>2, QuessLinesType
  <2>4. ASSUME NEW g \in Game, Me \in Range(players[g]), NEW x \in View, Shows(x, g)
        PROVE  /\ h = g => Informed(x, ls, g)
               /\ h # g /\ ~spinning' => Shows(x, g)'
    BY <1>2, <1>8, <2>1, <2>2, <2>4, QuessTells
  <2>. QED
    BY <1>4, <1>8, <2>1, <2>2, <2>3, <2>4
<1>9. CASE GM!LogIn(c) /\ UNCHANGED conn
  <2>1. /\ players' = players /\ word' = word /\ quessed_chars' = quessed_chars
        /\ client_on_turn' = client_on_turn /\ started_games' = started_games
    BY <1>9 DEF GM!LogIn, GM!roundVars, GM!listVars
  <2>2. \A g \in Game : \A x \in View : Shows(x, g) => Shows(x, g)'
    BY <2>1, QuietGame
  <2>. QED
    BY <1>5, <1>9, <2>2
<1>10. CASE GM!Leave(c) /\ game[c] = NoGame /\ UNCHANGED conn
  <2>1. ASSUME NEW g \in Game, Me \in Range(players[g]), NEW x \in View, Shows(x, g), ~spinning'
        PROVE  Shows(x, g)'
    BY <1>2, <1>3, <1>10, <2>1, LeaveTells
  <2>. QED
    BY <1>5, <1>10, <2>1
<1>11. ASSUME GM!Leave(c), game[c] # NoGame, NEW ls \in GoingLines(game[c]), Tell(game[c], ls)
       PROVE  Following'
  <2>1. PICK h \in Game : h = game[c]
    BY <1>3, <1>11
  <2>2. ls \in Seq(ServerLine)
    BY <1>2, <1>11, <2>1, GoingLinesType
  <2>3. ASSUME NEW g \in Game, Me \in Range(players[g]), NEW x \in View, Shows(x, g)
        PROVE  /\ h = g => Informed(x, ls, g)
               /\ h # g /\ ~spinning' => Shows(x, g)'
    BY <1>2, <1>11, <2>1, <2>3, GoingTells, LeaveTells
  <2>. QED
    BY <1>4, <1>11, <2>1, <2>2, <2>3
<1>. QED
  BY <1>6, <1>7, <1>8, <1>9, <1>10, <1>11 DEF OtherSteps

\* Every step of another player.
LEMMA OtherFollowed ==
    ASSUME SIInv, Following, Other
    PROVE  Following'
<1>1. UNCHANGED clientVars
  BY DEF Other
<1>. QED
  BY <1>1, FlapsFollowed, OthersFollowed DEF Other

-----------------------------------------------------------------------------
(* The steps of the thread keep it *)

\* The first of the lines that wait.
LEMMA LineReached ==
    ASSUME NEW s \in Seq(ServerLine), s # <<>>, NEW r \in Seq(ServerLine),
           NEW x, NEW y, Leads(x, s \o r, y)
    PROVE  /\ x \in View /\ Head(s) \in ServerLine /\ Expects(x, Head(s))
           /\ Leads(After(x, Head(s)), Tail(s) \o r, y)
<1>1. PICK e \in ServerLine, u \in Seq(ServerLine) : e = Head(s) /\ u = Tail(s)
  BY HeadTailProperties
<1>2. PICK m \in Nat, n \in Nat : m + 1 = Len(s) /\ n = Len(r)
  <2>1. Len(s) \in Nat /\ Len(s) # 0 /\ Len(r) \in Nat
    BY SeqFacts, EmptyList
  <2>2. \A k \in Nat : k # 0 => k - 1 \in Nat /\ (k - 1) + 1 = k
    OBVIOUS
  <2>. QED
    BY <2>1, <2>2
<1>3. Len(u) = m /\ e = s[1] /\ \A i \in 1..m : u[i] = s[i + 1]
  BY <1>1, <1>2, HeadTailProperties
<1>4. PICK w \in Seq(ServerLine) : w = s \o r
  BY ConcatProperties
<1>5. /\ Len(w) = (m + 1) + n
      /\ \A i \in 1..((m + 1) + n) : w[i] = IF i <= m + 1 THEN s[i] ELSE r[i - (m + 1)]
  <2>1. /\ Len(w) = Len(s) + Len(r)
        /\ \A i \in 1..(Len(s) + Len(r)) : w[i] = IF i <= Len(s) THEN s[i] ELSE r[i - Len(s)]
    BY <1>4, ConcatProperties, Zenon
  <2>. QED
    BY <1>2, <2>1
<1>6. w # <<>>
  BY <1>5, EmptyList
<1>7. PICK t \in Seq(ServerLine) : t = Tail(w)
  BY <1>6, HeadTailProperties
<1>8. Head(w) = w[1] /\ Len(t) = m + n /\ \A i \in 1..(m + n) : t[i] = w[i + 1]
  BY <1>5, <1>6, <1>7, HeadTailProperties
<1>9. Head(w) = e
  BY <1>3, <1>5, <1>8
<1>10. PICK v \in Seq(ServerLine) : v = u \o r
  BY ConcatProperties
<1>11. /\ Len(v) = m + n
       /\ \A i \in 1..(m + n) : v[i] = IF i <= m THEN u[i] ELSE r[i - m]
  <2>1. /\ Len(v) = Len(u) + Len(r)
        /\ \A i \in 1..(Len(u) + Len(r)) : v[i] = IF i <= Len(u) THEN u[i] ELSE r[i - Len(u)]
    BY <1>10, ConcatProperties, Zenon
  <2>. QED
    BY <1>2, <1>3, <2>1
<1>12. ASSUME NEW i \in 1..(m + n) PROVE t[i] = v[i]
  <2>1. /\ i + 1 \in 1..((m + 1) + n) /\ (i + 1 <= m + 1 <=> i <= m)
        /\ (i + 1) - (m + 1) = i - m /\ (i <= m => i \in 1..m)
    OBVIOUS
  <2>. QED
    BY <1>3, <1>5, <1>8, <1>11, <2>1
<1>13. t = v
  BY <1>8, <1>11, <1>12, SeqEqual
<1>. QED
  BY <1>1, <1>4, <1>6, <1>7, <1>9, <1>10, <1>13, LeadsFirst

\* The thread goes on with its connection: what leads it on from the lines that wait
\* there leads it on afterwards.
LEMMA GoesOnFollowed ==
    ASSUME SIInv, Following, UNCHANGED serverVars, NEW t, NEW cs, Goes(t, cs),
           t.client_socket = thread.client_socket, cs \in [Conn -> Connection],
           \A j \in Conn : cs[j].holder = conn[j].holder /\ cs[j].open = conn[j].open,
           NEW k, k = thread.client_socket,
           clean /\ k \in Conn => \A y \in View :
              Leads(ViewOf(thread), thread.lines \o conn[k].out, y) =>
                 Leads(ViewOf(t), t.lines \o cs[k].out, y)
    PROVE  Following'
<1>1. thread' = t /\ clean' = clean
  BY DEF Goes
<1>2. \A j \in Conn : conn'[j] = cs[j]
  BY DEF Goes
<1>3. UNCHANGED gameVars
  BY DEF serverVars
<1>4. Opened'
  BY <1>1, <1>2 DEF Following, Opened
<1>5. ASSUME clean, k \in Conn
      PROVE  \E y, b : /\ y \in View
                       /\ Leads(ViewOf(t), t.lines \o conn'[k].out, y)
                       /\ b = conn'[k].holder /\ Meets(y, b)'
  <2>1. PICK y, b : /\ y \in View
                    /\ Leads(ViewOf(thread), thread.lines \o conn[k].out, y)
                    /\ b = conn[k].holder /\ Meets(y, b)
    BY <1>5 DEF Following, Follows, Holder
  <2>2. Meets(y, b)'
    BY <1>3, <2>1, AgreesStill
  <2>. QED
    BY <1>2, <1>5, <2>1, <2>2
<1>6. Follows'
  BY <1>1, <1>5 DEF Follows, Meets, Holder
<1>. QED
  BY <1>4, <1>6 DEF Following

\* Without a connection it waits for nothing.
LEMMA GoesAwayFollowed ==
    ASSUME NEW t, Goes(t, conn), t.client_socket \notin Conn
    PROVE  Following'
<1>1. thread' = t
  BY DEF Goes
<1>. QED
  BY <1>1 DEF Following, Opened, Follows

\* On a new connection no line waits, and the server has no name for it.
LEMMA OpensFollowed ==
    ASSUME SIInv, Following, NEW t \in ThreadRecord, NEW c \in Connection, c.holder = "fresh",
           c.open, c.out = <<>>, Opens(t, c)
    PROVE  Following'
<1>1. PICK k \in Conn :
        /\ ~conn[k].open
        /\ Goes([t EXCEPT !.connected = TRUE, !.client_socket = k], [conn EXCEPT ![k] = c])
  BY DEF Opens
<1>2. PICK u : u = [t EXCEPT !.connected = TRUE, !.client_socket = k]
  OBVIOUS
<1>3. u \in ThreadRecord /\ u.client_socket = k
  BY <1>2 DEF ThreadRecord
<1>4. k # thread.client_socket
  BY <1>1 DEF Following, Opened
<1>5. thread' = u /\ clean' = (u.lines = <<>> /\ u.client_state = "UNLOGGED")
  BY <1>1, <1>2, <1>3, <1>4 DEF Goes
<1>6. conn'[k] = c
  <2>1. PICK cs : cs = [conn EXCEPT ![k] = c]
    OBVIOUS
  <2>2. cs[k] = c
    BY <2>1 DEF SIInv, Types
  <2>3. Goes(u, cs)
    BY <1>1, <1>2, <2>1
  <2>. QED
    BY <1>4, <2>2, <2>3 DEF Goes
<1>7. Opened'
  BY <1>3, <1>5, <1>6 DEF Opened
<1>8. ASSUME u.lines = <<>>, u.client_state = "UNLOGGED"
      PROVE  \E y, b : /\ y \in View
                       /\ Leads(ViewOf(u), u.lines \o conn'[k].out, y)
                       /\ b = conn'[k].holder /\ Meets(y, b)'
  <2>1. PICK y \in View : y = ViewOf(u)
    BY <1>3, ViewType
  <2>2. y.client_state = "UNLOGGED"
    BY <1>8, <2>1 DEF ViewOf
  <2>3. PICK b : b = "fresh"
    OBVIOUS
  <2>4. Meets(y, b)'
    BY <2>2, <2>3 DEF Meets
  <2>5. u.lines \o conn'[k].out = <<>>
    BY <1>6, <1>8, ShortLists, ConcatEmptySeq
  <2>. QED
    BY <1>6, <2>1, <2>3, <2>4, <2>5, LeadsNowhere
<1>9. Follows'
  BY <1>3, <1>5, <1>8 DEF Follows, Meets, Holder
<1>. QED
  BY <1>7, <1>9 DEF Following

\* A connection is made, or not, or not to any use.
LEMMA ConnectsFollowed ==
    ASSUME SIInv, Following, NEW t \in ThreadRecord, Connects(t) \/ FailsToConnect(t)
    PROVE  Following'
<1>1. CASE Connects(t)
  BY <1>1, NewFields, OpensFollowed DEF Connects
<1>2. PICK u : u = [t EXCEPT !.client_socket = Unconnected]
  OBVIOUS
<1>3. u.client_socket \notin Conn
  BY <1>2, ConnAssumption DEF ThreadRecord
<1>4. CASE Goes(u, conn)
  BY <1>3, <1>4, GoesAwayFollowed
<1>5. ASSUME NEW broken \in BOOLEAN, NEW c,
             c = [NewConnection EXCEPT !.in = <<>>, !.reset = broken], Opens(t, c)
      PROVE  Following'
  <2>1. c \in Connection /\ c.holder = "fresh" /\ c.open /\ c.out = <<>>
    BY <1>5, NewFields
  <2>. QED
    BY <1>5, <2>1, OpensFollowed
<1>. QED
  BY <1>1, <1>2, <1>4, <1>5 DEF FailsToConnect

\* What losing the connection does with the rest of the thread.
LEMMA LostFields ==
    ASSUME NEW t \in ThreadRecord, NEW u \in {CH!Disconnect(t), CH!TempDisconnect(t)}
    PROVE  /\ u \in ThreadRecord /\ u.client_socket = NoSocket /\ u.client_socket \notin Conn
           /\ u.lines = t.lines /\ u.received = t.received
           /\ u.number_of_wrong_msg <= t.number_of_wrong_msg
<1>1. PICK f : f = CH!Forgotten(t)
  OBVIOUS
<1>2. <<>> \in Seq(Client) /\ 0 \in Nat /\ {} \in SUBSET Nat
  BY ShortLists
<1>3. PICK none : none = <<>>
  OBVIOUS
<1>4. f = [t EXCEPT !.clients = none, !.number_of_clients = 0, !.word_len = 0, !.word = {}]
  BY <1>1, <1>3 DEF CH!Forgotten
<1>5. f \in ThreadRecord /\ f.lines = t.lines /\ f.received = t.received
      /\ f.number_of_wrong_msg = t.number_of_wrong_msg
  BY <1>2, <1>3, <1>4 DEF ThreadRecord
<1>6. t.number_of_wrong_msg \in Nat /\ \A n \in Nat : n <= n /\ 0 <= n
  BY DEF ThreadRecord
<1>7. PICK d, e :
        /\ d = [f EXCEPT !.connected = FALSE, !.client_socket = NoSocket,
                   !.client_state = "UNLOGGED", !.number_of_wrong_msg = 0,
                   !.scene = "login_frame"]
        /\ e = [f EXCEPT !.connected = FALSE, !.client_socket = NoSocket,
                   !.client_state = "UNLOGGED", !.scene = "temp_dis_frame",
                   !.attempts = MaxAttempts]
  OBVIOUS
<1>8. /\ d.client_socket = NoSocket /\ d.lines = f.lines /\ d.received = f.received
      /\ d.number_of_wrong_msg = 0
      /\ e.client_socket = NoSocket /\ e.lines = f.lines /\ e.received = f.received
      /\ e.number_of_wrong_msg = f.number_of_wrong_msg
  BY <1>5, <1>7 DEF ThreadRecord
<1>9. u \in ThreadRecord
  BY DisconnectTypes DEF Returns
<1>10. \/ u = t /\ t.client_socket = NoSocket
       \/ u = d \/ u = e
  BY <1>1, <1>7 DEF CH!Disconnect, CH!TempDisconnect
<1>11. NoSocket \notin Conn
  BY ConnAssumption
<1>. QED
  BY <1>5, <1>6, <1>8, <1>9, <1>10, <1>11

\* A message is sent, or the connection is found to be lost.
LEMMA SendsFollowed ==
    ASSUME SIInv, Following, UNCHANGED serverVars, NEW t \in ThreadRecord, NEW msg \in Message,
           Sends(t, msg), t.client_socket = thread.client_socket,
           NEW k, k = thread.client_socket,
           clean /\ k \in Conn => \A y \in View :
              Leads(ViewOf(thread), thread.lines \o conn[k].out, y) =>
                 Leads(ViewOf(t), t.lines \o conn[k].out, y)
    PROVE  Following'
<1>1. \/ Goes(t, conn) \/ Goes(CH!TempDisconnect(t), conn)
      \/ k \in Conn /\ Goes(t, [conn EXCEPT ![k].in = Append(@, msg)])
  BY DEF Sends
<1>2. conn \in [Conn -> Connection]
  BY DEF SIInv, Types
<1>3. CASE Goes(t, conn)
  BY <1>2, <1>3, GoesOnFollowed
<1>4. CASE Goes(CH!TempDisconnect(t), conn)
  BY <1>4, LostFields, GoesAwayFollowed
<1>5. CASE k \in Conn /\ Goes(t, [conn EXCEPT ![k].in = Append(@, msg)])
  <2>1. conn[k] \in Connection /\ conn[k].in \in Seq(Message)
    BY <1>2, <1>5 DEF Connection
  <2>2. PICK ms \in Seq(Message) : ms = Append(conn[k].in, msg)
    BY <2>1, AppendAdds
  <2>3. PICK c : c = [conn[k] EXCEPT !.in = ms]
    OBVIOUS
  <2>4. /\ c \in Connection /\ c.holder = conn[k].holder /\ c.open = conn[k].open
        /\ c.out = conn[k].out
    BY <2>1, <2>3 DEF Connection
  <2>5. PICK cs : cs = [conn EXCEPT ![k] = c]
    OBVIOUS
  <2>6. cs \in [Conn -> Connection] /\ cs[k] = c /\ \A j \in Conn \ {k} : cs[j] = conn[j]
    BY <1>2, <1>5, <2>4, <2>5
  <2>7. [conn EXCEPT ![k].in = Append(@, msg)] = cs
    BY <2>2, <2>3, <2>5
  <2>8. Goes(t, cs)
    BY <1>5, <2>7
  <2>9. \A j \in Conn : cs[j].holder = conn[j].holder /\ cs[j].open = conn[j].open
    BY <2>4, <2>6
  <2>10. cs[k].out = conn[k].out
    BY <2>4, <2>6
  <2>. QED
    BY <2>6, <2>8, <2>9, <2>10, GoesOnFollowed
<1>. QED
  BY <1>1, <1>3, <1>4, <1>5

\* The batch that is remembered.
LEMMA RemembersFields ==
    ASSUME SIInv, NEW batch \in Seq(ServerLine)
    PROVE  /\ Remembers(batch) \in ThreadRecord
           /\ ViewOf(Remembers(batch)) = ViewOf(thread)
           /\ Remembers(batch).client_socket = thread.client_socket
           /\ Remembers(batch).lines = thread.lines
<1>1. thread \in ThreadRecord
  BY DEF SIInv, Types
<1>2. PICK u : u = [thread EXCEPT !.received = TRUE, !.data = batch]
  OBVIOUS
<1>3. /\ u \in ThreadRecord /\ ViewOf(u) = ViewOf(thread)
      /\ u.client_socket = thread.client_socket /\ u.lines = thread.lines
  BY <1>1, <1>2 DEF ThreadRecord, ViewOf
<1>. QED
  BY <1>1, <1>2, <1>3 DEF Remembers

\* The two parts of a list, put together again.
LEMMA CutAndJoined ==
    ASSUME NEW S, NEW s \in Seq(S), NEW n \in 0..Len(s)
    PROVE  SubSeq(s, 1, n) \o SubSeq(s, n + 1, Len(s)) = s
<1>1. PICK m \in Nat : m = Len(s)
  BY SeqFacts
<1>2. PICK a, b : a = SubSeq(s, 1, n) /\ b = SubSeq(s, n + 1, m)
  OBVIOUS
<1>3. /\ a \in Seq(S) /\ Len(a) = n /\ b \in Seq(S) /\ Len(b) = m - n
      /\ \A i \in 1..n : a[i] = s[i]
      /\ \A i \in 1..(m - n) : b[i] = s[n + i]
  BY <1>1, <1>2, PartsOfList
<1>4. PICK w \in Seq(S) : w = a \o b
  BY <1>3, ConcatProperties
<1>5. /\ Len(w) = Len(a) + Len(b)
      /\ \A i \in 1..(Len(a) + Len(b)) : w[i] = IF i <= Len(a) THEN a[i] ELSE b[i - Len(a)]
  BY <1>3, <1>4, ConcatProperties, Zenon
<1>6. n \in 0..m
  BY <1>1
<1>7. n + (m - n) = m
  BY <1>6
<1>8. Len(w) = m /\ \A i \in 1..m : w[i] = IF i <= n THEN a[i] ELSE b[i - n]
  BY <1>3, <1>5, <1>7
<1>9. ASSUME NEW i \in 1..m PROVE w[i] = s[i]
  <2>1. CASE i <= n
    <3>1. i \in 1..n
      BY <1>6, <2>1
    <3>. QED
      BY <1>3, <1>8, <2>1, <3>1
  <2>2. CASE ~(i <= n)
    <3>1. i - n \in 1..(m - n) /\ n + (i - n) = i
      BY <1>6, <2>2
    <3>. QED
      BY <1>3, <1>8, <2>2, <3>1
  <2>. QED
    BY <2>1, <2>2
<1>. QED
  BY <1>1, <1>2, <1>4, <1>8, <1>9, SeqEqual

\* HandleLine takes the line l: t is the thread without it, p if it is a PING.
HandlesLine(l, t, p) ==
    /\ thread.alive /\ thread.attempts = 0
    /\ thread.lines # <<>> /\ l = Head(thread.lines) /\ l \in ServerLine
    /\ t \in ThreadRecord /\ ViewOf(t) = ViewOf(thread) /\ t.lines = Tail(thread.lines)
    /\ t.client_socket = thread.client_socket /\ t.received = thread.received
    /\ t.number_of_wrong_msg = thread.number_of_wrong_msg
    /\ p \in ThreadRecord /\ ViewOf(p) = ViewOf(thread) /\ p.lines = Tail(thread.lines)
    /\ p.client_socket = thread.client_socket /\ p.received = thread.received
    /\ p.number_of_wrong_msg = thread.number_of_wrong_msg
    /\ IF l.type = "PING" THEN Sends(p, "PONG") ELSE Goes(CH!Handled(t, l), conn)

\* It takes one.
LEMMA LineTaken ==
    ASSUME SIInv, HandleLine
    PROVE  \E l, t, p : HandlesLine(l, t, p)
<1>1. /\ thread \in ThreadRecord /\ thread.lines \in Seq(ServerLine) /\ thread.lines # <<>>
      /\ thread.alive /\ thread.attempts = 0
  BY DEF SIInv, Types, ThreadRecord, HandleLine
<1>2. PICK l \in ServerLine : l = Head(thread.lines)
  BY <1>1, FrontOfList
<1>3. PICK rest \in Seq(ServerLine) : rest = Tail(thread.lines)
  BY <1>1, HeadTailProperties
<1>4. PICK t : t = [thread EXCEPT !.lines = rest]
  OBVIOUS
<1>5. /\ t \in ThreadRecord /\ ViewOf(t) = ViewOf(thread) /\ t.lines = rest
      /\ t.client_socket = thread.client_socket /\ t.received = thread.received
      /\ t.number_of_wrong_msg = thread.number_of_wrong_msg
  BY <1>1, <1>4 DEF ThreadRecord, ViewOf
<1>6. PICK p : p = [t EXCEPT !.got_server_ping = TRUE]
  OBVIOUS
<1>7. /\ p \in ThreadRecord /\ ViewOf(p) = ViewOf(t) /\ p.lines = t.lines
      /\ p.client_socket = t.client_socket /\ p.received = t.received
      /\ p.number_of_wrong_msg = t.number_of_wrong_msg
  BY <1>5, <1>6 DEF ThreadRecord, ViewOf
<1>8. IF l.type = "PING" THEN Sends(p, "PONG") ELSE Goes(CH!Handled(t, l), conn)
  BY <1>2, <1>3, <1>4, <1>6 DEF HandleLine
<1>. QED
  BY <1>1, <1>2, <1>3, <1>5, <1>7, <1>8 DEF HandlesLine

\* The count of missed pings, before the check.
LEMMA PingCounted ==
    ASSUME SIInv
    PROVE  \E u \in ThreadRecord :
              /\ ViewOf(u) = ViewOf(thread) /\ u.lines = thread.lines
              /\ u.client_socket = thread.client_socket /\ u.received = thread.received
              /\ u.number_of_wrong_msg = thread.number_of_wrong_msg
              /\ CH!PingChecked(thread) \in {u, CH!TempDisconnect(u), CH!Disconnect(u)}
<1>1. thread \in ThreadRecord
  BY DEF SIInv, Types
<1>2. PICK m \in 0..2 : m = IF thread.got_server_ping THEN 0
                            ELSE IF thread.missed_pings = 2 THEN 2 ELSE thread.missed_pings + 1
  BY <1>1 DEF ThreadRecord
<1>3. PICK u : u = [thread EXCEPT !.missed_pings = m, !.got_server_ping = FALSE]
  OBVIOUS
<1>4. /\ u \in ThreadRecord /\ ViewOf(u) = ViewOf(thread) /\ u.lines = thread.lines
      /\ u.client_socket = thread.client_socket /\ u.received = thread.received
      /\ u.number_of_wrong_msg = thread.number_of_wrong_msg
  BY <1>1, <1>3 DEF ThreadRecord, ViewOf
<1>5. CH!CountPing(thread) = u
  BY <1>2, <1>3 DEF CH!CountPing
<1>6. CH!PingChecked(thread) \in {u, CH!TempDisconnect(u), CH!Disconnect(u)}
  BY <1>5 DEF CH!PingChecked
<1>. QED
  BY <1>4, <1>6

\* Nothing happens.
LEMMA NothingFollowed ==
    ASSUME Following, UNCHANGED gameVars, conn' = conn, thread' = thread, clean' = clean
    PROVE  Following'
<1>1. Opened'
  BY DEF Following, Opened
<1>2. ASSUME clean, thread.client_socket \in Conn
      PROVE  LET k == thread.client_socket IN
             \E y, b : /\ y \in View
                       /\ Leads(ViewOf(thread), thread.lines \o conn[k].out, y)
                       /\ b = conn[k].holder /\ Meets(y, b)'
  BY <1>2, AgreesStill DEF Following, Follows, Holder
<1>3. Follows'
  BY <1>2 DEF Follows, Meets, Holder
<1>. QED
  BY <1>1, <1>3 DEF Following

\* Lines are received.
LEMMA ReceiveFollowed ==
    ASSUME SIInv, Following, Receive, UNCHANGED serverVars
    PROVE  Following'
<1>1. PICK k \in Conn : k = thread.client_socket
  BY DEF Receive
<1>2. PICK o \in Seq(ServerLine) : o = conn[k].out
  BY DEF SIInv, Types, Connection
<1>3. PICK n \in 1..Len(o) :
        Goes([Remembers(SubSeq(o, 1, n)) EXCEPT !.lines = SubSeq(o, 1, n)],
             [conn EXCEPT ![k].out = SubSeq(@, n + 1, Len(@))])
  BY <1>1, <1>2 DEF Receive
<1>4. n \in 0..Len(o)
  <2>1. Len(o) \in Nat /\ \A m \in Nat : \A i \in 1..m : i \in 0..m
    BY SeqFacts
  <2>. QED
    BY <2>1
<1>5. PICK batch \in Seq(ServerLine), rest \in Seq(ServerLine) :
         batch = SubSeq(o, 1, n) /\ rest = SubSeq(o, n + 1, Len(o))
  BY <1>4, PartsOfList
<1>6. batch \o rest = o
  BY <1>4, <1>5, CutAndJoined
<1>7. PICK t : t = [Remembers(batch) EXCEPT !.lines = batch]
  OBVIOUS
<1>8. /\ t.client_socket = k /\ t.lines = batch
      /\ ViewOf(t) = ViewOf(thread)
  <2>1. thread \in ThreadRecord
    BY DEF SIInv, Types
  <2>2. PICK r \in ThreadRecord : r = Remembers(batch) /\ ViewOf(r) = ViewOf(thread) /\ r.client_socket = k
    BY <1>1, RemembersFields
  <2>. QED
    BY <1>7, <2>2 DEF ThreadRecord, ViewOf
<1>9. conn \in [Conn -> Connection] /\ conn[k] \in Connection
  BY DEF SIInv, Types
<1>10. PICK c : c = [conn[k] EXCEPT !.out = rest]
  OBVIOUS
<1>11. /\ c \in Connection /\ c.holder = conn[k].holder /\ c.open = conn[k].open
       /\ c.out = rest
  BY <1>9, <1>10 DEF Connection
<1>12. PICK cs : cs = [conn EXCEPT ![k] = c]
  OBVIOUS
<1>13. cs \in [Conn -> Connection] /\ cs[k] = c /\ \A j \in Conn \ {k} : cs[j] = conn[j]
  BY <1>9, <1>11, <1>12
<1>14. Goes(t, cs)
  BY <1>2, <1>3, <1>5, <1>7, <1>10, <1>12
<1>15. \A j \in Conn : cs[j].holder = conn[j].holder /\ cs[j].open = conn[j].open
  BY <1>11, <1>13
<1>16. thread.lines \o conn[k].out = t.lines \o cs[k].out
  <2>1. thread.lines = <<>>
    BY DEF Receive, Idle
  <2>. QED
    BY <1>2, <1>6, <1>8, <1>11, <1>13, <2>1, ConcatEmptySeq
<1>17. conn[k].out = conn[thread.client_socket].out /\ t.client_socket = thread.client_socket
  BY <1>1, <1>8
<1>18. \A y \in View : Leads(ViewOf(thread), thread.lines \o conn[k].out, y) =>
                        Leads(ViewOf(t), t.lines \o cs[k].out, y)
  BY <1>8, <1>16
<1>. QED
  BY <1>1, <1>13, <1>14, <1>15, <1>17, <1>18, GoesOnFollowed

\* A line is cut: what the client knows then is not looked at any more.
LEMMA ReceivePartFollowed ==
    ASSUME SIInv, Following, ReceivePart
    PROVE  Following'
<1>1. PICK k \in Conn : k = thread.client_socket
  BY DEF ReceivePart
<1>2. PICK o \in Seq(ServerLine) : o = conn[k].out
  BY DEF SIInv, Types, Connection
<1>3. PICK n \in 0..(Len(o) - 1) :
        /\ thread' = [Remembers(SubSeq(o, 1, n)) EXCEPT !.lines = SubSeq(o, 1, n)]
        /\ \E out : conn' = [conn EXCEPT ![k].out = out]
        /\ clean' = FALSE
  BY <1>1, <1>2 DEF ReceivePart
<1>4. n \in 0..Len(o)
  <2>1. Len(o) \in Nat
    BY SeqFacts
  <2>. QED
    BY <2>1
<1>5. PICK batch \in Seq(ServerLine) : batch = SubSeq(o, 1, n)
  BY <1>4, PartsOfList
<1>6. thread'.client_socket = k
  <2>1. PICK r \in ThreadRecord : r = Remembers(batch) /\ r.client_socket = k
    BY <1>1, RemembersFields
  <2>2. thread' = [r EXCEPT !.lines = batch]
    BY <1>3, <1>5, <2>1
  <2>. QED
    BY <2>1, <2>2 DEF ThreadRecord
<1>7. conn'[k].open
  BY <1>1, <1>3 DEF SIInv, Types, Connection, Following, Opened
<1>. QED
  BY <1>3, <1>6, <1>7 DEF Following, Opened, Follows

\* Nothing is received, and the thread goes on.
LEMMA ReceiveNothingFollowed ==
    ASSUME SIInv, Following, ReceiveNothing, UNCHANGED serverVars
    PROVE  Following'
<1>1. PICK t \in ThreadRecord : /\ t = Remembers(<<>>) /\ ViewOf(t) = ViewOf(thread)
                                /\ t.client_socket = thread.client_socket
                                /\ t.lines = thread.lines
  BY RemembersFields, ShortLists
<1>2. Goes(t, conn) /\ conn \in [Conn -> Connection]
  BY <1>1 DEF ReceiveNothing, SIInv, Types
<1>. QED
  BY <1>1, <1>2, GoesOnFollowed

\* recv() raises.
LEMMA ReceiveFailsFollowed ==
    ASSUME SIInv, Following, ReceiveFails, UNCHANGED serverVars
    PROVE  Following'
<1>1. PICK t : t = CH!Disconnect(thread)
  OBVIOUS
<1>2. t \in ThreadRecord /\ t.client_socket \notin Conn
  BY <1>1, LostFields DEF SIInv, Types
<1>3. PICK u \in {[t EXCEPT !.lines = t.data], [t EXCEPT !.alive = FALSE]} : Goes(u, conn)
  BY <1>1 DEF ReceiveFails
<1>4. u.client_socket = t.client_socket
  BY <1>2 DEF ThreadRecord
<1>. QED
  BY <1>2, <1>3, <1>4, GoesAwayFollowed

\* A PING is answered.
LEMMA PingFollowed ==
    ASSUME SIInv, Following, UNCHANGED serverVars, NEW l, l = Head(thread.lines), l.type = "PING",
           thread.lines # <<>>, NEW t \in ThreadRecord, ViewOf(t) = ViewOf(thread),
           t.client_socket = thread.client_socket, t.lines = Tail(thread.lines),
           Sends(t, "PONG")
    PROVE  Following'
<1>1. PICK k : k = thread.client_socket
  OBVIOUS
<1>2. ASSUME k \in Conn, NEW y \in View, Leads(ViewOf(thread), thread.lines \o conn[k].out, y)
      PROVE  Leads(ViewOf(t), t.lines \o conn[k].out, y)
  <2>1. thread.lines \in Seq(ServerLine) /\ conn[k].out \in Seq(ServerLine)
    BY <1>2 DEF SIInv, Types, ThreadRecord, Connection
  <2>2. Leads(After(ViewOf(thread), l), t.lines \o conn[k].out, y)
    BY <1>2, <2>1, LineReached
  <2>3. After(ViewOf(thread), l) = ViewOf(t)
    BY DEF After
  <2>. QED
    BY <2>2, <2>3
<1>. QED
  BY <1>1, <1>2, SendsFollowed DEF Message

\* Every other line is handled, on the connection it came on, as it is meant.
LEMMA LineHandled ==
    ASSUME SIInv, Following, clean, thread.client_socket \in Conn, thread.lines # <<>>,
           NEW l, l = Head(thread.lines), l.type # "PING",
           NEW t \in ThreadRecord, ViewOf(t) = ViewOf(thread), t.lines = Tail(thread.lines),
           NEW u, u = CH!Handled(t, l)
    PROVE  /\ l.type = "ERROR|1" => u = CH!Disconnect(t) /\ t.lines = <<>>
           /\ l.type # "ERROR|1" =>
                /\ OtherwiseSame(t, u)
                /\ \A y : Leads(ViewOf(thread), thread.lines \o conn[thread.client_socket].out, y) =>
                             Leads(ViewOf(u), u.lines \o conn[thread.client_socket].out, y)
<1>1. PICK s \in Seq(ServerLine), o \in Seq(ServerLine) :
        s = thread.lines /\ o = conn[thread.client_socket].out
  BY DEF SIInv, Types, ThreadRecord, Connection
<1>2. PICK y \in View : Leads(ViewOf(thread), s \o o, y)
  BY <1>1 DEF Following, Follows
<1>3. /\ l \in ServerLine /\ Expects(ViewOf(t), l)
      /\ \A z : Leads(ViewOf(thread), s \o o, z) => Leads(After(ViewOf(t), l), Tail(s) \o o, z)
  BY <1>1, <1>2, LineReached
<1>4. ASSUME l.type = "ERROR|1" PROVE u = CH!Disconnect(t) /\ t.lines = <<>>
  <2>1. u = CH!Disconnect(t)
    BY <1>4 DEF CH!Handled
  <2>2. Tail(s) \in Seq(ServerLine)
    BY <1>1, HeadTailProperties
  <2>3. ASSUME Tail(s) # <<>> PROVE FALSE
    <3>1. Expects(After(ViewOf(t), l), Head(Tail(s)))
      BY <1>2, <1>3, <2>2, <2>3, LineReached
    <3>2. After(ViewOf(t), l).client_state = "GONE"
      BY <1>4 DEF After, ViewOf
    <3>. QED
      BY <3>1, <3>2 DEF Expects
  <2>. QED
    BY <1>1, <2>1, <2>3
<1>5. ASSUME l.type # "ERROR|1" PROVE ViewOf(u) = After(ViewOf(t), l) /\ OtherwiseSame(t, u)
  BY <1>3, <1>5, LinesFollowed
<1>6. ASSUME l.type # "ERROR|1" PROVE u.lines = Tail(s)
  BY <1>1, <1>5, <1>6 DEF OtherwiseSame
<1>. QED
  BY <1>1, <1>3, <1>4, <1>5, <1>6

\* A line is handled.
LEMMA HandleLineFollowed ==
    ASSUME SIInv, Following, HandleLine, UNCHANGED serverVars
    PROVE  Following'
<1>1. PICK l, t, p : HandlesLine(l, t, p)
  BY LineTaken
<1>2. CASE l.type = "PING"
  BY <1>1, <1>2, PingFollowed DEF HandlesLine
<1>3. CASE l.type # "PING"
  <2>1. PICK u : u = CH!Handled(t, l) /\ Goes(u, conn)
    BY <1>1, <1>3 DEF HandlesLine
  <2>2. u.client_socket \in {thread.client_socket, NoSocket}
    BY <1>1, <1>3, <2>1, HandledTypes DEF HandlesLine, Returns
  <2>3. CASE u.client_socket \notin Conn
    BY <2>1, <2>3, GoesAwayFollowed
  <2>4. CASE u.client_socket \in Conn
    <3>1. PICK k \in Conn : k = thread.client_socket /\ k = u.client_socket
      BY <2>2, <2>4, ConnAssumption
    <3>2. conn \in [Conn -> Connection]
      BY DEF SIInv, Types
    <3>3. ASSUME clean, NEW y \in View, Leads(ViewOf(thread), thread.lines \o conn[k].out, y)
          PROVE  Leads(ViewOf(u), u.lines \o conn[k].out, y)
      <4>1. l.type # "ERROR|1"
        <5>1. SUFFICES ASSUME l.type = "ERROR|1" PROVE FALSE
          OBVIOUS
        <5>2. u = CH!Disconnect(t) /\ t \in ThreadRecord
          BY <1>1, <2>1, <5>1 DEF HandlesLine, CH!Handled
        <5>3. u.client_socket \notin Conn
          BY <5>2, LostFields
        <5>. QED
          BY <3>1, <5>3
      <4>2. \A x : Leads(ViewOf(thread), thread.lines \o conn[thread.client_socket].out, x) =>
                     Leads(ViewOf(u), u.lines \o conn[thread.client_socket].out, x)
        BY <1>1, <1>3, <2>1, <3>1, <3>3, <4>1, LineHandled DEF HandlesLine
      <4>. QED
        BY <3>1, <3>3, <4>2
    <3>. QED
      BY <2>1, <3>1, <3>2, <3>3, GoesOnFollowed
  <2>. QED
    BY <2>3, <2>4
<1>. QED
  BY <1>2, <1>3

\* The thread tries to connect again.
LEMMA ReconnectFollowed ==
    ASSUME SIInv, Following, Reconnect, UNCHANGED serverVars
    PROVE  Following'
<1>1. thread \in ThreadRecord /\ thread.attempts > 0
  BY DEF SIInv, Types, Reconnect
<1>2. PICK n, scene : n = thread.attempts - 1
                      /\ scene = IF thread.attempts = 1 THEN "login_frame" ELSE thread.scene
  OBVIOUS
<1>3. PICK t, u : t = [thread EXCEPT !.attempts = 0]
                  /\ u = [thread EXCEPT !.attempts = n, !.scene = scene]
  OBVIOUS
<1>4. t \in ThreadRecord /\ u \in ThreadRecord
  <2>1. 0 \in 0..MaxAttempts
    BY AttemptsAssumption
  <2>2. n \in 0..MaxAttempts
    BY <1>1, <1>2, AttemptsAssumption DEF ThreadRecord
  <2>3. scene \in {"login_frame", "join_frame", "lobby_frame", "game_frame", "temp_dis_frame"}
    BY <1>1, <1>2 DEF ThreadRecord
  <2>. QED
    BY <1>1, <1>3, <2>1, <2>2, <2>3 DEF ThreadRecord
<1>5. Connects(t) \/ FailsToConnect(u)
  BY <1>2, <1>3 DEF Reconnect
<1>. QED
  BY <1>4, <1>5, ConnectsFollowed

\* The check for a PING.
LEMMA CheckPingFollowed ==
    ASSUME SIInv, Following, CheckPing, UNCHANGED serverVars
    PROVE  Following'
<1>1. PICK u \in ThreadRecord : /\ ViewOf(u) = ViewOf(thread) /\ u.lines = thread.lines
                                /\ u.client_socket = thread.client_socket
                                /\ CH!PingChecked(thread) \in
                                      {u, CH!TempDisconnect(u), CH!Disconnect(u)}
  BY PingCounted
<1>2. PICK t \in {u, CH!TempDisconnect(u), CH!Disconnect(u)} : Goes(t, conn)
  BY <1>1 DEF CheckPing
<1>3. conn \in [Conn -> Connection]
  BY DEF SIInv, Types
<1>4. CASE t = u
  BY <1>1, <1>2, <1>3, <1>4, GoesOnFollowed
<1>5. CASE t # u
  BY <1>1, <1>2, <1>5, LostFields, GoesAwayFollowed
<1>. QED
  BY <1>4, <1>5

\* An instruction of the player.
LEMMA InstructFollowed ==
    ASSUME SIInv, Following, Instruct, UNCHANGED serverVars
    PROVE  Following'
<1>1. thread \in ThreadRecord
  BY DEF SIInv, Types
<1>2. PICK i \in {"CONNECT", "JOIN", "START", "QUESS"} : instructions = <<i>>
  BY DEF SIInv, Types, Instructions, Instruct
<1>3. Head(instructions) = i
  BY <1>2
<1>4. CASE i = "CONNECT"
  <2>1. PICK t : t = [thread EXCEPT !.scene = "login_frame"]
    OBVIOUS
  <2>2. t \in ThreadRecord
    BY <1>1, <2>1 DEF ThreadRecord
  <2>3. Connects(t) \/ FailsToConnect(t)
    BY <1>3, <1>4, <2>1 DEF Instruct
  <2>. QED
    BY <2>2, <2>3, ConnectsFollowed
<1>5. CASE i # "CONNECT"
  <2>1. Sends(thread, i) /\ i \in Message
    BY <1>2, <1>3, <1>5 DEF Instruct, Message
  <2>. QED
    BY <1>1, <2>1, SendsFollowed
<1>. QED
  BY <1>4, <1>5

\* Every step of the thread.
LEMMA ThreadFollowed ==
    ASSUME SIInv, Following, Thread
    PROVE  Following'
<1>1. UNCHANGED serverVars
  BY DEF Thread
<1>2. CASE Press
  <2>1. conn' = conn /\ thread' = thread /\ clean' = clean
    BY <1>2 DEF Press
  <2>2. UNCHANGED gameVars
    BY <1>1 DEF serverVars
  <2>. QED
    BY <2>1, <2>2, NothingFollowed
<1>. QED
  BY <1>1, <1>2, ReceiveFollowed, ReceivePartFollowed, ReceiveNothingFollowed,
     ReceiveFailsFollowed, HandleLineFollowed, ReconnectFollowed, CheckPingFollowed, InstructFollowed DEF Thread

-----------------------------------------------------------------------------
(* Where no connection fails, a line is handled on the connection it came on *)

\* Nothing is remembered that could be handled again, and the lines of a batch are
\* those of the connection the thread has.
Calm ==
    /\ ~thread.received
    /\ clean /\ thread.alive /\ thread.lines # <<>> /\ thread.attempts = 0 =>
          thread.client_socket \in Conn

\* No line is counted as wrong.
NoneCounted ==
    clean /\ clean' => thread'.number_of_wrong_msg <= thread.number_of_wrong_msg

\* The thread goes on as u: with a connection that it has or gets, without lines, or
\* with those it had.
LEMMA CalmGoing ==
    ASSUME SIInv, Calm, NEW t \in ThreadRecord, NEW cs, Goes(t, cs), t.received = thread.received,
           t.number_of_wrong_msg <= thread.number_of_wrong_msg,
           \/ t.client_socket \in Conn \/ t.lines = <<>> \/ ~t.alive \/ t.attempts # 0
    PROVE  Calm' /\ NoneCounted
BY DEF Goes, Calm, NoneCounted

\* A connection is made.
LEMMA CalmConnecting ==
    ASSUME SIInv, Calm, NEW t \in ThreadRecord, Connects(t), t.received = thread.received,
           t.number_of_wrong_msg = thread.number_of_wrong_msg
    PROVE  Calm' /\ NoneCounted
<1>1. PICK k \in Conn :
        Goes([t EXCEPT !.connected = TRUE, !.client_socket = k],
             [conn EXCEPT ![k] = NewConnection])
  BY DEF Connects, Opens
<1>2. PICK u : u = [t EXCEPT !.connected = TRUE, !.client_socket = k]
  OBVIOUS
<1>3. /\ u \in ThreadRecord /\ u.client_socket = k /\ u.received = t.received
      /\ u.number_of_wrong_msg = t.number_of_wrong_msg
  BY <1>2 DEF ThreadRecord
<1>4. u.number_of_wrong_msg <= thread.number_of_wrong_msg
  <2>1. u.number_of_wrong_msg \in Nat /\ \A n \in Nat : n <= n
    BY <1>3 DEF ThreadRecord
  <2>. QED
    BY <1>3, <2>1
<1>. QED
  BY <1>1, <1>2, <1>3, <1>4, CalmGoing

\* A message is sent, or the connection is found to be lost, before lines or amid them.
LEMMA CalmSending ==
    ASSUME SIInv, Calm, NEW t \in ThreadRecord, NEW msg, Sends(t, msg),
           t.client_socket = thread.client_socket, t.received = thread.received,
           t.number_of_wrong_msg = thread.number_of_wrong_msg,
           t.lines = <<>> \/ (thread.alive /\ thread.lines # <<>> /\ thread.attempts = 0)
    PROVE  Calm' /\ NoneCounted
<1>1. \E cs : Goes(t, cs) \/ Goes(CH!TempDisconnect(t), cs)
  BY DEF Sends
<1>2. t.number_of_wrong_msg \in Nat /\ \A n \in Nat : n <= n
  BY DEF ThreadRecord
<1>3. ASSUME NEW cs, Goes(t, cs) PROVE Calm' /\ NoneCounted
  <2>1. thread' = t /\ clean' = clean
    BY <1>3 DEF Goes
  <2>. QED
    BY <1>2, <2>1 DEF Calm, NoneCounted
<1>4. ASSUME NEW cs, Goes(CH!TempDisconnect(t), cs) PROVE Calm' /\ NoneCounted
  <2>1. PICK u : u = CH!TempDisconnect(t)
    OBVIOUS
  <2>2. /\ u \in ThreadRecord /\ u.client_socket \notin Conn /\ u.lines = t.lines
        /\ u.received = t.received /\ u.number_of_wrong_msg <= t.number_of_wrong_msg
    BY <2>1, LostFields
  <2>3. thread' = u /\ clean' = clean
    BY <1>4, <2>1, <2>2 DEF Goes
  <2>4. u.attempts # 0 \/ t.client_socket = NoSocket
    <3>1. PICK f : f = CH!Forgotten(t)
      OBVIOUS
    <3>2. ASSUME t.client_socket # NoSocket
          PROVE  u = [f EXCEPT !.connected = FALSE, !.client_socket = NoSocket,
                         !.client_state = "UNLOGGED", !.scene = "temp_dis_frame",
                         !.attempts = MaxAttempts]
      BY <2>1, <3>1, <3>2 DEF CH!TempDisconnect
    <3>3. "attempts" \in DOMAIN f
      BY <3>1 DEF CH!Forgotten, ThreadRecord
    <3>4. t.client_socket # NoSocket => u.attempts = MaxAttempts
      BY <3>2, <3>3
    <3>. QED
      BY <3>4, AttemptsAssumption
  <2>5. t.client_socket = NoSocket => t.client_socket \notin Conn
    BY ConnAssumption
  <2>. QED
    BY <2>2, <2>3, <2>4, <2>5 DEF Calm, NoneCounted
<1>. QED
  BY <1>1, <1>3, <1>4

\* A line is handled.
LEMMA CalmLine ==
    ASSUME SIInv, Following, Calm, HandleLine
    PROVE  Calm' /\ NoneCounted
<1>1. PICK l, t, p : HandlesLine(l, t, p)
  BY LineTaken
<1>2. CASE l.type = "PING"
  BY <1>1, <1>2, CalmSending DEF HandlesLine
<1>3. CASE l.type # "PING"
  <2>1. PICK u : u = CH!Handled(t, l) /\ Goes(u, conn)
    BY <1>1, <1>3 DEF HandlesLine
  <2>2. /\ u \in ThreadRecord /\ u.client_socket \in {thread.client_socket, NoSocket}
        /\ u.received = thread.received
    BY <1>1, <1>3, <2>1, HandledTypes DEF HandlesLine, Returns
  <2>3. thread' = u /\ clean' = clean
    BY <2>1, <2>2, ConnAssumption DEF Goes
  <2>4. CASE ~clean
    BY <2>2, <2>3, <2>4 DEF Calm, NoneCounted
  <2>5. CASE clean
    <3>1. thread.client_socket \in Conn
      BY <1>1, <2>5 DEF HandlesLine, Calm
    <3>2. /\ l.type = "ERROR|1" => u = CH!Disconnect(t) /\ t.lines = <<>>
          /\ l.type # "ERROR|1" => OtherwiseSame(t, u)
      BY <1>1, <1>3, <2>1, <2>5, <3>1, LineHandled DEF HandlesLine
    <3>3. CASE l.type = "ERROR|1"
      <4>1. u.lines = <<>> /\ u.number_of_wrong_msg <= thread.number_of_wrong_msg
        BY <1>1, <3>2, <3>3, LostFields DEF HandlesLine
      <4>. QED
        BY <2>1, <2>2, <4>1, CalmGoing
    <3>4. CASE l.type # "ERROR|1"
      <4>1. /\ u.client_socket \in Conn
            /\ u.number_of_wrong_msg = thread.number_of_wrong_msg
        BY <1>1, <3>1, <3>2, <3>4 DEF HandlesLine, OtherwiseSame
      <4>2. u.number_of_wrong_msg \in Nat /\ \A n \in Nat : n <= n
        BY <2>2 DEF ThreadRecord
      <4>3. u.number_of_wrong_msg <= thread.number_of_wrong_msg
        BY <4>1, <4>2
      <4>. QED
        BY <2>1, <2>2, <4>1, <4>3, CalmGoing
    <3>. QED
      BY <3>3, <3>4
  <2>. QED
    BY <2>4, <2>5
<1>. QED
  BY <1>2, <1>3

\* The other steps of the thread.
LEMMA CalmThread ==
    ASSUME SIInv, Following, Calm, ~Failures, Thread
    PROVE  Calm' /\ NoneCounted
<1>1. thread \in ThreadRecord /\ thread.number_of_wrong_msg \in Nat /\ \A n \in Nat : n <= n
  BY DEF SIInv, Types, ThreadRecord
<1>2. thread.number_of_wrong_msg <= thread.number_of_wrong_msg
  BY <1>1
<1>3. CASE Receive
  <2>1. PICK batch, cs : Goes([thread EXCEPT !.lines = batch], cs)
    BY <1>3 DEF Receive, Remembers
  <2>2. PICK t : t = [thread EXCEPT !.lines = batch]
    OBVIOUS
  <2>3. /\ t.client_socket = thread.client_socket /\ t.received = thread.received
        /\ t.number_of_wrong_msg = thread.number_of_wrong_msg
    BY <1>1, <2>2 DEF ThreadRecord
  <2>4. t.client_socket \in Conn
    BY <1>3, <2>3 DEF Receive
  <2>. QED
    BY <1>2, <2>1, <2>2, <2>3, <2>4 DEF Goes, Calm, NoneCounted
<1>4. CASE ReceiveNothing
  <2>1. Goes(thread, conn)
    BY <1>4 DEF ReceiveNothing, Remembers
  <2>. QED
    BY <1>2, <2>1 DEF Goes, Calm, NoneCounted
<1>5. CASE ReceiveFails
  <2>1. PICK t : t = CH!Disconnect(thread)
    OBVIOUS
  <2>2. /\ t \in ThreadRecord /\ ~t.received
        /\ t.number_of_wrong_msg <= thread.number_of_wrong_msg
    BY <1>1, <2>1, LostFields DEF Calm
  <2>3. PICK u : u = [t EXCEPT !.alive = FALSE] /\ Goes(u, conn)
    BY <1>5, <2>1, <2>2 DEF ReceiveFails
  <2>4. /\ u \in ThreadRecord /\ ~u.alive /\ u.received = t.received
        /\ u.number_of_wrong_msg = t.number_of_wrong_msg
    BY <2>2, <2>3 DEF ThreadRecord
  <2>. QED
    BY <2>2, <2>3, <2>4 DEF Goes, Calm, NoneCounted
<1>6. CASE HandleLine
  BY <1>6, CalmLine
<1>7. CASE Reconnect
  <2>1. PICK t : t = [thread EXCEPT !.attempts = 0]
    OBVIOUS
  <2>2. 0 \in 0..MaxAttempts
    BY AttemptsAssumption
  <2>3. /\ t \in ThreadRecord /\ t.received = thread.received
        /\ t.number_of_wrong_msg = thread.number_of_wrong_msg
    BY <1>1, <2>1, <2>2 DEF ThreadRecord
  <2>4. Connects(t)
    BY <1>7, <2>1 DEF Reconnect, FailsToConnect
  <2>. QED
    BY <2>3, <2>4, CalmConnecting
<1>8. CASE CheckPing
  <2>1. PICK u \in ThreadRecord :
          /\ u.lines = thread.lines /\ u.received = thread.received
          /\ u.number_of_wrong_msg = thread.number_of_wrong_msg
          /\ CH!PingChecked(thread) \in {u, CH!TempDisconnect(u), CH!Disconnect(u)}
    BY PingCounted
  <2>2. PICK t \in {u, CH!TempDisconnect(u), CH!Disconnect(u)} : Goes(t, conn)
    BY <1>8, <2>1 DEF CheckPing
  <2>3. /\ t \in ThreadRecord /\ t.lines = thread.lines /\ t.received = thread.received
        /\ t.number_of_wrong_msg <= thread.number_of_wrong_msg
    BY <1>2, <2>1, <2>2, LostFields
  <2>4. t.lines = <<>>
    BY <1>8, <2>3 DEF CheckPing, Idle
  <2>. QED
    BY <2>2, <2>3, <2>4, CalmGoing
<1>9. CASE Instruct
  <2>1. PICK i \in {"CONNECT", "JOIN", "START", "QUESS"} : instructions = <<i>> /\ Head(instructions) = i
    BY <1>9 DEF SIInv, Types, Instructions, Instruct
  <2>2. thread.lines = <<>>
    BY <1>9 DEF Instruct, Idle
  <2>3. CASE i = "CONNECT"
    <3>1. PICK t : t = [thread EXCEPT !.scene = "login_frame"]
      OBVIOUS
    <3>2. /\ t \in ThreadRecord /\ t.received = thread.received
          /\ t.number_of_wrong_msg = thread.number_of_wrong_msg
      BY <1>1, <3>1 DEF ThreadRecord
    <3>3. Connects(t)
      BY <1>9, <2>1, <2>3, <3>1 DEF Instruct, FailsToConnect
    <3>. QED
      BY <3>2, <3>3, CalmConnecting
  <2>4. CASE i # "CONNECT"
    <3>1. Sends(thread, i)
      BY <1>9, <2>1, <2>4 DEF Instruct
    <3>. QED
      BY <1>1, <2>2, <3>1, CalmSending
  <2>. QED
    BY <2>3, <2>4
<1>10. CASE Press
  BY <1>2, <1>10 DEF Press, Calm, NoneCounted
<1>11. CASE ReceivePart
  <2>1. PICK batch : thread' = [thread EXCEPT !.lines = batch] /\ clean' = FALSE
    BY <1>11 DEF ReceivePart, Remembers
  <2>2. thread'.received = thread.received
    BY <1>1, <2>1 DEF ThreadRecord
  <2>. QED
    BY <2>1, <2>2 DEF Calm, NoneCounted
<1>. QED
  BY <1>3, <1>4, <1>5, <1>6, <1>7, <1>8, <1>9, <1>10, <1>11 DEF Thread

-----------------------------------------------------------------------------
(* The theorems *)

\* Nobody has connected.
LEMMA AgreementInit == Init => Following
<1> SUFFICES ASSUME Init PROVE Following
  OBVIOUS
<1>1. thread.client_socket = NoSocket
  BY DEF Init, CH!NewThread
<1>2. NoSocket \notin Conn
  BY ConnAssumption
<1>. QED
  BY <1>1, <1>2 DEF Following, Opened, Follows

\* The lines that wait always lead the client to where the server has it.
LEMMA FollowingAlways == Spec => [](SIInv /\ Following)
<1>1. SIInv /\ Following /\ [Next]_vars => Following'
  <2>1. SIInv /\ Following /\ UNCHANGED vars => Following'
    BY NothingFollowed DEF vars, serverVars, clientVars
  <2>. QED
    BY <2>1, OtherFollowed, ServerFollowed, ThreadFollowed DEF Next
<1>. QED
  BY <1>1, AgreementInit, SessionInvariance, PTL DEF Spec

\* At rest no line waits any more, so the client is there.
LEMMA MeetsAtRest ==
    ASSUME SIInv, Following, AtRest
    PROVE  /\ Holder(thread.client_socket) \in {"fresh", "player"} /\ ~spinning
           /\ Meets(ViewOf(thread), Holder(thread.client_socket))
<1>1. PICK k \in Conn : k = thread.client_socket
  BY DEF AtRest
<1>2. /\ clean /\ ~spinning /\ thread.lines = <<>> /\ conn[k].out = <<>>
      /\ Holder(k) # "none"
  BY <1>1 DEF AtRest, Idle
<1>3. Holder(k) \in {"fresh", "player"}
  BY <1>2 DEF SIInv, Types, Connection, Holder
<1>4. PICK y \in View : /\ Leads(ViewOf(thread), thread.lines \o conn[k].out, y)
                        /\ Meets(y, Holder(k))
  BY <1>1, <1>2 DEF Following, Follows
<1>5. thread.lines \o conn[k].out = <<>>
  <2>1. PICK none \in Seq(ServerLine) : none = <<>>
    BY ShortLists
  <2>2. none \o none = none
    BY <2>1, ConcatEmptySeq
  <2>. QED
    BY <1>2, <2>1, <2>2
<1>6. y = ViewOf(thread)
  BY <1>4, <1>5, NowhereElse
<1>. QED
  BY <1>1, <1>2, <1>3, <1>4, <1>6

\* With the player's object at the other end.
LEMMA AgreesAtRest ==
    ASSUME SIInv, Following, AtRestLoggedIn
    PROVE  ~spinning /\ Agrees(ViewOf(thread))
BY MeetsAtRest DEF AtRestLoggedIn, Meets

\* Once nothing is under way on a connection none of whose lines was cut, the client is
\* in the state that the server has for it, whatever connection was lost, refused or
\* overtaken before.
THEOREM StatesAgreeAlways == Spec => []StatesAgree
<1>1. SIInv /\ Following => StatesAgree
  <2> SUFFICES ASSUME SIInv, Following, AtRest
               PROVE  thread.client_state = IF Holder(thread.client_socket) = "fresh"
                                            THEN "UNLOGGED" ELSE ServersView
    BY DEF StatesAgree
  <2>1. PICK x : x = ViewOf(thread)
    OBVIOUS
  <2>2. /\ Holder(thread.client_socket) \in {"fresh", "player"} /\ ~spinning
        /\ Meets(x, Holder(thread.client_socket)) /\ x.client_state = thread.client_state
    BY <2>1, MeetsAtRest DEF ViewOf
  <2>3. CASE Holder(thread.client_socket) = "fresh"
    BY <2>1, <2>2, <2>3 DEF Meets
  <2>4. CASE Holder(thread.client_socket) = "player"
    <3>1. Agrees(x)
      BY <2>2, <2>4 DEF Meets
    <3>2. ASSUME client_state[Me] \in Seated PROVE x.client_state = ServersView
      <4>1. Shows(x, game[Me]) /\ (game[Me] \in started_games <=> client_state[Me] \in InGame)
        BY <2>2, <3>1, <3>2, SeatIsKnown DEF Agrees, SeatKnown, SIInv
      <4>. QED
        BY <3>2, <4>1 DEF Shows, Sees, ServersView, Seated, InGame
    <3>. QED
      BY <2>2, <2>4, <3>1, <3>2 DEF Agrees
  <2>. QED
    BY <2>2, <2>3, <2>4
<1>. QED
  BY <1>1, FollowingAlways, PTL

\* It then knows the players of its game, in the server's order, however many updates
\* were sent behind other lines, or while it was away.
THEOREM PlayersAgreeAlways == Spec => []PlayersAgree
<1>1. SIInv /\ Following => PlayersAgree
  <2> SUFFICES ASSUME SIInv, Following, AtRestLoggedIn, client_state[Me] \in Seated
               PROVE  thread.clients = players[game[Me]]
    BY DEF PlayersAgree
  <2>1. PICK x : x = ViewOf(thread) /\ Agrees(x)
    BY AgreesAtRest
  <2>2. x.clients = thread.clients
    BY <2>1 DEF ViewOf
  <2>. QED
    BY <2>1, <2>2 DEF Agrees, Shows, Sees
<1>. QED
  BY <1>1, FollowingAlways, PTL

\* In a round it shows the letters that are found, also after a return, and the field
\* for a guess exactly when it is on turn.
THEOREM RoundAgreesAlways == Spec => []RoundAgrees
<1>1. SIInv /\ Following => RoundAgrees
  <2> SUFFICES ASSUME SIInv, Following, AtRestLoggedIn, client_state[Me] \in InGame
               PROVE  /\ thread.word_len = Len(word[game[Me]])
                      /\ thread.word = Known(game[Me])
                      /\ thread.quess_entry <=> client_state[Me] = "ON_TURN"
    BY DEF RoundAgrees
  <2>1. PICK x : x = ViewOf(thread) /\ Agrees(x)
    BY AgreesAtRest
  <2>2. /\ x.word_len = thread.word_len /\ x.word = thread.word
        /\ x.quess_entry = thread.quess_entry
    BY <2>1 DEF ViewOf
  <2>3. ~spinning /\ client_state[Me] \in Seated
    BY AgreesAtRest DEF Seated
  <2>4. /\ game[Me] \in started_games
        /\ client_on_turn[game[Me]] = Me <=> client_state[Me] = "ON_TURN"
    BY <2>3, SeatIsKnown DEF SeatKnown, SIInv
  <2>5. SeesRound(x, Len(word[game[Me]]), Known(game[Me]), client_on_turn[game[Me]])
    BY <2>1, <2>3, <2>4 DEF Agrees, Shows
  <2>. QED
    BY <2>2, <2>4, <2>5 DEF SeesRound
<1>. QED
  BY <1>1, FollowingAlways, PTL

\* Where no connection fails and no line is cut, the client never takes a line of this
\* server for a wrong message: each finds it in the state the line is meant for, however
\* many lines it waits behind.  (After recv() has raised the client handles lines of an
\* earlier connection again.)
THEOREM LinesExpectedAlways ==
    ASSUME ~Failures
    PROVE  Spec => LinesAreExpected
<1>1. Init => Calm
  BY DEF Init, CH!NewThread, Calm
<1>2. SIInv /\ Following /\ Calm /\ [Next]_vars => Calm' /\ NoneCounted
  <2> SUFFICES ASSUME SIInv, Following, Calm, [Next]_vars PROVE Calm' /\ NoneCounted
    OBVIOUS
  <2>1. CASE Thread
    BY <2>1, CalmThread
  <2>2. CASE Other \/ Server \/ UNCHANGED vars
    <3>1. thread' = thread /\ clean' = clean
      BY <2>2 DEF Other, Server, vars, clientVars
    <3>2. thread.number_of_wrong_msg \in Nat /\ \A n \in Nat : n <= n
      BY DEF SIInv, Types, ThreadRecord
    <3>. QED
      BY <3>1, <3>2 DEF Calm, NoneCounted
  <2>. QED
    BY <2>1, <2>2 DEF Next
<1>3. SIInv /\ Following /\ Calm /\ [Next]_vars =>
        [clean /\ clean' => thread'.number_of_wrong_msg <= thread.number_of_wrong_msg]_vars
  BY <1>2 DEF NoneCounted
<1>. QED
  BY <1>1, <1>2, <1>3, FollowingAlways, PTL DEF Spec, LinesAreExpected
=============================================================================
