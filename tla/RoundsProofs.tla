------------------------------ MODULE RoundsProofs ------------------------------
(***************************************************************************)
(* Proofs about the rounds: the letters and their count, how a round goes  *)
(* on and how it ends, and that each game of GameManager is a Round.       *)
(***************************************************************************)
EXTENDS Rounds, GameManagerProofs

-----------------------------------------------------------------------------
(* The inductive invariant *)

\* The positions that the letters of q show.
SeenIn(q) == UNION Range(q)

\* The positions of the word of g that the players see.
Shown(g) == SeenIn(quessed_chars[g])

\* Each letter is known by all its positions in w or by none.
WholeLetters(w, q) == \A ch \in Letter : q[ch] \in {{}, Positions(w, ch)}

\* FoundCharsCount of one game.
FoundFits(g) ==
    /\ \A ch \in Letter : quessed_chars[g][ch] \in {{}, Positions(word[g], ch)}
    /\ found_chars[g] = Cardinality(Shown(g))
    /\ found_chars[g] < Len(word[g])

RInv == IInv /\ FoundCharsCount

-----------------------------------------------------------------------------
(* Lemmas about lists and letters *)

\* A list without duplicates has as many elements as it is long.
LEMMA SizeOfList ==
    ASSUME NEW S, NEW s \in Seq(S), IsInjective(s)
    PROVE  IsFiniteSet(Range(s)) /\ Cardinality(Range(s)) = Len(s)
<1>1. Len(s) \in Nat /\ DOMAIN s = 1..Len(s) /\ Range(s) = {s[k] : k \in 1..Len(s)}
  BY SeqFacts
<1>2. s \in Surjection(1..Len(s), Range(s))
  BY <1>1 DEF Surjection, Range
<1>3. s \in Injection(1..Len(s), Range(s))
  BY <1>1, <1>2 DEF Surjection, Injection
<1>4. IsFiniteSet(1..Len(s)) /\ Cardinality(1..Len(s)) = Len(s)
  BY <1>1, FS_Interval
<1>. QED
  BY <1>2, <1>3, <1>4, FS_Surjection

\* Letters known by all their positions or by none: a new letter shows
\* positions that were hidden, and nothing else changes.
LEMMA LettersApart ==
    ASSUME NEW w \in Seq(Letter), NEW q \in [Letter -> SUBSET Nat], WholeLetters(w, q),
           NEW ch \in Letter, q[ch] = {}
    PROVE  /\ SeenIn(q) \subseteq DOMAIN w
           /\ Positions(w, ch) \subseteq DOMAIN w \ SeenIn(q)
           /\ SeenIn([q EXCEPT ![ch] = Positions(w, ch)]) = SeenIn(q) \cup Positions(w, ch)
           /\ Cardinality(SeenIn(q) \cup Positions(w, ch)) =
                 Cardinality(SeenIn(q)) + Cardinality(Positions(w, ch))
<1>a. PICK p : p = Positions(w, ch)
  OBVIOUS
<1>b. PICK u : u = SeenIn(q)
  OBVIOUS
<1>c. PICK r : r = [q EXCEPT ![ch] = p]
  OBVIOUS
<1>0. u = UNION {q[k] : k \in Letter}
  BY <1>b DEF Range, SeenIn
<1>1. u \subseteq DOMAIN w /\ p \subseteq DOMAIN w
  BY <1>0, <1>a DEF Positions, WholeLetters
<1>2. DOMAIN w = 1..Len(w) /\ Len(w) \in Nat
  BY SeqFacts
<1>3. IsFiniteSet(DOMAIN w)
  BY <1>2, FS_Interval
<1>4. IsFiniteSet(u) /\ IsFiniteSet(p)
  BY <1>1, <1>3, FS_Subset
<1>5. p \cap u = {}
  BY <1>0, <1>a DEF Positions, WholeLetters
<1>6. SeenIn(r) = u \cup p
  <2>1. DOMAIN r = Letter /\ r[ch] = p /\ \A k \in Letter : k # ch => r[k] = q[k]
    BY <1>c
  <2>2. SeenIn(r) = UNION {r[k] : k \in Letter}
    BY <2>1 DEF Range, SeenIn
  <2>3. SeenIn(r) \subseteq u \cup p
    BY <1>0, <2>1, <2>2
  <2>4. u \cup p \subseteq SeenIn(r)
    BY <1>0, <2>1, <2>2
  <2>. QED
    BY <2>3, <2>4
<1>7. Cardinality(u \cup p) = Cardinality(u) + Cardinality(p)
  <2>1. Cardinality(u \cup p) = Cardinality(u) + Cardinality(p) - Cardinality(u \cap p)
    BY <1>4, FS_Union
  <2>2. u \cap p = {}
    BY <1>5
  <2>3. Cardinality(u \cap p) = 0
    BY <2>2, FS_EmptySet
  <2>4. Cardinality(u) \in Nat /\ Cardinality(p) \in Nat
    BY <1>4, FS_CardinalityType
  <2>. QED
    BY <2>1, <2>3, <2>4
<1>8. p \subseteq DOMAIN w \ u
  BY <1>1, <1>5
<1>. QED
  BY <1>a, <1>b, <1>c, <1>1, <1>6, <1>7, <1>8, Zenon

\* A letter that reveals something was not known, and the count goes on by what
\* it reveals.
LEMMA GuessShows ==
    ASSUME TypeOK, NEW g \in Game, FoundFits(g), NEW ch \in Letter,
           Revealed(g, ch) # {}
    PROVE  /\ quessed_chars[g][ch] = {} /\ Revealed(g, ch) = Positions(word[g], ch)
           /\ Shown(g) \subseteq DOMAIN word[g]
           /\ Revealed(g, ch) \subseteq DOMAIN word[g] \ Shown(g)
           /\ SeenIn([quessed_chars[g] EXCEPT ![ch] = Revealed(g, ch)]) = Shown(g) \cup Revealed(g, ch)
           /\ Cardinality(Shown(g) \cup Revealed(g, ch)) =
                 found_chars[g] + Cardinality(Revealed(g, ch))
<1>1. quessed_chars[g][ch] = {} /\ Revealed(g, ch) = Positions(word[g], ch)
  BY DEF Revealed
<1>2. WholeLetters(word[g], quessed_chars[g]) /\ found_chars[g] = Cardinality(Shown(g))
  BY DEF FoundFits, WholeLetters
<1>3. PICK w \in Seq(Letter) : w = word[g]
  BY DEF TypeOK
<1>4. PICK q \in [Letter -> SUBSET Nat] : q = quessed_chars[g]
  BY DEF TypeOK
<1>5. /\ SeenIn(q) \subseteq DOMAIN w
      /\ Positions(w, ch) \subseteq DOMAIN w \ SeenIn(q)
      /\ SeenIn([q EXCEPT ![ch] = Positions(w, ch)]) = SeenIn(q) \cup Positions(w, ch)
      /\ Cardinality(SeenIn(q) \cup Positions(w, ch)) =
            Cardinality(SeenIn(q)) + Cardinality(Positions(w, ch))
  <2>1. WholeLetters(w, q) /\ q[ch] = {}
    BY <1>1, <1>2, <1>3, <1>4
  <2>. QED
    BY <2>1, LettersApart
<1>6. Shown(g) = SeenIn(q)
  BY <1>4 DEF Shown
<1>. QED
  BY <1>1, <1>2, <1>3, <1>4, <1>5, <1>6, Zenon

-----------------------------------------------------------------------------
(* The count of the letters, handler by handler *)

\* A round whose word and letters a step leaves alone keeps its count.
LEMMA FoundElsewhere ==
    ASSUME NEW g, FoundFits(g), word'[g] = word[g],
           quessed_chars'[g] = quessed_chars[g], found_chars'[g] = found_chars[g]
    PROVE  FoundFits(g)'
BY DEF FoundFits, Shown

\* A letter that is found is counted with all its positions.
LEMMA GoodQuessCounts ==
    ASSUME RInv, NEW c \in Client, NEW ch \in Letter, GoodQuess(c, ch)
    PROVE  FoundCharsCount'
<1> USE DEF RInv, IInv
<1>a. PICK g : g = game[c]
  OBVIOUS
<1>b. PICK new : new = Revealed(g, ch)
  OBVIOUS
<1>1. /\ ~spinning /\ client_state[c] = "ON_TURN" /\ new # {}
      /\ quessed_chars' = [quessed_chars EXCEPT ![g][ch] = new]
      /\ found_chars' = [found_chars EXCEPT ![g] = found_chars[g] + Cardinality(new)]
      /\ word' = word
      /\ IF found_chars[g] + Cardinality(new) = Len(word[g])
         THEN started_games' = started_games \ {g}
         ELSE started_games' = started_games
  BY <1>a, <1>b DEF GoodQuess, MayQuess, IsClientWinner, AnnounceWinner, listVars
<1>2. g \in Game /\ g \in started_games
  BY <1>a, <1>1, RoundMates DEF InGame
<1>3. \A h \in started_games : h \in Game /\ FoundFits(h)
  BY <1>1 DEF FoundCharsCount, FoundFits, Shown, SeenIn, TypeOK
<1>4. ASSUME NEW h \in started_games', h # g
      PROVE  FoundFits(h)'
  <2>1. h \in started_games /\ h \in Game /\ FoundFits(h)
    BY <1>1, <1>3
  <2>2. /\ word'[h] = word[h] /\ quessed_chars'[h] = quessed_chars[h]
        /\ found_chars'[h] = found_chars[h]
    BY <1>1, <1>4, <2>1 DEF TypeOK
  <2>. QED
    BY <2>1, <2>2, FoundElsewhere
<1>5. ASSUME g \in started_games'
      PROVE  FoundFits(g)'
  <2>1. /\ quessed_chars[g][ch] = {} /\ new = Positions(word[g], ch)
        /\ Shown(g) \subseteq DOMAIN word[g] /\ new \subseteq DOMAIN word[g]
        /\ SeenIn([quessed_chars[g] EXCEPT ![ch] = new]) = Shown(g) \cup new
        /\ Cardinality(Shown(g) \cup new) = found_chars[g] + Cardinality(new)
    BY <1>b, <1>1, <1>2, <1>3, GuessShows
  <2>2. quessed_chars'[g] = [quessed_chars[g] EXCEPT ![ch] = new]
        /\ found_chars'[g] = found_chars[g] + Cardinality(new)
    BY <1>1, <1>2 DEF TypeOK
  <2>3. Shown(g)' = Shown(g) \cup new
    BY <2>1, <2>2 DEF Shown
  <2>4. \A k \in Letter : quessed_chars'[g][k] \in {{}, Positions(word[g], k)}
    BY <1>2, <1>3, <2>1, <2>2 DEF FoundFits, TypeOK
  <2>5. found_chars'[g] < Len(word[g])
    <3>0. DOMAIN word[g] = 1..Len(word[g]) /\ Len(word[g]) \in Nat
      BY <1>2, SeqFacts DEF TypeOK
    <3>1. /\ IsFiniteSet(DOMAIN word[g]) /\ Len(word[g]) \in Nat
          /\ Cardinality(DOMAIN word[g]) = Len(word[g])
      BY <3>0, FS_Interval
    <3>2. Cardinality(Shown(g) \cup new) <= Len(word[g])
          /\ Cardinality(Shown(g) \cup new) \in Nat
      BY <2>1, <3>1, FS_Subset, FS_CardinalityType
    <3>3. found_chars'[g] # Len(word[g])
      BY <1>1, <1>5, <2>2
    <3>. QED
      BY <2>1, <2>2, <3>1, <3>2, <3>3
  <2>. QED
    BY <1>1, <2>1, <2>2, <2>3, <2>4, <2>5 DEF FoundFits, Positions
<1>. QED
  BY <1>4, <1>5 DEF FoundCharsCount, FoundFits, Shown, SeenIn

\* A round starts with no letter known.
LEMMA StartCounts ==
    ASSUME RInv, NEW c \in Client, StartGame(c)
    PROVE  FoundCharsCount'
<1> USE DEF RInv, IInv
<1>a. PICK g : g = game[c]
  OBVIOUS
<1>1. /\ ~spinning /\ client_state[c] = "LOBBY"
      /\ started_games' = started_games \cup {g}
      /\ found_chars' = [found_chars EXCEPT ![g] = 0]
      /\ quessed_chars' = [quessed_chars EXCEPT ![g] = [ch \in Letter |-> {}]]
  BY <1>a DEF StartGame, GameStart
<1>2. PICK w \in WordPool : word' = [word EXCEPT ![g] = w]
  BY <1>a, WordAssumption DEF StartGame, GameStart, RandomWords
<1>3. g \in Game
  BY <1>a, <1>1, LobbyMates
<1>4. ASSUME NEW h \in started_games', h # g
      PROVE  FoundFits(h)'
  <2>1. h \in Game /\ FoundFits(h)
    BY <1>1, <1>4 DEF FoundCharsCount, FoundFits, Shown, SeenIn, TypeOK
  <2>2. /\ word'[h] = word[h] /\ quessed_chars'[h] = quessed_chars[h]
        /\ found_chars'[h] = found_chars[h]
    BY <1>1, <1>2, <1>4, <2>1 DEF TypeOK
  <2>. QED
    BY <2>1, <2>2, FoundElsewhere
<1>5. FoundFits(g)'
  <2>1. /\ quessed_chars'[g] = [ch \in Letter |-> {}]
        /\ found_chars'[g] = 0 /\ word'[g] = w
    BY <1>1, <1>2, <1>3 DEF TypeOK
  <2>2. Len(w) > 0
    BY WordAssumption, EmptyList, SeqFacts
  <2>3. Shown(g)' = {}
    BY <2>1 DEF Shown, SeenIn, Range
  <2>4. Cardinality({}) = 0
    BY FS_EmptySet
  <2>. QED
    BY <2>1, <2>2, <2>3, <2>4 DEF FoundFits
<1>. QED
  BY <1>4, <1>5 DEF FoundCharsCount, FoundFits, Shown, SeenIn

\* All other handlers start no round and touch the letters of none.
LEMMA OthersCount ==
    ASSUME RInv, NEW c \in Client,
           \/ LogIn(c) \/ JoinGame(c) \/ Leave(c)
           \/ \E ch \in Letter : BadQuess(c, ch) \/ BadQuessSpins(c, ch)
    PROVE  FoundCharsCount'
<1> USE DEF RInv, IInv
<1>1. ASSUME ~spinning, started_games' \subseteq started_games,
             \A g \in started_games : /\ word'[g] = word[g]
                                      /\ quessed_chars'[g] = quessed_chars[g]
                                      /\ found_chars'[g] = found_chars[g]
      PROVE  FoundCharsCount'
  <2>1. \A g \in started_games' : FoundFits(g)
    BY <1>1 DEF FoundCharsCount, FoundFits, Shown, SeenIn
  <2>2. \A g \in started_games' : FoundFits(g)'
    BY <1>1, <2>1, FoundElsewhere
  <2>. QED
    BY <2>2 DEF FoundCharsCount, FoundFits, Shown, SeenIn
<1>2. CASE LogIn(c) \/ JoinGame(c) \/ LeaveUnseated(c)
  BY <1>1, <1>2 DEF LogIn, JoinGame, LeaveUnseated, roundVars, listVars
<1>3. CASE \E ch \in Letter : BadQuess(c, ch) \/ BadQuessSpins(c, ch)
  BY <1>1, <1>3 DEF BadQuess, BadQuessSpins, MayQuess, AnnounceWinner, roundVars, listVars
<1>4. CASE LeaveGame(c) \/ LeaveSpins(c)
  BY <1>1, <1>4 DEF LeaveGame, LeaveSpins, AnnounceWinner, roundVars, listVars
<1>5. CASE LeaveLobby(c)
  <2>1. /\ ~spinning /\ client_state[c] = "LOBBY" /\ started_games' = started_games
        /\ word' = word \/ \E w : word' = [word EXCEPT ![game[c]] = w]
        /\ quessed_chars' = quessed_chars
           \/ \E q : quessed_chars' = [quessed_chars EXCEPT ![game[c]] = q]
        /\ found_chars' = found_chars
           \/ \E n : found_chars' = [found_chars EXCEPT ![game[c]] = n]
    BY <1>5 DEF LeaveLobby, roundVars
  <2>2. \A g \in started_games : g # game[c] /\ g \in Game
    BY <2>1, LobbyMates DEF TypeOK
  <2>. QED
    BY <1>1, <2>1, <2>2 DEF TypeOK
<1>. QED
  BY <1>2, <1>3, <1>4, <1>5 DEF Leave

\* The count fits the letters in every reachable state.
LEMMA NextRInv == RInv /\ [Next]_vars => RInv'
<1> SUFFICES ASSUME RInv, [Next]_vars PROVE FoundCharsCount'
  BY NextIInv DEF RInv
<1>1. ASSUME NEW c \in Client, LogIn(c) \/ JoinGame(c) \/ Leave(c)
      PROVE  FoundCharsCount'
  BY <1>1, OthersCount
<1>2. ASSUME NEW c \in Client, StartGame(c)
      PROVE  FoundCharsCount'
  BY <1>2, StartCounts
<1>3. ASSUME NEW c \in Client, NEW ch \in Letter, Quess(c, ch)
      PROVE  FoundCharsCount'
  BY <1>3, OthersCount, GoodQuessCounts DEF Quess
<1>4. CASE UNCHANGED vars
  <2>1. UNCHANGED <<word, quessed_chars, found_chars, started_games, spinning>>
    BY <1>4 DEF vars, roundVars, listVars
  <2>2. spinning' = spinning /\ started_games' = started_games
    BY <2>1
  <2>3. ASSUME ~spinning, NEW g \in started_games
        PROVE  FoundFits(g)'
    <3>1. FoundFits(g)
      BY <2>3 DEF RInv, FoundCharsCount, FoundFits, Shown, SeenIn
    <3>. QED
      BY <2>1, <3>1, FoundElsewhere
  <2>. QED
    BY <2>2, <2>3 DEF FoundCharsCount, FoundFits, Shown, SeenIn
<1>. QED
  BY <1>1, <1>2, <1>3, <1>4 DEF Next, Spin

\* In every reachable state.
LEMMA RoundsInvariance == Spec => []RInv
<1>1. Init => RInv
  <2>1. Init => FoundCharsCount
    BY DEF Init, FoundCharsCount
  <2>. QED
    BY <2>1, InitIInv DEF RInv
<1>. QED
  BY <1>1, NextRInv, PTL DEF Spec

\* The counter that decides who wins counts the positions the players see, each
\* once, however the letters are guessed.
THEOREM CountCorrect == Spec => []FoundCharsCount
<1>1. RInv => FoundCharsCount
  BY DEF RInv
<1>. QED
  BY <1>1, RoundsInvariance, PTL

-----------------------------------------------------------------------------
(* How a round ends *)

\* Who is on turn is the one its game points to.
LEMMA TurnIsMine ==
    ASSUME IInv, ~spinning, NEW c \in Client, client_state[c] = "ON_TURN"
    PROVE  client_on_turn[game[c]] = c
<1>1. Held(c)
  BY DEF IInv, TurnHolder, InGame
<1>. QED
  BY <1>1 DEF Held

\* A word has as many positions as it is long.
LEMMA SizeOfWord ==
    ASSUME NEW w \in Seq(Letter)
    PROVE  IsFiniteSet(DOMAIN w) /\ Cardinality(DOMAIN w) = Len(w)
<1>1. DOMAIN w = 1..Len(w) /\ Len(w) \in Nat
  BY SeqFacts
<1>2. PICK n \in Nat : n = Len(w)
  BY <1>1
<1>3. IsFiniteSet(1..n) /\ Cardinality(1..n) = n
  <2>1. 1 \in Int /\ n \in Int
    OBVIOUS
  <2>2. IsFiniteSet(1..n) /\ Cardinality(1..n) = IF 1 > n THEN 0 ELSE n - 1 + 1
    BY <2>1, FS_Interval, Zenon
  <2>. QED
    BY <2>2
<1>. QED
  BY <1>1, <1>2, <1>3, Zenon

\* As many positions as the word is long are all of them.
LEMMA WholeWord ==
    ASSUME NEW w \in Seq(Letter), NEW p, p \subseteq DOMAIN w, Cardinality(p) = Len(w)
    PROVE  p = DOMAIN w
BY SizeOfWord, FS_Subset

\* A guessed letter ends a round when the word is complete.
LEMMA GoodQuessEnds ==
    ASSUME RInv, NEW c \in Client, NEW ch \in Letter, GoodQuess(c, ch),
           NEW g \in started_games \ started_games'
    PROVE  SeenIn(quessed_chars'[g]) = DOMAIN word[g]
<1> USE DEF RInv, IInv
<1>a. PICK new : new = Revealed(g, ch)
  OBVIOUS
<1>1. /\ ~spinning /\ client_state[c] = "ON_TURN"
      /\ started_games' = started_games \/ started_games' = started_games \ {game[c]}
  BY DEF GoodQuess, MayQuess, AnnounceWinner, listVars
<1>2. g = game[c] /\ g \in Game
  BY <1>1 DEF TypeOK
<1>3. /\ new # {}
      /\ quessed_chars' = [quessed_chars EXCEPT ![g][ch] = new]
      /\ found_chars[g] + Cardinality(new) = Len(word[g])
  BY <1>a, <1>2 DEF GoodQuess, IsClientWinner, listVars
<1>4. FoundFits(g)
  BY <1>1 DEF FoundCharsCount, FoundFits, Shown, SeenIn
<1>5. /\ Shown(g) \subseteq DOMAIN word[g] /\ new \subseteq DOMAIN word[g]
      /\ SeenIn([quessed_chars[g] EXCEPT ![ch] = new]) = Shown(g) \cup new
      /\ Cardinality(Shown(g) \cup new) = found_chars[g] + Cardinality(new)
  BY <1>a, <1>2, <1>3, <1>4, GuessShows
<1>6. quessed_chars'[g] = [quessed_chars[g] EXCEPT ![ch] = new]
  BY <1>2, <1>3 DEF TypeOK
<1>7. PICK w \in Seq(Letter) : w = word[g]
  BY <1>2 DEF TypeOK
<1>8. PICK p : p = Shown(g) \cup new
  OBVIOUS
<1>9. p \subseteq DOMAIN w /\ Cardinality(p) = Len(w)
  BY <1>3, <1>5, <1>7, <1>8
<1>10. p = DOMAIN w
  BY <1>9, WholeWord
<1>. QED
  BY <1>5, <1>6, <1>7, <1>8, <1>10

\* A wrong guess ends a round when one player is alive after it.
LEMMA BadQuessEnds ==
    ASSUME RInv, NEW c \in Client, NEW ch \in Letter, BadQuess(c, ch),
           NEW g \in started_games \ started_games'
    PROVE  \E w \in Members(g) : \A p \in Members(g) \ {w} :
              hp[p] = 0 \/ (p = client_on_turn[g] /\ hp[p] = 1)
<1> USE DEF RInv, IInv
<1>1. /\ ~spinning /\ client_state[c] = "ON_TURN"
      /\ started_games' = started_games \/ started_games' = started_games \ {game[c]}
  BY DEF BadQuess, MayQuess, AnnounceWinner, listVars
<1>2. g = game[c] /\ g \in Game
  BY <1>1 DEF TypeOK
<1>3. PICK h : h = Hurt(c)
  OBVIOUS
<1>4. Cardinality(Alive(players[g], h)) = 1
  BY <1>2, <1>3 DEF BadQuess, listVars
<1>5. players[g] \in Seq(Client) /\ Members(g) \subseteq Client
  BY <1>1, <1>2, SeatFacts DEF Members
<1>6. /\ h \in [Client -> 0..STARTING_HP]
      /\ \A d \in Client : d # c => h[d] = hp[d]
      /\ h[c] = hp[c] - 1
  <2>1. /\ Hurt(c) \in [Client -> 0..STARTING_HP]
        /\ \A d \in Client : d # c => Hurt(c)[d] = hp[d]
    BY <1>1, HurtFacts
  <2>2. Hurt(c)[c] = hp[c] - 1
    BY DEF Hurt, TypeOK
  <2>. QED
    BY <1>3, <2>1, <2>2
<1>7. client_on_turn[g] = c
  BY <1>1, <1>2, TurnIsMine
<1>8. IsFiniteSet(Alive(players[g], h))
  <2>1. IsFiniteSet(Members(g))
    BY <1>1, <1>2, SeatFacts, SizeOfList DEF Members
  <2>2. Alive(players[g], h) \subseteq Members(g)
    BY DEF Alive, Members
  <2>. QED
    BY <2>1, <2>2, FS_Subset
<1>9. PICK w : Alive(players[g], h) = {w}
  BY <1>4, <1>8, FS_Singleton
<1>10. w \in Members(g)
  BY <1>9 DEF Alive, Members
<1>11. ASSUME NEW p \in Members(g) \ {w}
       PROVE  hp[p] = 0 \/ (p = client_on_turn[g] /\ hp[p] = 1)
  <2>1. p \in Client /\ ~(h[p] > 0) /\ h[p] \in 0..STARTING_HP /\ hp[p] \in 0..STARTING_HP
    BY <1>5, <1>6, <1>9, <1>11 DEF Alive, Members, IsAlive, TypeOK
  <2>2. h[p] = 0
    BY <2>1, HPAssumption
  <2>. QED
    BY <1>6, <1>7, <2>1, <2>2
<1>. QED
  BY <1>10, <1>11

\* Somebody who leaves ends a round when one player is left.
LEMMA LeaveEnds ==
    ASSUME RInv, NEW c \in Client, Leave(c),
           NEW g \in started_games \ started_games'
    PROVE  Len(players'[g]) = 1
<1> USE DEF RInv, IInv
<1>1. LeaveGame(c)
  BY DEF Leave, LeaveUnseated, LeaveLobby, LeaveSpins, listVars
<1>2. PICK left : left = Without(players[game[c]], c)
  OBVIOUS
<1>3. /\ players' = [players EXCEPT ![game[c]] = left]
      /\ started_games' = started_games \/ started_games' = started_games \ {game[c]}
  BY <1>1, <1>2 DEF LeaveGame, AnnounceWinner, listVars
<1>4. g = game[c] /\ g \in Game
  BY <1>3 DEF TypeOK
<1>5. Len(left) = 1
  BY <1>1, <1>2, <1>4 DEF LeaveGame, listVars
<1>. QED
  BY <1>3, <1>4, <1>5 DEF TypeOK

\* A round ends for a reason of the rules only: the word is complete, one player
\* is alive after a wrong guess, or one player is left.
THEOREM EndsByTheRules == Spec => RoundEndsByTheRules
<1>1. RInv /\ [Next]_vars =>
        [\A g \in started_games \ started_games' :
            \/ UNION Range(quessed_chars[g]') = DOMAIN word[g]
            \/ Len(players[g]') = 1
            \/ \E w \in Members(g) : \A p \in Members(g) \ {w} :
                  hp[p] = 0 \/ (p = client_on_turn[g] /\ hp[p] = 1)]_vars
  <2> SUFFICES ASSUME RInv, Next, NEW g \in started_games \ started_games'
               PROVE  \/ UNION Range(quessed_chars[g]') = DOMAIN word[g]
                      \/ Len(players[g]') = 1
                      \/ \E w \in Members(g) : \A p \in Members(g) \ {w} :
                            hp[p] = 0 \/ (p = client_on_turn[g] /\ hp[p] = 1)
    OBVIOUS
  <2>1. ASSUME NEW c \in Client, LogIn(c) \/ JoinGame(c) \/ StartGame(c)
        PROVE  FALSE
    BY <2>1 DEF LogIn, JoinGame, StartGame, listVars
  <2>2. ASSUME NEW c \in Client, Leave(c)
        PROVE  Len(players'[g]) = 1
    BY <2>2, LeaveEnds
  <2>3. ASSUME NEW c \in Client, NEW ch \in Letter, GoodQuess(c, ch)
        PROVE  UNION Range(quessed_chars[g]') = DOMAIN word[g]
    BY <2>3, GoodQuessEnds DEF SeenIn
  <2>4. ASSUME NEW c \in Client, NEW ch \in Letter, BadQuess(c, ch)
        PROVE  \E w \in Members(g) : \A p \in Members(g) \ {w} :
                  hp[p] = 0 \/ (p = client_on_turn[g] /\ hp[p] = 1)
    BY <2>4, BadQuessEnds
  <2>5. ASSUME NEW c \in Client, NEW ch \in Letter, BadQuessSpins(c, ch)
        PROVE  FALSE
    BY <2>5 DEF BadQuessSpins, listVars
  <2>6. ~Spin
    BY DEF Spin, vars, listVars
  <2>. QED
    BY <2>1, <2>2, <2>3, <2>4, <2>5, <2>6 DEF Next, Quess
<1>. QED
  BY <1>1, RoundsInvariance, PTL DEF Spec, RoundEndsByTheRules

-----------------------------------------------------------------------------
(* The order of turns *)

\* The remainder of a number that is less than two rounds.
LEMMA OnceAround ==
    ASSUME NEW n \in Nat \ {0}, NEW x \in Nat, x < n + n
    PROVE  x % n = IF x < n THEN x ELSE x - n
<1>1. CASE x < n
  BY <1>1
<1>2. CASE x >= n
  <2>1. PICK q \in Int : q = x \div n
    OBVIOUS
  <2>2. PICK r \in Int : r = x % n
    OBVIOUS
  <2>3. x = n * q + r /\ 0 <= r /\ r < n
    BY <2>1, <2>2
  <2>. QED
    BY <1>2, <2>1, <2>2, <2>3
<1>. QED
  BY <1>1, <1>2

\* How far the player p comes after the place from.
StepsFrom(ps, from, p) == (Find(ps, p) - from + Len(ps)) % Len(ps)

\* The player in the k-th place that the loop of nextClient visits is k steps
\* away, the last one no step: it is the one the loop started from.
LEMMA VisitedIsSteps ==
    ASSUME NEW ps \in Seq(Client), IsInjective(ps), NEW from \in 1..Len(ps),
           NEW k \in 1..Len(ps)
    PROVE  /\ Visited(ps, from, k) \in Range(ps)
           /\ StepsFrom(ps, from, Visited(ps, from, k)) = IF k = Len(ps) THEN 0 ELSE k
<1>1. PICK n \in Nat \ {0} : n = Len(ps)
  BY SeqFacts
<1>2. PICK i \in 1..n : i = IF from + k <= n THEN from + k ELSE from + k - n
  <2>1. (IF from + k <= n THEN from + k ELSE from + k - n) \in 1..n
    BY <1>1
  <2>. QED
    BY <2>1
<1>3. Visited(ps, from, k) = ps[i]
  BY <1>1, <1>2 DEF Visited
<1>4. ps[i] \in Range(ps)
  BY <1>1, <1>2, SeqFacts
<1>5. Find(ps, ps[i]) = i
  <2>1. Find(ps, ps[i]) \in 1..Len(ps) /\ ps[Find(ps, ps[i])] = ps[i]
    BY <1>4, FindFinds
  <2>2. DOMAIN ps = 1..Len(ps)
    BY SeqFacts
  <2>. QED
    BY <1>1, <2>1, <2>2 DEF IsInjective
<1>6. PICK x \in Nat : x = i - from + n
  <2>1. i - from + n \in Nat
    BY <1>1
  <2>. QED
    BY <2>1
<1>7. x < n + n /\ (IF x < n THEN x ELSE x - n) = IF k = n THEN 0 ELSE k
  BY <1>1, <1>2, <1>6
<1>8. x % n = IF k = n THEN 0 ELSE k
  BY <1>7, OnceAround
<1>. QED
  BY <1>1, <1>3, <1>4, <1>5, <1>6, <1>8 DEF StepsFrom

\* A player that is d steps away is the one the loop visits as the d-th.
LEMMA StepsIsVisited ==
    ASSUME NEW ps \in Seq(Client), NEW from \in 1..Len(ps), NEW p \in Range(ps),
           NEW d, d = StepsFrom(ps, from, p), d > 0
    PROVE  d \in 1..(Len(ps) - 1) /\ Visited(ps, from, d) = p /\ p # ps[from]
<1>1. PICK n \in Nat \ {0} : n = Len(ps)
  BY SeqFacts
<1>2. PICK i \in 1..n : i = Find(ps, p) /\ ps[i] = p
  BY <1>1, FindFinds
<1>3. PICK x \in Nat : x = i - from + n /\ x < n + n
  <2>1. i - from + n \in Nat /\ i - from + n < n + n
    BY <1>1
  <2>. QED
    BY <2>1
<1>4. d = IF x < n THEN x ELSE x - n
  BY <1>1, <1>2, <1>3, OnceAround DEF StepsFrom
<1>5. d \in 1..(n - 1) /\ i # from
  BY <1>1, <1>3, <1>4
<1>6. i = IF from + d <= n THEN from + d ELSE from + d - n
  BY <1>1, <1>2, <1>3, <1>4
<1>7. Visited(ps, from, d) = ps[i]
  BY <1>1, <1>6 DEF Visited
<1>. QED
  BY <1>1, <1>2, <1>5, <1>7 DEF Find

\* The part of TurnPassesNobodyAlive about the game g: the players between the old
\* and the new one on turn have no life points left.
PassesNobodyAlive(g) ==
    LET from == Find(players[g], client_on_turn[g])
        Steps(p) == (Find(players[g], p) - from + Len(players[g])) % Len(players[g])
    IN \A p \in Members(g) :
          Steps(p) \in 1..(Steps(client_on_turn[g]') - 1) => hp[p] = 0

\* A wrong guess moves the turn to the first one behind that is alive.
LEMMA BadQuessPassesNobody ==
    ASSUME IInv, NEW c \in Client, NEW ch \in Letter, BadQuess(c, ch),
           NEW g, g = game[c]
    PROVE  PassesNobodyAlive(g)
<1> USE DEF IInv
<1>1. ~spinning /\ client_state[c] = "ON_TURN"
  BY DEF BadQuess, MayQuess
<1>2. PICK ps \in Seq(Client) : ps = players[g] /\ IsInjective(ps) /\ c \in Range(ps) /\ g \in Game
  BY <1>1, RoundMates, SeatFacts DEF InGame
<1>3. PICK from \in 1..Len(ps) : from = Find(ps, c) /\ ps[from] = c
  BY <1>2, FindFinds
<1>4. client_on_turn[g] = c
  BY <1>1, TurnIsMine
<1>5. PICK h \in [Client -> Int] : h = Hurt(c) /\ \A d \in Client : d # c => h[d] = hp[d]
  BY <1>1, HurtFacts
<1>6. Alive(ps, h) # {} /\ client_on_turn'[g] = NextClient(ps, from, h)
  BY <1>2, <1>3, <1>4, <1>5 DEF BadQuess, TypeOK
<1>7. from \in 0..Len(ps) /\ Len(ps) \in Nat
  BY SeqFacts
<1>8. PICK k \in 1..Len(ps) : /\ NextClient(ps, from, h) = Visited(ps, from, k)
                              /\ \A j \in 1..(k - 1) : ~IsAlive(Visited(ps, from, j), h)
  BY <1>6, <1>7, NextClientIsFirst
<1>9. StepsFrom(ps, from, client_on_turn'[g]) = IF k = Len(ps) THEN 0 ELSE k
  BY <1>2, <1>6, <1>8, VisitedIsSteps
<1>10. ASSUME NEW p \in Members(g),
              StepsFrom(ps, from, p) \in 1..(StepsFrom(ps, from, client_on_turn'[g]) - 1)
       PROVE  hp[p] = 0
  <2>1. PICK d : d = StepsFrom(ps, from, p)
    OBVIOUS
  <2>2. d \in 1..(k - 1)
    BY <1>7, <1>9, <1>10, <2>1
  <2>3. p \in Range(ps) /\ p \in Client
    BY <1>2, SeqFacts DEF Members
  <2>4. Visited(ps, from, d) = p /\ p # c
    BY <1>3, <2>1, <2>2, <2>3, StepsIsVisited
  <2>5. ~(h[p] > 0)
    BY <1>8, <2>2, <2>4 DEF IsAlive
  <2>6. hp[p] \in 0..STARTING_HP /\ h[p] = hp[p]
    BY <1>5, <2>3, <2>4 DEF TypeOK
  <2>. QED
    BY <2>5, <2>6, HPAssumption
<1>. QED
  BY <1>2, <1>3, <1>4, <1>10 DEF PassesNobodyAlive, StepsFrom

\* Whatever else changes who is on turn starts a round or changes its players.
LEMMA OnlyBadQuessPasses ==
    ASSUME IInv, Next, NEW g \in Game, StillStarted(g), players[g]' = players[g],
           client_on_turn[g]' # client_on_turn[g]
    PROVE  \E c \in Client, ch \in Letter : BadQuess(c, ch) /\ g = game[c]
<1> USE DEF IInv
<1>1. g \in started_games
  BY DEF StillStarted
<1>2. ASSUME NEW c \in Client, LogIn(c) \/ JoinGame(c) \/ LeaveUnseated(c) \/ LeaveSpins(c)
      PROVE  FALSE
  BY <1>2 DEF LogIn, JoinGame, LeaveUnseated, LeaveSpins
<1>3. ASSUME NEW c \in Client, ~spinning, client_state[c] = "LOBBY",
             \/ client_on_turn' = client_on_turn
             \/ \E t : client_on_turn' = [client_on_turn EXCEPT ![game[c]] = t]
      PROVE  FALSE
  <2>1. game[c] \notin started_games
    BY <1>3, LobbyMates
  <2>. QED
    BY <1>1, <1>3, <2>1 DEF TypeOK
<1>4. ASSUME NEW c \in Client, StartGame(c) \/ LeaveLobby(c)
      PROVE  FALSE
  <2>1. CASE StartGame(c)
    BY <1>3, <2>1 DEF StartGame, GameStart
  <2>2. CASE LeaveLobby(c)
    BY <1>3, <2>2 DEF LeaveLobby
  <2>. QED
    BY <1>4, <2>1, <2>2
<1>5. ASSUME NEW c \in Client, LeaveGame(c)
      PROVE  FALSE
  <2>1. PICK left : left = Without(players[game[c]], c)
    OBVIOUS
  <2>2. /\ ~spinning /\ client_state[c] \in InGame
        /\ players' = [players EXCEPT ![game[c]] = left]
        /\ \E t : client_on_turn' = [client_on_turn EXCEPT ![game[c]] = t]
    BY <1>5, <2>1 DEF LeaveGame
  <2>3. g = game[c]
    BY <2>2 DEF TypeOK
  <2>4. players[g] \in Seq(Client) /\ IsInjective(players[g]) /\ c \in Range(players[g])
    BY <2>2, <2>3, RoundMates, SeatFacts
  <2>5. Range(left) = Range(players[g]) \ {c}
    BY <2>1, <2>3, <2>4, WithoutRemoves
  <2>6. players'[g] = left
    BY <2>2, <2>3 DEF TypeOK
  <2>. QED
    BY <2>4, <2>5, <2>6
<1>6. ASSUME NEW c \in Client, NEW ch \in Letter, Quess(c, ch)
      PROVE  BadQuess(c, ch) /\ g = game[c]
  <2>1. BadQuess(c, ch)
    BY <1>6 DEF Quess, BadQuessSpins, GoodQuess
  <2>2. \E t : client_on_turn' = [client_on_turn EXCEPT ![game[c]] = t]
    BY <2>1 DEF BadQuess
  <2>3. g = game[c]
    BY <2>2 DEF TypeOK
  <2>. QED
    BY <2>1, <2>3
<1>7. ~Spin
  BY DEF Spin, vars
<1>. QED
  BY <1>2, <1>4, <1>5, <1>6, <1>7 DEF Next, Leave

\* While the players stay the same, the turn moves on only past the dead.
THEOREM TurnPassesOnlyDead == Spec => TurnPassesNobodyAlive
<1>1. IInv /\ [Next]_vars =>
        [\A g \in Game :
            (StillStarted(g) /\ players[g]' = players[g] /\ client_on_turn[g]' # client_on_turn[g]) =>
                LET from == Find(players[g], client_on_turn[g])
                    Steps(p) == (Find(players[g], p) - from + Len(players[g])) % Len(players[g])
                IN \A p \in Members(g) :
                      Steps(p) \in 1..(Steps(client_on_turn[g]') - 1) => hp[p] = 0]_vars
  <2>1. ASSUME IInv, Next, NEW g \in Game, StillStarted(g), players[g]' = players[g],
               client_on_turn[g]' # client_on_turn[g]
        PROVE  PassesNobodyAlive(g)
    BY <2>1, OnlyBadQuessPasses, BadQuessPassesNobody
  <2>. QED
    BY <2>1 DEF PassesNobodyAlive
<1>. QED
  BY <1>1, Invariance, PTL DEF Spec, TurnPassesNobodyAlive

-----------------------------------------------------------------------------
(* Each game is a Round: what the steps of Round say of the variables here *)

\* The variables of Round for the game g, as the mapping of Rounds gives them.
\* The seats are Members(g).
Phase(g) == IF IsStarted(g) THEN "round" ELSE IF Live(g) THEN "lobby" ELSE "empty"
Turn(g) == IF IsStarted(g) THEN client_on_turn[g] ELSE NoClient
LivesOf(g) == [c \in Client |-> IF c \in Members(g) THEN hp[c] ELSE 0]
Hidden(g) == IF IsStarted(g) THEN DOMAIN word[g] \ UNION Range(quessed_chars[g]) ELSE {}

\* Cardinality is the same operator in the instance.
LEMMA SameCardinality ==
    ASSUME NEW g, NEW S
    PROVE  R(g)!Cardinality(S) = Cardinality(S)
BY DEF R!Cardinality, Cardinality

\* Nothing happens in the game g.
Untouched(g) ==
    /\ Phase(g)' = Phase(g) /\ Members(g)' = Members(g) /\ Turn(g)' = Turn(g)
    /\ LivesOf(g)' = LivesOf(g) /\ Hidden(g)' = Hidden(g) /\ spinning' = spinning

\* To the players that is a step of Round that changes nothing.
LEMMA RoundStutters ==
    ASSUME NEW g, Untouched(g)
    PROVE  UNCHANGED R(g)!vars
BY DEF R!vars, Untouched, Phase, Turn, LivesOf, Hidden

\* Enter of Round.
LEMMA RoundEnters ==
    ASSUME NEW g, NEW p \in Client, ~spinning,
           Phase(g) # "round", p \notin Members(g), Cardinality(Members(g)) < LOBBY_SIZE,
           Phase(g)' = "lobby", Members(g)' = Members(g) \cup {p},
           LivesOf(g)' = [LivesOf(g) EXCEPT ![p] = STARTING_HP],
           Turn(g)' = Turn(g), Hidden(g)' = Hidden(g), spinning' = spinning
    PROVE  R(g)!Next
<1>1. R(g)!Enter(p)
  BY SameCardinality DEF R!Enter, Phase, Turn, LivesOf, Hidden
<1>. QED
  BY <1>1 DEF R!Next

\* Begin of Round.
LEMMA RoundBegins ==
    ASSUME NEW g, ~spinning,
           Phase(g) = "lobby", Cardinality(Members(g)) >= 2,
           \A p \in Members(g) : LivesOf(g)[p] = STARTING_HP,
           Phase(g)' = "round", Turn(g)' \in Members(g),
           Hidden(g)' \subseteq Nat, Hidden(g)' # {},
           Members(g)' = Members(g), LivesOf(g)' = LivesOf(g), spinning' = spinning
    PROVE  R(g)!Next
<1>1. R(g)!Begin
  BY SameCardinality DEF R!Begin, Phase, Turn, LivesOf, Hidden
<1>. QED
  BY <1>1 DEF R!Next

\* Finish of Round for the players s.
Finished(g, s) ==
    /\ Phase(g)' = "lobby" /\ Members(g)' = s /\ Turn(g)' = NoClient
    /\ LivesOf(g)' = [p \in Client |-> IF p \in s THEN STARTING_HP ELSE 0]
    /\ Hidden(g)' = {}

\* Right of Round.
LEMMA RoundGoesRight ==
    ASSUME NEW g, ~spinning, Phase(g) = "round",
           NEW found \in SUBSET Hidden(g), found # {},
           IF found = Hidden(g)
           THEN Finished(g, Members(g))
           ELSE /\ Hidden(g)' = Hidden(g) \ found /\ Phase(g)' = Phase(g)
                /\ Members(g)' = Members(g) /\ Turn(g)' = Turn(g) /\ LivesOf(g)' = LivesOf(g),
           spinning' = spinning
    PROVE  R(g)!Next
<1>1. CASE found = Hidden(g)
  <2>1. R(g)!Finish(Members(g))
    BY <1>1 DEF R!Finish, Finished, Phase, Turn, LivesOf, Hidden
  <2>2. R(g)!Right
    BY <1>1, <2>1 DEF R!Right, Phase, Hidden
  <2>. QED
    BY <2>2 DEF R!Next
<1>2. CASE found # Hidden(g)
  <2>1. R(g)!Right
    BY <1>2 DEF R!Right, Phase, Turn, LivesOf, Hidden
  <2>. QED
    BY <2>1 DEF R!Next
<1>. QED
  BY <1>1, <1>2

\* Those of s who can go on with the lives l.
CanPlayOn(s, l) == {p \in s : l[p] > 0}

\* Wrong of Round.
LEMMA RoundGoesWrong ==
    ASSUME NEW g, ~spinning, Phase(g) = "round",
           NEW hurt, hurt = [LivesOf(g) EXCEPT ![Turn(g)] = @ - 1],
           NEW left, left = CanPlayOn(Members(g), hurt),
           \/ Cardinality(left) = 1 /\ Finished(g, Members(g))
           \/ /\ Cardinality(left) >= 2
              /\ Turn(g)' \in left \ {Turn(g)} /\ LivesOf(g)' = hurt
              /\ Phase(g)' = Phase(g) /\ Members(g)' = Members(g) /\ Hidden(g)' = Hidden(g),
           spinning' = spinning
    PROVE  R(g)!Next
<1>1. CASE Cardinality(left) = 1 /\ Finished(g, Members(g))
  <2>1. R(g)!Finish(Members(g))
    BY <1>1 DEF R!Finish, Finished, Phase, Turn, LivesOf, Hidden
  <2>2. R(g)!Wrong
    BY <1>1, <2>1, SameCardinality DEF R!Wrong, R!CanPlay, CanPlayOn, Phase, Turn, LivesOf
  <2>. QED
    BY <2>2 DEF R!Next
<1>2. CASE /\ Cardinality(left) >= 2
           /\ Turn(g)' \in left \ {Turn(g)} /\ LivesOf(g)' = hurt
           /\ Phase(g)' = Phase(g) /\ Members(g)' = Members(g) /\ Hidden(g)' = Hidden(g)
  <2>1. R(g)!Wrong
    BY <1>2, SameCardinality DEF R!Wrong, R!CanPlay, CanPlayOn, Phase, Turn, LivesOf, Hidden
  <2>. QED
    BY <2>1 DEF R!Next
<1>. QED
  BY <1>1, <1>2

\* Exit of Round.
LEMMA RoundIsLeft ==
    ASSUME NEW g, NEW p \in Client, ~spinning, Phase(g) = "lobby", p \in Members(g),
           Members(g)' = Members(g) \ {p},
           Phase(g)' = IF Members(g)' = {} THEN "empty" ELSE "lobby",
           LivesOf(g)' = [LivesOf(g) EXCEPT ![p] = 0],
           Turn(g)' = Turn(g), Hidden(g)' = Hidden(g), spinning' = spinning
    PROVE  R(g)!Next
<1>1. R(g)!Exit(p)
  BY DEF R!Exit, Phase, Turn, LivesOf, Hidden
<1>. QED
  BY <1>1 DEF R!Next

\* Quit of Round.
LEMMA RoundIsQuit ==
    ASSUME NEW g, NEW p \in Client, ~spinning, Phase(g) = "round", p \in Members(g),
           NEW left, left = Members(g) \ {p},
           \/ Cardinality(left) = 1 /\ Finished(g, left)
           \/ /\ Cardinality(left) >= 2
              /\ IF p = Turn(g) THEN Turn(g)' \in CanPlayOn(left, LivesOf(g))
                                ELSE Turn(g)' = Turn(g)
              /\ Members(g)' = left /\ LivesOf(g)' = [LivesOf(g) EXCEPT ![p] = 0]
              /\ Phase(g)' = Phase(g) /\ Hidden(g)' = Hidden(g),
           spinning' = spinning
    PROVE  R(g)!Next
<1>1. CASE Cardinality(left) = 1 /\ Finished(g, left)
  <2>1. R(g)!Finish(Members(g) \ {p})
    BY <1>1 DEF R!Finish, Finished, Phase, Turn, LivesOf, Hidden
  <2>2. R(g)!Cardinality(left) = 1 /\ Phase(g) = "round" /\ p \in Members(g)
    BY <1>1, SameCardinality
  <2>3. R(g)!Quit(p)
    BY <1>1, <2>1, <2>2 DEF R!Quit, Phase
  <2>. QED
    BY <2>3 DEF R!Next
<1>2. CASE /\ Cardinality(left) >= 2
           /\ IF p = Turn(g) THEN Turn(g)' \in CanPlayOn(left, LivesOf(g))
                             ELSE Turn(g)' = Turn(g)
           /\ Members(g)' = left /\ LivesOf(g)' = [LivesOf(g) EXCEPT ![p] = 0]
           /\ Phase(g)' = Phase(g) /\ Hidden(g)' = Hidden(g)
  <2>1. R(g)!Quit(p)
    BY <1>2, SameCardinality DEF R!Quit, R!CanPlay, CanPlayOn, Phase, Turn, LivesOf, Hidden
  <2>. QED
    BY <2>1 DEF R!Next
<1>. QED
  BY <1>1, <1>2

\* Lose of Round.
LEMMA RoundIsLost ==
    ASSUME NEW g, ~spinning, spinning' = TRUE,
           Phase(g)' = Phase(g), Turn(g)' = Turn(g), Hidden(g)' = Hidden(g),
           \/ Members(g)' = Members(g) /\ LivesOf(g)' = LivesOf(g)
           \/ /\ Phase(g) = "round"
              /\ CanPlayOn(Members(g)', LivesOf(g)') = {}
              /\ LivesOf(g)' = [LivesOf(g) EXCEPT ![Turn(g)] = 0]
              /\ Members(g)' \in {Members(g), Members(g) \ {Turn(g)}}
    PROVE  R(g)!Next
<1>1. R(g)!Lose
  BY DEF R!Lose, R!CanPlay, CanPlayOn, Phase, Turn, LivesOf, Hidden
<1>. QED
  BY <1>1 DEF R!Next

-----------------------------------------------------------------------------
(* Each game is a Round, handler by handler *)

\* A game that a step leaves alone.
LEMMA GameElsewhere ==
    ASSUME NEW g, g \in started_games' <=> g \in started_games,
           players'[g] = players[g], client_on_turn'[g] = client_on_turn[g],
           word'[g] = word[g], quessed_chars'[g] = quessed_chars[g],
           \A d \in Members(g) : hp'[d] = hp[d]
    PROVE  /\ Phase(g)' = Phase(g) /\ Members(g)' = Members(g) /\ Turn(g)' = Turn(g)
           /\ LivesOf(g)' = LivesOf(g) /\ Hidden(g)' = Hidden(g)
<1>1. Members(g)' = Members(g)
  BY DEF Members
<1>2. LivesOf(g)' = LivesOf(g)
  BY <1>1 DEF LivesOf
<1>. QED
  BY <1>1, <1>2 DEF Phase, Turn, Hidden, IsStarted, Live

\* Who sits in a game sits in no other one.
LEMMA OneSeatOnly ==
    ASSUME IInv, ~spinning, NEW g \in Game, NEW d \in Members(g)
    PROVE  d \in Client /\ game[d] = g /\ client_state[d] \in Seated
BY SeatFacts DEF IInv, Members

\* As many seats as the list of players is long.
LEMMA SeatsAreCounted ==
    ASSUME IInv, ~spinning, NEW g \in Game
    PROVE  /\ players[g] \in Seq(Client) /\ IsInjective(players[g])
           /\ Members(g) \subseteq Client /\ IsFiniteSet(Members(g))
           /\ Cardinality(Members(g)) = Len(players[g]) /\ Len(players[g]) \in Nat
           /\ Live(g) <=> Members(g) # {}
<1>1. players[g] \in Seq(Client) /\ IsInjective(players[g])
  BY SeatFacts DEF IInv
<1>. QED
  BY <1>1, SizeOfList, SeqFacts, EmptyList DEF Members, Live

\* A client that has no seat changes no game.
LEMMA UnseatedStep ==
    ASSUME RInv, NEW c \in Client, LogIn(c) \/ LeaveUnseated(c), NEW g \in Game
    PROVE  Untouched(g)
<1>1. UNCHANGED <<players, client_on_turn, hp, word, quessed_chars, started_games, spinning>>
  BY DEF LogIn, LeaveUnseated, roundVars, listVars
<1>. QED
  BY <1>1, GameElsewhere DEF Untouched

\* JOIN is Enter in the game it picks.
LEMMA JoinIsEnter ==
    ASSUME RInv, NEW c \in Client, JoinGame(c), NEW g \in Game
    PROVE  R(g)!Next \/ Untouched(g)
<1> USE DEF RInv, IInv
<1>1. /\ ~spinning /\ client_state[c] = "LOGGED" /\ spinning' = spinning
      /\ hp' = [hp EXCEPT ![c] = STARTING_HP]
      /\ UNCHANGED <<client_on_turn, word, quessed_chars, started_games>>
  BY DEF JoinGame, roundVars
<1>2. PICK h \in Game : /\ JoinableGame(h)
                        /\ players' = [players EXCEPT ![h] = AddClient(h, c)]
  BY DEF JoinGame
<1>3. \A k \in Game : c \notin Members(k)
  BY <1>1, OneSeatOnly DEF Seated, InGame
<1>4. CASE g # h
  <2>1. \A d \in Members(g) : hp'[d] = hp[d]
    BY <1>1, <1>3, SeatsAreCounted DEF TypeOK
  <2>. QED
    BY <1>1, <1>2, <1>4, <2>1, GameElsewhere DEF Untouched, TypeOK
<1>5. CASE g = h
  <2>1. g \notin started_games /\ Len(players[g]) < LOBBY_SIZE
    <3>1. CASE not_started_games = <<>>
      <4>1. Len(players[g]) = 0
        BY <1>2, <1>5, <3>1, EmptyList DEF JoinableGame, Live, TypeOK
      <4>. QED
        BY <1>1, <4>1, LobbyAssumption DEF ListsMatchGames, Placed
    <3>2. CASE not_started_games # <<>>
      <4>1. g \in Range(not_started_games)
        BY <1>2, <1>5, <3>2, FrontOfList DEF JoinableGame, TypeOK
      <4>2. InLobby(g) /\ Live(g) /\ Len(players[g]) < LOBBY_SIZE
        BY <1>1, <4>1 DEF ListsMatchGames, Placed
      <4>3. PICK d \in Members(g) : TRUE
        BY <1>1, <4>2, SeatsAreCounted
      <4>4. ~Playing(g)
        BY <4>2, <4>3 DEF InLobby, Playing, InGame
      <4>. QED
        BY <1>1, <4>2, <4>4 DEF ListsMatchGames, Placed
    <3>. QED
      BY <3>1, <3>2
  <2>2. players'[g] = Append(players[g], c)
    BY <1>2, <1>5 DEF TypeOK, AddClient
  <2>3. /\ Members(g)' = Members(g) \cup {c}
        /\ players'[g] # <<>>
    <3>1. players[g] \in Seq(Client)
      BY DEF TypeOK
    <3>2. Append(players[g], c) \in Seq(Client) /\ Range(Append(players[g], c)) = Range(players[g]) \cup {c}
      BY <3>1, AppendAdds
    <3>. QED
      BY <2>2, <3>2, EmptyList DEF Members
  <2>4. Phase(g) # "round" /\ Phase(g)' = "lobby"
    BY <1>1, <2>1, <2>3 DEF Phase, IsStarted, Live
  <2>5. LivesOf(g)' = [LivesOf(g) EXCEPT ![c] = STARTING_HP]
    BY <1>1, <2>3 DEF LivesOf, TypeOK
  <2>6. Turn(g)' = Turn(g) /\ Hidden(g)' = Hidden(g)
    BY <1>1, <2>1 DEF Turn, Hidden, IsStarted
  <2>7. Cardinality(Members(g)) < LOBBY_SIZE
    BY <1>1, <2>1, SeatsAreCounted
  <2>. QED
    BY <1>1, <1>3, <2>3, <2>4, <2>5, <2>6, <2>7, RoundEnters
<1>. QED
  BY <1>4, <1>5

\* START is Begin in the game of the client.
LEMMA StartIsBegin ==
    ASSUME RInv, NEW c \in Client, StartGame(c), NEW g \in Game
    PROVE  R(g)!Next \/ Untouched(g)
<1> USE DEF RInv, IInv
<1>a. PICK h : h = game[c]
  OBVIOUS
<1>1. /\ ~spinning /\ client_state[c] = "LOBBY" /\ Len(players[h]) >= 2
      /\ started_games' = started_games \cup {h}
      /\ client_on_turn' = [client_on_turn EXCEPT ![h] = Head(players[h])]
      /\ quessed_chars' = [quessed_chars EXCEPT ![h] = [ch \in Letter |-> {}]]
      /\ UNCHANGED <<hp, players, spinning>>
  BY <1>a DEF StartGame, GameStart
<1>2. PICK w \in WordPool : word' = [word EXCEPT ![h] = w]
  BY <1>a, WordAssumption DEF StartGame, GameStart, RandomWords
<1>3. CASE g # h
  <2>1. /\ g \in started_games' <=> g \in started_games
        /\ client_on_turn'[g] = client_on_turn[g] /\ word'[g] = word[g]
        /\ quessed_chars'[g] = quessed_chars[g]
    BY <1>1, <1>2, <1>3 DEF TypeOK
  <2>. QED
    BY <1>1, <2>1, GameElsewhere DEF Untouched
<1>4. CASE g = h
  <2>1. InLobby(g) /\ g \notin started_games
    BY <1>a, <1>1, <1>4, LobbyMates
  <2>2. players[g] # <<>>
    BY <1>1, <1>4, EmptyList DEF TypeOK
  <2>3. Members(g)' = Members(g) /\ LivesOf(g)' = LivesOf(g)
    BY <1>1 DEF Members, LivesOf
  <2>4. Phase(g) = "lobby" /\ Phase(g)' = "round"
    BY <1>1, <1>4, <2>1, <2>2 DEF Phase, IsStarted, Live
  <2>5. Turn(g)' \in Members(g)
    <3>1. Head(players[g]) \in Members(g)
      BY <2>2, FrontOfList DEF Members, TypeOK
    <3>. QED
      BY <1>1, <1>4, <3>1 DEF Turn, IsStarted, TypeOK
  <2>6. Hidden(g)' = DOMAIN w
    <3>1. quessed_chars'[g] = [ch \in Letter |-> {}] /\ word'[g] = w
      BY <1>1, <1>2, <1>4 DEF TypeOK
    <3>2. UNION Range(quessed_chars'[g]) = {}
      BY <3>1 DEF Range
    <3>3. g \in started_games'
      BY <1>1, <1>4
    <3>. QED
      BY <3>1, <3>2, <3>3 DEF Hidden, IsStarted
  <2>7. DOMAIN w \subseteq Nat /\ DOMAIN w # {}
    <3>1. w \in Seq(Letter) /\ w # <<>>
      BY WordAssumption
    <3>2. 1 \in DOMAIN w
      BY <3>1, FrontOfList
    <3>3. DOMAIN w = 1..Len(w)
      BY <3>1, SeqFacts
    <3>. QED
      BY <3>2, <3>3
  <2>8. \A p \in Members(g) : LivesOf(g)[p] = STARTING_HP
    BY <1>1, <2>1, OneSeatOnly DEF InLobby, LivesOf, LobbyIsHealed
  <2>9. Cardinality(Members(g)) >= 2
    BY <1>1, <1>4, SeatsAreCounted
  <2>. QED
    BY <1>1, <2>3, <2>4, <2>5, <2>6, <2>7, <2>8, <2>9, RoundBegins
<1>. QED
  BY <1>3, <1>4

\* A letter of the word is Right in the game of the client.
LEMMA GoodQuessIsRight ==
    ASSUME RInv, NEW c \in Client, NEW ch \in Letter, GoodQuess(c, ch), NEW g \in Game
    PROVE  R(g)!Next \/ Untouched(g)
<1> USE DEF RInv, IInv
<1>a. PICK h : h = game[c]
  OBVIOUS
<1>b. PICK new : new = Revealed(h, ch)
  OBVIOUS
<1>1. /\ ~spinning /\ client_state[c] = "ON_TURN" /\ new # {}
      /\ quessed_chars' = [quessed_chars EXCEPT ![h][ch] = new]
      /\ UNCHANGED <<players, client_on_turn, word, spinning>>
      /\ IF found_chars[h] + Cardinality(new) = Len(word[h])
         THEN started_games' = started_games \ {h} /\ hp' = Healed(players[h])
         ELSE started_games' = started_games /\ hp' = hp
  BY <1>a, <1>b DEF GoodQuess, MayQuess, IsClientWinner, AnnounceWinner, listVars
<1>2. h \in Game /\ h \in started_games /\ Live(h)
  <2>1. h \in Game /\ h \in started_games /\ c \in Range(players[h])
    BY <1>a, <1>1, RoundMates DEF InGame
  <2>. QED
    BY <1>1, <2>1, SeatsAreCounted DEF Members
<1>3. CASE g # h
  <2>1. \A d \in Members(g) : d \in Client /\ d \notin Range(players[h])
    BY <1>1, <1>2, <1>3, OneSeatOnly DEF Members
  <2>2. \A d \in Members(g) : hp'[d] = hp[d]
    BY <1>1, <2>1 DEF Healed
  <2>3. /\ g \in started_games' <=> g \in started_games
        /\ quessed_chars'[g] = quessed_chars[g]
    BY <1>1, <1>3 DEF TypeOK
  <2>. QED
    BY <1>1, <2>2, <2>3, GameElsewhere DEF Untouched
<1>4. CASE g = h
  <2>1. FoundFits(g)
    BY <1>1, <1>2, <1>4 DEF FoundCharsCount, FoundFits, Shown, SeenIn
  <2>2. /\ Shown(g) \subseteq DOMAIN word[g] /\ new \subseteq DOMAIN word[g] \ Shown(g)
        /\ SeenIn([quessed_chars[g] EXCEPT ![ch] = new]) = Shown(g) \cup new
        /\ Cardinality(Shown(g) \cup new) = found_chars[g] + Cardinality(new)
    BY <1>b, <1>1, <1>4, <2>1, GuessShows
  <2>3. quessed_chars'[g] = [quessed_chars[g] EXCEPT ![ch] = new]
    BY <1>1, <1>4 DEF TypeOK
  <2>4. SeenIn(quessed_chars'[g]) = Shown(g) \cup new
    BY <2>2, <2>3
  <2>5. Hidden(g) = DOMAIN word[g] \ Shown(g)
    BY <1>2, <1>4 DEF Hidden, IsStarted, Shown, SeenIn
  <2>6. new \in SUBSET Hidden(g)
    BY <2>2, <2>5
  <2>7. new = Hidden(g) <=> found_chars[g] + Cardinality(new) = Len(word[g])
    <3>1. PICK w \in Seq(Letter) : w = word[g]
      BY DEF TypeOK
    <3>2. PICK p : p = Shown(g) \cup new
      OBVIOUS
    <3>3. p = DOMAIN w <=> Cardinality(p) = Len(w)
      <4>1. p \subseteq DOMAIN w
        BY <2>2, <3>1, <3>2
      <4>2. Cardinality(p) = Len(w) => p = DOMAIN w
        BY <4>1, WholeWord
      <4>3. Cardinality(DOMAIN w) = Len(w)
        BY SizeOfWord
      <4>. QED
        BY <4>2, <4>3
    <3>4. new = Hidden(g) <=> p = DOMAIN w
      BY <2>2, <2>5, <3>1, <3>2
    <3>5. Cardinality(p) = found_chars[g] + Cardinality(new)
      BY <2>2, <3>2
    <3>. QED
      BY <3>1, <3>3, <3>4, <3>5
  <2>8. Phase(g) = "round"
    BY <1>2, <1>4 DEF Phase, IsStarted
  <2>9. Members(g)' = Members(g)
    BY <1>1 DEF Members
  <2>10. CASE new = Hidden(g)
    <3>1. g \notin started_games' /\ hp' = Healed(players[g])
      BY <1>1, <1>4, <2>7, <2>10
    <3>2. /\ Phase(g)' = "lobby" /\ Turn(g)' = NoClient /\ Hidden(g)' = {}
      BY <1>1, <1>2, <1>4, <3>1 DEF Phase, Turn, Hidden, IsStarted, Live
    <3>3. LivesOf(g)' = [p \in Client |-> IF p \in Members(g) THEN STARTING_HP ELSE 0]
      BY <2>9, <3>1 DEF LivesOf, Healed, Members
    <3>4. Finished(g, Members(g))
      BY <2>9, <3>2, <3>3 DEF Finished
    <3>. QED
      BY <1>1, <2>6, <2>8, <2>10, <3>4, RoundGoesRight
  <2>11. CASE new # Hidden(g)
    <3>1. started_games' = started_games /\ hp' = hp
      BY <1>1, <1>4, <2>7, <2>11
    <3>2. Hidden(g)' = Hidden(g) \ new
      <4>1. Hidden(g)' = DOMAIN word[g] \ SeenIn(quessed_chars'[g])
        BY <1>1, <1>2, <1>4, <3>1 DEF Hidden, IsStarted, SeenIn
      <4>. QED
        BY <2>4, <2>5, <4>1
    <3>3. Phase(g)' = Phase(g) /\ Turn(g)' = Turn(g) /\ LivesOf(g)' = LivesOf(g)
      BY <1>1, <2>9, <3>1 DEF Phase, Turn, LivesOf, IsStarted, Live
    <3>. QED
      BY <1>1, <2>6, <2>8, <2>9, <2>11, <3>2, <3>3, RoundGoesRight
  <2>. QED
    BY <2>10, <2>11
<1>. QED
  BY <1>3, <1>4

\* After a wrong guess with another player alive, the turn is not the guesser's.
LEMMA TurnMovesOn ==
    ASSUME NEW ps \in Seq(Client), IsInjective(ps), NEW c \in Range(ps),
           NEW h \in [Client -> Int], NEW e \in Alive(ps, h), e # c
    PROVE  NextClient(ps, Find(ps, c), h) # c
<1>1. PICK from \in 1..Len(ps) : from = Find(ps, c) /\ ps[from] = c
  BY FindFinds
<1>2. from \in 0..Len(ps) /\ Len(ps) \in Nat /\ Len(ps) \in 1..Len(ps)
  BY SeqFacts
<1>3. PICK k \in 1..Len(ps) : /\ NextClient(ps, from, h) = Visited(ps, from, k)
                              /\ \A j \in 1..(k - 1) : ~IsAlive(Visited(ps, from, j), h)
  BY <1>2, NextClientIsFirst
<1>4. Visited(ps, from, Len(ps)) = c
  BY <1>1, <1>2 DEF Visited
<1>5. PICK j \in 1..Len(ps) : Visited(ps, from, j) = e
  BY <1>2, VisitedCovers DEF Alive
<1>6. IsAlive(e, h)
  BY DEF Alive
<1>7. j # Len(ps) /\ ~(j \in 1..(k - 1))
  BY <1>3, <1>4, <1>5, <1>6
<1>8. k # Len(ps) /\ k > 0
  BY <1>2, <1>7
<1>9. StepsFrom(ps, from, Visited(ps, from, k)) = k
  BY <1>8, VisitedIsSteps
<1>10. StepsFrom(ps, from, c) = 0
  BY <1>2, <1>4, VisitedIsSteps
<1>. QED
  BY <1>1, <1>3, <1>8, <1>9, <1>10

\* A wrong letter, with somebody alive after it, is Wrong in the game of the client.
LEMMA BadQuessIsWrong ==
    ASSUME RInv, NEW c \in Client, NEW ch \in Letter, BadQuess(c, ch), NEW g \in Game
    PROVE  R(g)!Next \/ Untouched(g)
<1> USE DEF RInv, IInv
<1>a. PICK k : k = game[c]
  OBVIOUS
<1>b. PICK h : h = Hurt(c)
  OBVIOUS
<1>c. PICK next : next = NextClient(players[k], Find(players[k], client_on_turn[k]), h)
  OBVIOUS
<1>1. /\ ~spinning /\ client_state[c] = "ON_TURN" /\ Alive(players[k], h) # {}
      /\ client_on_turn' = [client_on_turn EXCEPT ![k] = next]
      /\ UNCHANGED <<players, word, quessed_chars, spinning>>
      /\ IF Cardinality(Alive(players[k], h)) = 1
         THEN started_games' = started_games \ {k} /\ hp' = Healed(players[k])
         ELSE started_games' = started_games /\ hp' = h
  BY <1>a, <1>b, <1>c DEF BadQuess, MayQuess, AnnounceWinner, listVars, roundVars
<1>2. k \in Game /\ k \in started_games /\ c \in Members(k)
  BY <1>a, <1>1, RoundMates DEF InGame, Members
<1>3. /\ h \in [Client -> 0..STARTING_HP] /\ h \in [Client -> Int]
      /\ \A d \in Client : d # c => h[d] = hp[d]
  BY <1>b, <1>1, HurtFacts
<1>4. CASE g # k
  <2>1. \A d \in Members(g) : d \in Client /\ d # c /\ d \notin Range(players[k])
    BY <1>1, <1>2, <1>4, OneSeatOnly DEF Members
  <2>2. \A d \in Members(g) : hp'[d] = hp[d]
    BY <1>1, <1>3, <2>1 DEF Healed
  <2>3. /\ g \in started_games' <=> g \in started_games
        /\ client_on_turn'[g] = client_on_turn[g]
    BY <1>1, <1>4 DEF TypeOK
  <2>. QED
    BY <1>1, <2>2, <2>3, GameElsewhere DEF Untouched
<1>5. CASE g = k
  <2>1. /\ players[g] \in Seq(Client) /\ IsInjective(players[g])
        /\ Members(g) \subseteq Client /\ IsFiniteSet(Members(g))
    BY <1>1, SeatsAreCounted
  <2>2. Phase(g) = "round" /\ Turn(g) = c
    BY <1>a, <1>1, <1>2, <1>5, TurnIsMine DEF Phase, Turn, IsStarted
  <2>3. Members(g)' = Members(g)
    BY <1>1 DEF Members
  <2>4. PICK hurt : hurt = [LivesOf(g) EXCEPT ![Turn(g)] = @ - 1]
    OBVIOUS
  <2>5. \A d \in Client : hurt[d] = IF d \in Members(g) THEN h[d] ELSE 0
    BY <1>b, <1>2, <1>5, <2>2, <2>4 DEF LivesOf, Hurt, TypeOK
  <2>6. PICK left : left = CanPlayOn(Members(g), hurt)
    OBVIOUS
  <2>7. left = Alive(players[g], h)
    BY <2>1, <2>5, <2>6 DEF CanPlayOn, Alive, IsAlive, Members
  <2>8. IsFiniteSet(left) /\ left # {}
    <3>1. left \subseteq Members(g)
      BY <2>6 DEF CanPlayOn
    <3>. QED
      BY <1>1, <1>5, <2>1, <2>7, <3>1, FS_Subset
  <2>9. CASE Cardinality(left) = 1
    <3>1. g \notin started_games' /\ hp' = Healed(players[g])
      BY <1>1, <1>5, <2>7, <2>9
    <3>2. players[g] # <<>>
      BY <1>1, <1>2, <1>5, SeatsAreCounted DEF Live
    <3>3. Phase(g)' = "lobby" /\ Turn(g)' = NoClient /\ Hidden(g)' = {}
      BY <1>1, <3>1, <3>2 DEF Phase, Turn, Hidden, IsStarted, Live
    <3>4. LivesOf(g)' = [p \in Client |-> IF p \in Members(g) THEN STARTING_HP ELSE 0]
      BY <2>3, <3>1 DEF LivesOf, Healed, Members
    <3>5. Finished(g, Members(g))
      BY <2>3, <3>3, <3>4 DEF Finished
    <3>. QED
      BY <1>1, <2>2, <2>4, <2>6, <2>9, <3>5, RoundGoesWrong
  <2>10. CASE Cardinality(left) # 1
    <3>1. started_games' = started_games /\ hp' = h
      BY <1>1, <1>5, <2>7, <2>10
    <3>2. Cardinality(left) >= 2
      <4>1. Cardinality(left) \in Nat /\ Cardinality(left) # 0
        BY <2>8, FS_CardinalityType, FS_EmptySet
      <4>. QED
        BY <2>10, <4>1
    <3>3. next \in left
      <4>1. next \in Range(players[g]) /\ h[next] > 0
        BY <1>a, <1>b, <1>c, <1>1, <1>5, NextAfterBadQuess
      <4>. QED
        BY <2>7, <4>1 DEF Alive, IsAlive
    <3>4. next # c
      <4>1. PICK e \in left : e # c
        <5>1. left # {c}
          BY <2>10, FS_Singleton
        <5>. QED
          BY <2>8, <5>1
      <4>2. PICK ps \in Seq(Client) : ps = players[g] /\ IsInjective(ps) /\ c \in Range(ps)
        BY <1>2, <1>5, <2>1 DEF Members
      <4>3. NextClient(ps, Find(ps, c), h) # c
        BY <1>3, <2>7, <4>1, <4>2, TurnMovesOn
      <4>4. client_on_turn[k] = c
        BY <1>a, <1>1, TurnIsMine
      <4>. QED
        BY <1>c, <1>5, <4>2, <4>3, <4>4
    <3>5. Turn(g)' = next
      BY <1>1, <1>2, <1>5, <3>1 DEF Turn, IsStarted, TypeOK
    <3>6. LivesOf(g)' = hurt
      <4>1. LivesOf(g)' = [d \in Client |-> IF d \in Members(g) THEN h[d] ELSE 0]
        BY <2>3, <3>1 DEF LivesOf
      <4>2. DOMAIN hurt = Client /\ hurt = [d \in Client |-> hurt[d]]
        BY <2>4 DEF LivesOf
      <4>. QED
        BY <2>5, <4>1, <4>2
    <3>7. Phase(g)' = Phase(g) /\ Hidden(g)' = Hidden(g)
      BY <1>1, <3>1 DEF Phase, Hidden, IsStarted, Live
    <3>. QED
      BY <1>1, <2>2, <2>3, <2>4, <2>6, <3>2, <3>3, <3>4, <3>5, <3>6, <3>7, RoundGoesWrong
  <2>. QED
    BY <2>9, <2>10
<1>. QED
  BY <1>4, <1>5

\* A wrong letter that leaves nobody alive is Lose: in the game of the client it
\* takes the last life, in the others nothing changes but that they are lost too.
LEMMA BadQuessSpinsIsLose ==
    ASSUME RInv, NEW c \in Client, NEW ch \in Letter, BadQuessSpins(c, ch), NEW g \in Game
    PROVE  R(g)!Next \/ Untouched(g)
<1> USE DEF RInv, IInv
<1>a. PICK k : k = game[c]
  OBVIOUS
<1>b. PICK h : h = Hurt(c)
  OBVIOUS
<1>1. /\ ~spinning /\ client_state[c] = "ON_TURN" /\ Alive(players[k], h) = {}
      /\ hp' = h /\ spinning' = TRUE
      /\ UNCHANGED <<players, client_on_turn, word, quessed_chars, started_games>>
  BY <1>a, <1>b DEF BadQuessSpins, MayQuess, listVars, roundVars
<1>2. k \in Game /\ k \in started_games /\ c \in Members(k)
  BY <1>a, <1>1, RoundMates DEF InGame, Members
<1>3. h \in [Client -> 0..STARTING_HP] /\ \A d \in Client : d # c => h[d] = hp[d]
  BY <1>b, <1>1, HurtFacts
<1>4. /\ Members(g)' = Members(g) /\ Phase(g)' = Phase(g)
      /\ Turn(g)' = Turn(g) /\ Hidden(g)' = Hidden(g)
  BY <1>1 DEF Members, Phase, Turn, Hidden, IsStarted, Live
<1>5. CASE g # k
  <2>1. \A d \in Members(g) : d \in Client /\ d # c
    BY <1>1, <1>2, <1>5, OneSeatOnly
  <2>2. \A d \in Members(g) : hp'[d] = hp[d]
    BY <1>1, <1>3, <2>1
  <2>3. LivesOf(g)' = LivesOf(g)
    BY <1>4, <2>2 DEF LivesOf
  <2>. QED
    BY <1>1, <1>4, <2>3, RoundIsLost
<1>6. CASE g = k
  <2>1. Phase(g) = "round" /\ Turn(g) = c
    BY <1>a, <1>1, <1>2, <1>6, TurnIsMine DEF Phase, Turn, IsStarted
  <2>2. Members(g) \subseteq Client
    BY <1>1, SeatsAreCounted
  <2>3. \A d \in Members(g) : h[d] = 0
    <3>1. \A d \in Members(g) : ~(h[d] > 0)
      BY <1>1, <1>6 DEF Alive, IsAlive, Members
    <3>. QED
      BY <1>3, <2>2, <3>1, HPAssumption
  <2>4. LivesOf(g)' = [d \in Client |-> 0]
    BY <1>1, <1>4, <2>2, <2>3 DEF LivesOf
  <2>5. \A d \in Members(g) : d # c => hp[d] = 0
    BY <1>3, <2>2, <2>3
  <2>6. LivesOf(g)' = [LivesOf(g) EXCEPT ![Turn(g)] = 0]
    BY <2>1, <2>4, <2>5 DEF LivesOf
  <2>7. CanPlayOn(Members(g)', LivesOf(g)') = {}
    BY <1>4, <2>2, <2>4 DEF CanPlayOn
  <2>. QED
    BY <1>1, <1>4, <2>1, <2>6, <2>7, RoundIsLost
<1>. QED
  BY <1>5, <1>6

\* Leaving a lobby is Exit from the game of the client.
LEMMA LeaveLobbyIsExit ==
    ASSUME RInv, NEW c \in Client, LeaveLobby(c), NEW g \in Game
    PROVE  R(g)!Next \/ Untouched(g)
<1> USE DEF RInv, IInv
<1>a. PICK k : k = game[c]
  OBVIOUS
<1>b. PICK left : left = Without(players[k], c)
  OBVIOUS
<1>1. /\ ~spinning /\ client_state[c] = "LOBBY"
      /\ players' = [players EXCEPT ![k] = left]
      /\ hp' = [hp EXCEPT ![c] = 0]
      /\ UNCHANGED <<started_games, spinning>>
      /\ \/ client_on_turn' = client_on_turn
         \/ \E t : client_on_turn' = [client_on_turn EXCEPT ![k] = t]
      /\ word' = word \/ \E w : word' = [word EXCEPT ![k] = w]
      /\ quessed_chars' = quessed_chars \/ \E q : quessed_chars' = [quessed_chars EXCEPT ![k] = q]
  BY <1>a, <1>b DEF LeaveLobby, roundVars
<1>2. k \in Game /\ k \notin started_games /\ c \in Members(k)
  BY <1>a, <1>1, LobbyMates DEF Members
<1>3. CASE g # k
  <2>1. \A d \in Members(g) : d \in Client /\ d # c
    BY <1>1, <1>2, <1>3, OneSeatOnly
  <2>2. \A d \in Members(g) : hp'[d] = hp[d]
    BY <1>1, <2>1 DEF TypeOK
  <2>3. /\ players'[g] = players[g] /\ client_on_turn'[g] = client_on_turn[g]
        /\ word'[g] = word[g] /\ quessed_chars'[g] = quessed_chars[g]
    BY <1>1, <1>3 DEF TypeOK
  <2>. QED
    BY <1>1, <2>2, <2>3, GameElsewhere DEF Untouched
<1>4. CASE g = k
  <2>1. players'[g] = left
    BY <1>1, <1>4 DEF TypeOK
  <2>2. left \in Seq(Client) /\ Range(left) = Members(g) \ {c}
    BY <1>b, <1>1, <1>4, SeatsAreCounted, WithoutRemoves DEF Members
  <2>3. Members(g)' = Members(g) \ {c}
    BY <2>1, <2>2 DEF Members
  <2>4. Live(g)' <=> Members(g)' # {}
    BY <2>1, <2>2, EmptyList DEF Live, Members
  <2>5. Phase(g) = "lobby" /\ Phase(g)' = IF Members(g)' = {} THEN "empty" ELSE "lobby"
    <3>1. Live(g)
      BY <1>1, <1>2, <1>4, SeatsAreCounted
    <3>. QED
      BY <1>1, <1>2, <1>4, <2>4, <3>1 DEF Phase, IsStarted
  <2>6. Turn(g)' = Turn(g) /\ Hidden(g)' = Hidden(g)
    BY <1>1, <1>2, <1>4 DEF Turn, Hidden, IsStarted
  <2>7. LivesOf(g)' = [LivesOf(g) EXCEPT ![c] = 0]
    BY <1>1, <2>3 DEF LivesOf, TypeOK
  <2>. QED
    BY <1>1, <1>2, <1>4, <2>3, <2>5, <2>6, <2>7, RoundIsLeft
<1>. QED
  BY <1>3, <1>4

\* Leaving a round is Quit from the game of the client.
LEMMA LeaveGameIsQuit ==
    ASSUME RInv, NEW c \in Client, LeaveGame(c), NEW g \in Game
    PROVE  R(g)!Next \/ Untouched(g)
<1> USE DEF RInv, IInv
<1>a. PICK k : k = game[c]
  OBVIOUS
<1>b. PICK left : left = Without(players[k], c)
  OBVIOUS
<1>c. PICK turn : turn = IF client_state[c] = "ON_TURN"
                         THEN NextClient(left, Find(left, c), hp)
                         ELSE client_on_turn[k]
  OBVIOUS
<1>1. /\ ~spinning /\ client_state[c] \in InGame
      /\ client_state[c] = "ON_TURN" => Alive(left, hp) # {}
      /\ players' = [players EXCEPT ![k] = left]
      /\ UNCHANGED <<word, quessed_chars, spinning>>
      /\ IF Len(left) = 1
         THEN /\ client_on_turn' = [client_on_turn EXCEPT ![k] = left[1]]
              /\ started_games' = started_games \ {k}
              /\ hp' = [Healed(left) EXCEPT ![c] = 0]
         ELSE /\ client_on_turn' = [client_on_turn EXCEPT ![k] = turn]
              /\ started_games' = started_games
              /\ hp' = [hp EXCEPT ![c] = 0]
  BY <1>a, <1>b, <1>c DEF LeaveGame, AnnounceWinner, listVars, roundVars
<1>2. k \in Game /\ k \in started_games /\ c \in Members(k) /\ Len(players[k]) >= 2
  BY <1>a, <1>1, RoundMates DEF Members
<1>3. /\ left \in Seq(Client) /\ IsInjective(left) /\ Range(left) = Members(k) \ {c}
      /\ Len(left) = Len(players[k]) - 1
  BY <1>b, <1>1, <1>2, SeatsAreCounted, WithoutRemoves DEF Members
<1>4. CASE g # k
  <2>1. \A d \in Members(g) : d \in Client /\ d # c /\ d \notin Range(left)
    BY <1>1, <1>2, <1>3, <1>4, OneSeatOnly DEF Members
  <2>2. \A d \in Members(g) : hp'[d] = hp[d]
    BY <1>1, <2>1 DEF Healed, TypeOK
  <2>3. /\ players'[g] = players[g] /\ client_on_turn'[g] = client_on_turn[g]
        /\ g \in started_games' <=> g \in started_games
    BY <1>1, <1>4 DEF TypeOK
  <2>. QED
    BY <1>1, <2>2, <2>3, GameElsewhere DEF Untouched
<1>5. CASE g = k
  <2>1. players'[g] = left /\ Phase(g) = "round"
    BY <1>1, <1>2, <1>5 DEF TypeOK, Phase, IsStarted
  <2>2. PICK s : s = Members(g) \ {c}
    OBVIOUS
  <2>3. Members(g)' = s /\ Range(left) = s
    BY <1>3, <1>5, <2>1, <2>2 DEF Members
  <2>4. Cardinality(s) = Len(left) /\ Len(left) \in Nat
    BY <1>3, <2>3, SizeOfList, SeqFacts
  <2>5. left # <<>> /\ Len(left) # 0
    <3>1. Len(left) # 0
      BY <1>1, <1>2, <1>3, SeatsAreCounted
    <3>. QED
      BY <3>1
  <2>6. CASE Len(left) = 1
    <3>1. /\ g \notin started_games' /\ hp' = [Healed(left) EXCEPT ![c] = 0]
      BY <1>1, <1>5, <2>6
    <3>2. Phase(g)' = "lobby" /\ Turn(g)' = NoClient /\ Hidden(g)' = {}
      BY <2>1, <2>5, <3>1 DEF Phase, Turn, Hidden, IsStarted, Live
    <3>3. \A d \in Client : d \in s => hp'[d] = STARTING_HP
      BY <2>2, <2>3, <3>1 DEF Healed
    <3>4. LivesOf(g)' = [d \in Client |-> IF d \in s THEN STARTING_HP ELSE 0]
      BY <2>3, <3>3 DEF LivesOf
    <3>5. Finished(g, s)
      BY <2>3, <3>2, <3>4 DEF Finished
    <3>. QED
      BY <1>1, <1>2, <1>5, <2>1, <2>2, <2>4, <2>6, <3>5, RoundIsQuit
  <2>7. CASE Len(left) # 1
    <3>1. /\ started_games' = started_games /\ hp' = [hp EXCEPT ![c] = 0]
          /\ client_on_turn'[g] = turn
      BY <1>1, <1>5, <2>7 DEF TypeOK
    <3>2. Cardinality(s) >= 2
      BY <2>4, <2>5, <2>7
    <3>3. turn \in Range(left) /\ hp[turn] > 0
      BY <1>a, <1>b, <1>c, <1>1, TurnAfterLeaving
    <3>4. Turn(g)' = turn /\ Turn(g) = client_on_turn[g]
      BY <1>2, <1>5, <3>1 DEF Turn, IsStarted
    <3>5. IF c = Turn(g) THEN Turn(g)' \in CanPlayOn(s, LivesOf(g)) ELSE Turn(g)' = Turn(g)
      <4>1. CASE client_state[c] = "ON_TURN"
        <5>1. c = Turn(g)
          BY <1>a, <1>1, <1>5, <3>4, <4>1, TurnIsMine
        <5>2. turn \in Members(g) /\ turn \in Client
          BY <1>1, <2>2, <2>3, <3>3, SeatsAreCounted
        <5>. QED
          BY <2>3, <3>3, <3>4, <5>1, <5>2 DEF CanPlayOn, LivesOf
      <4>2. CASE client_state[c] # "ON_TURN"
        <5>1. turn = Turn(g)
          BY <1>c, <1>5, <3>4, <4>2
        <5>2. turn # c
          BY <2>2, <2>3, <3>3
        <5>. QED
          BY <3>4, <5>1, <5>2
      <4>. QED
        BY <4>1, <4>2
    <3>6. LivesOf(g)' = [LivesOf(g) EXCEPT ![c] = 0]
      BY <2>2, <2>3, <3>1 DEF LivesOf, TypeOK
    <3>7. Phase(g)' = Phase(g) /\ Hidden(g)' = Hidden(g)
      BY <1>1, <1>2, <1>5, <3>1 DEF Phase, Hidden, IsStarted
    <3>. QED
      BY <1>1, <1>2, <1>5, <2>1, <2>2, <2>3, <3>2, <3>5, <3>6, <3>7, RoundIsQuit
  <2>. QED
    BY <2>6, <2>7
<1>. QED
  BY <1>4, <1>5

\* Leaving with nobody alive behind is Lose, as a wrong guess is.
LEMMA LeaveSpinsIsLose ==
    ASSUME RInv, NEW c \in Client, LeaveSpins(c), NEW g \in Game
    PROVE  R(g)!Next \/ Untouched(g)
<1> USE DEF RInv, IInv
<1>a. PICK k : k = game[c]
  OBVIOUS
<1>b. PICK left : left = Without(players[k], c)
  OBVIOUS
<1>1. /\ ~spinning /\ client_state[c] = "ON_TURN" /\ Alive(left, hp) = {}
      /\ players' = [players EXCEPT ![k] = left] /\ spinning' = TRUE
      /\ UNCHANGED <<hp, client_on_turn, word, quessed_chars, started_games>>
  BY <1>a, <1>b DEF LeaveSpins, listVars, roundVars
<1>2. k \in Game /\ k \in started_games /\ c \in Members(k)
  BY <1>a, <1>1, RoundMates DEF InGame, Members
<1>3. Turn(g)' = Turn(g) /\ Hidden(g)' = Hidden(g)
  BY <1>1 DEF Turn, Hidden, IsStarted
<1>4. CASE g # k
  <2>1. players'[g] = players[g]
    BY <1>1, <1>4 DEF TypeOK
  <2>. QED
    BY <1>1, <1>3, <2>1, GameElsewhere, RoundIsLost
<1>5. CASE g = k
  <2>1. players'[g] = left
    BY <1>1, <1>5 DEF TypeOK
  <2>2. Phase(g) = "round" /\ Phase(g)' = Phase(g) /\ Turn(g) = c
    BY <1>a, <1>1, <1>2, <1>5, TurnIsMine DEF Phase, Turn, IsStarted
  <2>3. Members(g) \subseteq Client /\ Range(left) = Members(g) \ {c}
    BY <1>b, <1>1, <1>5, SeatsAreCounted, WithoutRemoves DEF Members
  <2>4. Members(g)' = Members(g) \ {Turn(g)}
    BY <2>1, <2>2, <2>3 DEF Members
  <2>5. \A d \in Members(g) : d # c => ~(hp[d] > 0)
    BY <1>1, <2>3 DEF Alive, IsAlive
  <2>6. LivesOf(g)' = [LivesOf(g) EXCEPT ![Turn(g)] = 0]
    BY <1>1, <2>2, <2>4 DEF LivesOf
  <2>7. CanPlayOn(Members(g)', LivesOf(g)') = {}
    BY <2>2, <2>3, <2>4, <2>5, <2>6 DEF CanPlayOn, LivesOf
  <2>. QED
    BY <1>1, <1>3, <2>2, <2>4, <2>6, <2>7, RoundIsLost
<1>. QED
  BY <1>4, <1>5

\* At the start no game exists.
LEMMA InitIsRoundInit ==
    ASSUME Init, NEW g \in Game
    PROVE  R(g)!Init
<1>1. started_games = {} /\ players[g] = <<>> /\ spinning = FALSE
  BY DEF Init
<1>2. Members(g) = {} /\ ~Live(g)
  BY <1>1, EmptyList DEF Members, Live, Range
<1>. QED
  BY <1>1, <1>2 DEF R!Init, IsStarted

\* Every step of the server is in each game a step of Round or nothing at all.
LEMMA StepIsRoundStep ==
    ASSUME RInv, Next, NEW g \in Game
    PROVE  R(g)!Next \/ UNCHANGED R(g)!vars
<1>1. ASSUME NEW c \in Client, LogIn(c) \/ JoinGame(c) \/ StartGame(c) \/ Leave(c)
      PROVE  R(g)!Next \/ Untouched(g)
  BY <1>1, UnseatedStep, JoinIsEnter, StartIsBegin, LeaveLobbyIsExit, LeaveGameIsQuit,
     LeaveSpinsIsLose DEF Leave
<1>2. ASSUME NEW c \in Client, NEW ch \in Letter, Quess(c, ch)
      PROVE  R(g)!Next \/ Untouched(g)
  BY <1>2, GoodQuessIsRight, BadQuessIsWrong, BadQuessSpinsIsLose DEF Quess
<1>3. ASSUME Spin
      PROVE  Untouched(g)
  BY <1>3, GameElsewhere DEF Spin, Untouched, vars, roundVars, listVars
<1>4. R(g)!Next \/ Untouched(g)
  BY <1>1, <1>2, <1>3 DEF Next
<1>. QED
  BY <1>4, RoundStutters

\* Whatever happens in one game of the server, or in another one, is for its
\* players a step of Round or nothing at all: GameManager implements Round, game
\* by game.
THEOREM ServerKeepsRounds == Spec => GamesAreRounds
<1>1. Init => \A g \in Game : R(g)!Init
  BY InitIsRoundInit
<1>2. RInv /\ [Next]_vars => [\A g \in Game : R(g)!Next \/ UNCHANGED R(g)!vars]_vars
  BY StepIsRoundStep
<1>. QED
  BY <1>1, <1>2, RoundsInvariance, PTL DEF Spec, GamesAreRounds
=============================================================================
