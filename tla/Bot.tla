--------------------------------- MODULE Bot ---------------------------------
(***************************************************************************)
(* The bot (examples/main.cpp) with its player (Player.cpp, Irb00.cpp) at  *)
(* a table: what it believes to hold and to see, against what the server   *)
(* knows.  One action per listener; every listener holds _lock from end to *)
(* end, so each is one step of the network thread.                         *)
(*                                                                         *)
(* The server is not in the repository.  It is modelled by what the        *)
(* listeners take from it: it sends events in order, waits for the answer  *)
(* when it asks for one, offers what the rules of the game allow, and lets *)
(* any other player claim a tile before the bot.  Everything the bot does  *)
(* not see (the wall and the other hands) is one bag, unseen.              *)
(***************************************************************************)
EXTENDS WinningHands, AnySequences

CONSTANTS
  MaxTurns,   \* bound: tiles that are drawn or thrown in each deal
  MaxDeals,   \* bound: deals
  MaxPending  \* bound: events not handled yet when the others go on

ASSUME TableAssumption ==
         MaxDeals \in Nat /\ MaxTurns \in [1..MaxDeals -> Nat] /\ MaxPending \in Nat

VARIABLES
  main,            \* where main() is
  connect_finish,
  id,              \* player.id; until it is set zero, which is anyone's seat
  uuid,            \* whether the ack of "join" has brought it
  Hand, discards,  \* bags
  eat, pon, gon, anGon,  \* chows by their lowest tile, and sets of kinds
  drawTile, throwTile, onlyThrow,
  crashed,         \* Throw read the first of no candidates
  events,          \* from the server, in order
  replies,         \* to the server
  phase,           \* what the server does next
  held, visible,   \* what the bot has, and what lies open or was claimed
  door,            \* the bot's melds, as the server has granted them
  drawn,           \* the tile the bot drew and has not answered for yet
  thrown,          \* the tile thrown last, while it can be claimed
  missing,         \* history: tiles drawn, then lost count of by a kong of others
  turns, deals     \* for the bounds

startVars == <<main, connect_finish>>
idVars == <<id, uuid>>
meldVars == <<eat, pon, gon, anGon>>
tileVars == <<drawTile, throwTile, onlyThrow>>
playerVars == <<Hand, discards, meldVars>>
botVars == <<idVars, playerVars, tileVars, crashed>>
tableVars == <<phase, held, visible, door, drawn, thrown, missing, turns, deals>>
vars == <<startVars, botVars, events, replies, tableVars>>

Me == 0
Other == 1
NoCommand == "none"  \* in what carries no command

NoDoor == [eat |-> NoTiles, pon |-> {}, gon |-> {}, anGon |-> {}]
Event(name, who, what, tile) ==
  [name |-> name, who |-> who, what |-> what, tile |-> tile]
Reply(name, what, tile) == [name |-> name, what |-> what, tile |-> tile]

Init ==
  /\ main = "start" /\ connect_finish = FALSE
  /\ id \in {Me, Other} /\ uuid = FALSE
  /\ Hand = NoTiles /\ discards = NoTiles
  /\ eat = NoTiles /\ pon = {} /\ gon = {} /\ anGon = {}
  /\ drawTile = NoTile /\ throwTile = NoTile
  /\ onlyThrow = FALSE /\ crashed = FALSE
  /\ events = <<>> /\ replies = <<>>
  /\ phase = "lobby" /\ held = NoTiles /\ visible = NoTiles
  /\ door = NoDoor /\ drawn = NoTile /\ thrown = NoTile /\ missing = NoTiles
  /\ turns = 0 /\ deals = 0

-----------------------------------------------------------------------------
(* main(): it waits once for the connection, and a wait may end by itself. *)

OnConnected ==
  /\ ~connect_finish /\ connect_finish' = TRUE
  /\ UNCHANGED <<main, botVars, events, replies, tableVars>>

MainWaits ==
  /\ main = "start" /\ ~connect_finish /\ main' = "wait"
  /\ UNCHANGED <<connect_finish, botVars, events, replies, tableVars>>

(* socket() and bind_events().                                             *)
MainBinds ==
  /\ main = "wait" \/ (main = "start" /\ connect_finish)
  /\ main' = "bound"
  /\ UNCHANGED <<connect_finish, botVars, events, replies, tableVars>>

MainJoins ==
  /\ main = "bound" /\ main' = "loop"
  /\ replies' = Append(replies, Reply("join", NoCommand, NoTile))
  /\ UNCHANGED <<connect_finish, botVars, events, tableVars>>

-----------------------------------------------------------------------------
(* The listeners.                                                          *)

Arrives(name) ==
  /\ ~crashed /\ events # <<>> /\ Head(events).name = name
  /\ events' = Tail(events)
Sends(reply) == replies' = Append(replies, reply)

OnJoinAck ==
  /\ Arrives("join.ack") /\ uuid' = TRUE
  /\ UNCHANGED <<startVars, id, playerVars, tileVars, crashed, replies, tableVars>>

OnReadyToStart ==
  /\ Arrives("readyToStart")
  /\ replies' = replies \o <<Reply("auth", uuid, NoTile), Reply("ready", uuid, NoTile)>>
  /\ UNCHANGED <<startVars, botVars, tableVars>>

OnReadyAck ==
  /\ Arrives("ready.ack") /\ id' = Head(events).who
  /\ UNCHANGED <<startVars, uuid, playerVars, tileVars, crashed, replies, tableVars>>

(* Colors 0 to 4 start from nothing; there are no flowers here.  (Mutants: *)
(* the hand, or the open tiles, of the last deal are kept.)                *)
DealtHandAdds(tiles) == [k \in Kinds |-> Hand[k] + tiles[k]]
DealtHand(tiles) == tiles
DealtDiscardsKept == discards
DealtDiscards == NoTiles
OnDealTile ==
  /\ Arrives("dealTile")
  /\ Hand' = DealtHand(Head(events).tile) /\ discards' = DealtDiscards
  /\ eat' = NoTiles /\ pon' = {} /\ gon' = {} /\ anGon' = {}
  /\ UNCHANGED <<startVars, idVars, tileVars, crashed, replies, tableVars>>

(* (A mutant: what was only thrown stays so.)                              *)
OnlyThrowStays == onlyThrow
OnlyThrowAfterDraw == FALSE
OnDraw ==
  /\ Arrives("draw")
  /\ drawTile' = Head(events).tile /\ onlyThrow' = OnlyThrowAfterDraw
  /\ UNCHANGED <<startVars, idVars, playerVars, throwTile, crashed, replies, tableVars>>

(* The drawn tile joins the hand when the bot throws, not when it is drawn.*)
OnThrow ==
  LET tile == Throw(IF onlyThrow THEN Hand ELSE Plus(Hand, drawTile), discards) IN
  /\ Arrives("throw")
  /\ \/ /\ tile = NoTile /\ crashed' = TRUE /\ UNCHANGED <<replies, Hand>>
     \/ /\ tile # NoTile /\ Sends(Reply("throwTile", NoCommand, tile))
        /\ Hand' = IF onlyThrow THEN Hand ELSE Put(Hand, drawTile)
        /\ UNCHANGED crashed
  /\ UNCHANGED <<startVars, idVars, discards, meldVars, tileVars, tableVars>>

(* What the bot threw lies open, and leaves its hand.  (A mutant: nothing  *)
(* is the bot's own.)                                                      *)
IsNeverOwn(who) == FALSE
IsOwn(who) == who = id
OnBroadcastThrow ==
  LET e == Head(events) IN
  /\ Arrives("broadcastThrow")
  /\ throwTile' = e.tile /\ discards' = Put(discards, e.tile)
  /\ Hand' = IF IsOwn(e.who) THEN Take(Hand, e.tile) ELSE Hand
  /\ UNCHANGED <<startVars, idVars, meldVars, drawTile, onlyThrow, crashed, replies,
                 tableVars>>

(* What it answers: eating, it names the lowest tile of the sequence.      *)
(* (A mutant forgets the middle place.)                                    *)
LowestAtEnds(card, place) ==
  IF place = 0 THEN <<card[1], card[2] - 2>> ELSE card
Lowest(card, place) ==
  CASE place = 0 -> <<card[1], card[2] - 2>>
    [] place = 1 -> <<card[1], card[2] - 1>>
    [] OTHER -> card
OwnTurn(can) == can \cap {"ZIMO", "ANGON", "PONGON"} # {}
Answer(can, borrowed) ==
  IF OwnTurn(can)
  THEN WannaHuGon(Hand, discards, pon, can, drawTile)
  ELSE LET cmd == WannaHGPE(Hand, can, throwTile, borrowed)
       IN <<cmd[1], Lowest(throwTile, cmd[2])>>
OnCommand ==
  /\ Arrives("command")
  /\ \E borrowed \in SUBSET {"EAT", "PON"} :
       LET cmd == Answer(Head(events).what, borrowed) IN
       \/ cmd[2] = NoTile /\ crashed' = TRUE /\ UNCHANGED replies
       \/ /\ cmd[2] # NoTile /\ UNCHANGED crashed
          /\ Sends(Reply("sendCommand", cmd[1], cmd[2]))
  /\ UNCHANGED <<startVars, idVars, playerVars, tileVars, tableVars>>

(* "success": the bot's claim is granted.  (A mutant: an added kong leaves *)
(* the triplet.)                                                           *)
Meld(e) == IF e.what = "EAT" THEN e.tile[1] ELSE e.tile
FromHand(e) ==
  CASE e.what = "EAT" -> Each(Chow(e.tile[1]) \ {e.tile[2]})
    [] e.what = "PON" -> Several(e.tile, 2)
    [] e.what = "GON" -> Several(e.tile, 3)
    [] e.what = "PONGON" -> Several(e.tile, 1)
    [] e.what = "ANGON" -> Several(e.tile, 4)
    [] OTHER -> NoTiles
Shown(e) == IF e.what = "ANGON" THEN NoTiles ELSE FromHand(e)
PonKept(e) == IF e.what = "PON" THEN pon \cup {Meld(e)} ELSE pon
PonAfter(e) == IF e.what = "PON" THEN pon \cup {Meld(e)}
               ELSE IF e.what = "PONGON" THEN pon \ {Meld(e)} ELSE pon
OnSuccess ==
  LET e == Head(events) IN
  /\ Arrives("success")
  /\ Hand' = TakeMany(Hand, FromHand(e))
  /\ discards' = PutMany(discards, Shown(e))
  /\ onlyThrow' = (onlyThrow \/ e.what \in {"EAT", "PON"})
  /\ eat' = IF e.what = "EAT" THEN Plus(eat, Meld(e)) ELSE eat
  /\ pon' = PonAfter(e)
  /\ gon' = IF e.what \in {"GON", "PONGON"} THEN gon \cup {Meld(e)} ELSE gon
  /\ anGon' = IF e.what = "ANGON" THEN anGon \cup {Meld(e)} ELSE anGon
  /\ UNCHANGED <<startVars, idVars, drawTile, throwTile, crashed, replies, tableVars>>

(* "broadcastCommand": the same of another player; the bot's own claim has *)
(* been counted.                                                           *)
OnBroadcastCommand ==
  LET e == Head(events) IN
  /\ Arrives("broadcastCommand")
  /\ discards' = IF IsOwn(e.who) THEN discards ELSE PutMany(discards, Shown(e))
  /\ UNCHANGED <<startVars, idVars, Hand, meldVars, tileVars, crashed, replies, tableVars>>

Listeners ==
  \/ OnJoinAck \/ OnReadyToStart \/ OnReadyAck
  \/ OnDealTile \/ OnDraw \/ OnThrow \/ OnBroadcastThrow
  \/ OnCommand \/ OnSuccess \/ OnBroadcastCommand

-----------------------------------------------------------------------------
(* The server and the other players.                                       *)

Unseen(k) == 4 - held[k] - visible[k] - (IF k \in door.anGon THEN 4 ELSE 0)
Announces(news) == events' = events \o news
Takes(name) ==
  /\ replies # <<>> /\ Head(replies).name = name
  /\ replies' = Tail(replies)

ServerUnchanged == UNCHANGED <<startVars, botVars>>
GameUnchanged == UNCHANGED <<held, visible, door, drawn, thrown, missing, turns, deals>>

(* The client has queued the reply until it is connected.                  *)
ServerJoins ==
  /\ connect_finish /\ Takes("join") /\ phase = "lobby"
  /\ Announces(<<Event("join.ack", Me, NoCommand, NoTile),
                 Event("readyToStart", Me, NoCommand, NoTile)>>)
  /\ ServerUnchanged /\ GameUnchanged /\ UNCHANGED phase

ServerAuthenticates ==
  /\ Takes("auth") /\ events' = events
  /\ ServerUnchanged /\ GameUnchanged /\ UNCHANGED phase

ServerStarts ==
  /\ Takes("ready") /\ phase = "lobby" /\ phase' = "over"
  /\ Announces(<<Event("ready.ack", Me, NoCommand, NoTile)>>)
  /\ ServerUnchanged /\ GameUnchanged

ServerDeals ==
  /\ phase = "over" /\ events = <<>> /\ deals < MaxDeals
  /\ deals' = deals + 1 /\ turns' = 0 /\ phase' = "idle"
  /\ held' \in Hands({HandSize}) /\ visible' = NoTiles /\ door' = NoDoor
  /\ drawn' = NoTile /\ thrown' = NoTile /\ missing' = NoTiles
  /\ Announces(<<Event("dealTile", Me, NoCommand, held')>>)
  /\ UNCHANGED replies /\ ServerUnchanged

(* The bot draws, in turn or after a kong.                                 *)
OwnOptions(bag) ==
  {what \in {"ZIMO", "ANGON", "PONGON"} :
     CASE what = "ZIMO" -> Complete(bag)
       [] what = "ANGON" -> \E k \in Kinds : bag[k] = 4
       [] what = "PONGON" -> \E k \in door.pon : bag[k] > 0}
ServerDraws ==
  /\ phase \in {"idle", "kong"} /\ (turns < MaxTurns[deals] \/ phase = "kong")
  /\ turns' = IF phase = "idle" THEN turns + 1 ELSE turns
  /\ \E k \in Kinds :
       /\ Unseen(k) > 0
       /\ held' = Plus(held, k) /\ drawn' = k
       /\ LET can == OwnOptions(held') IN
          /\ phase' = IF can = {} THEN "discard" ELSE "options"
          /\ Announces(<<Event("draw", Me, NoCommand, k),
               IF can = {} THEN Event("throw", Me, NoCommand, NoTile)
                           ELSE Event("command", Me, can, NoTile)>>)
  /\ thrown' = NoTile
  /\ UNCHANGED <<replies, visible, door, missing, deals>> /\ ServerUnchanged

ServerTakesThrow ==
  LET k == Head(replies).tile IN
  /\ phase = "discard" /\ Takes("throwTile")
  /\ held' = Take(held, k) /\ visible' = Plus(visible, k) /\ thrown' = k
  /\ drawn' = NoTile /\ phase' = "idle"
  /\ Announces(<<Event("broadcastThrow", Me, NoCommand, k)>>)
  /\ UNCHANGED <<door, missing, turns, deals>> /\ ServerUnchanged

(* Another player throws; of what the rules allow the bot is asked about   *)
(* all, or nothing if somebody else comes first.  Only the player before   *)
(* it lets it eat.                                                         *)
CanEat(k) ==
  /\ Suited(k)
  /\ \E place \in 0..2 : HasTiles(held, EatTiles(k, place))
Offers(k) ==
  {what \in {"HU", "EAT", "PON", "GON"} :
     CASE what = "HU" -> Complete(Plus(held, k))
       [] what = "EAT" -> CanEat(k)
       [] what = "PON" -> held[k] >= 2
       [] what = "GON" -> held[k] = 3}
OtherThrows ==
  /\ phase = "idle" /\ turns < MaxTurns[deals] /\ turns' = turns + 1
  /\ Len(events) < MaxPending
  /\ \E k \in Kinds, next \in BOOLEAN :
       /\ Unseen(k) > 0
       /\ visible' = Plus(visible, k) /\ thrown' = k
       /\ LET can == IF next THEN Offers(k) ELSE Offers(k) \ {"EAT"}
              news == <<Event("broadcastThrow", Other, NoCommand, k)>>
          IN \/ phase' = "idle" /\ Announces(news)
             \/ /\ can # {} /\ phase' = "options"
                /\ Announces(Append(news, Event("command", Me, can, NoTile)))
  /\ UNCHANGED <<replies, held, door, drawn, missing, deals>> /\ ServerUnchanged

(* The bot's answer.  A claim is granted or another player's is.           *)
ServerTakesNone ==
  /\ phase = "options" /\ Takes("sendCommand") /\ Head(replies).what = "NONE"
  /\ IF drawn = NoTile
     THEN phase' = "idle" /\ events' = events
     ELSE phase' = "discard" /\ Announces(<<Event("throw", Me, NoCommand, NoTile)>>)
  /\ ServerUnchanged /\ GameUnchanged

ServerTakesWin ==
  /\ phase = "options" /\ Takes("sendCommand")
  /\ Head(replies).what \in {"HU", "ZIMO"} /\ phase' = "over" /\ events' = events
  /\ ServerUnchanged /\ GameUnchanged

Refused ==
  /\ phase = "options" /\ Takes("sendCommand")
  /\ Head(replies).what \in {"EAT", "PON"} /\ phase' = "idle" /\ events' = events
  /\ ServerUnchanged /\ GameUnchanged

(* What it lost count of and has to show is not missed any longer.         *)
StillMissing(lost, bag) == [k \in Kinds |-> Min({lost[k], bag[k]})]

(* What the bot gets: a sequence with the thrown tile, or the kind.        *)
Granted(reply) ==
  LET tile == IF reply.what = "EAT" THEN <<reply.tile, thrown>> ELSE reply.tile
  IN <<Event("success", Me, reply.what, tile),
       Event("broadcastCommand", Me, reply.what, tile)>>
ServerGrants ==
  LET reply == Head(replies)
      e == Granted(reply)[1]
  IN
  /\ phase = "options" /\ Takes("sendCommand") /\ reply.what \in {"EAT", "PON"}
  /\ held' = Without(held, FromHand(e)) /\ visible' = With(visible, Shown(e))
  /\ door' = IF reply.what = "EAT" THEN [door EXCEPT !.eat = Plus(@, reply.tile)]
                                   ELSE [door EXCEPT !.pon = @ \cup {reply.tile}]
  /\ missing' = StillMissing(missing, held')
  /\ thrown' = NoTile /\ phase' = "discard"
  /\ Announces(Append(Granted(reply), Event("throw", Me, NoCommand, NoTile)))
  /\ UNCHANGED <<drawn, turns, deals>> /\ ServerUnchanged

(* The drawn tile stays with the bot unless it is the one of the kong.     *)
ServerGrantsKong ==
  LET reply == Head(replies)
      k == reply.tile
      e == Granted(reply)[1]
  IN
  /\ phase = "options" /\ Takes("sendCommand") /\ reply.what \in {"ANGON", "PONGON"}
  /\ held' = Without(held, FromHand(e)) /\ visible' = With(visible, Shown(e))
  /\ door' = IF reply.what = "ANGON" THEN [door EXCEPT !.anGon = @ \cup {k}]
             ELSE [door EXCEPT !.pon = @ \ {k}, !.gon = @ \cup {k}]
  /\ missing' = StillMissing(IF k = drawn THEN missing ELSE Plus(missing, drawn), held')
  /\ drawn' = NoTile /\ phase' = "kong"
  /\ Announces(Granted(reply))
  /\ UNCHANGED <<thrown, turns, deals>> /\ ServerUnchanged

(* Another player claims the tile thrown last, or adds to its triplet.     *)
OtherClaims ==
  /\ phase = "idle" /\ thrown # NoTile /\ Len(events) < MaxPending
  /\ \E what \in {"EAT", "PON", "GON", "PONGON"}, first \in Kinds :
       LET e == Event("broadcastCommand", Other, what,
                      IF what = "EAT" THEN <<first, thrown>> ELSE first)
       IN /\ IF what = "EAT"
             THEN /\ Suited(first) /\ thrown \in Chow(first)
                  /\ \A j \in Chow(first) \ {thrown} : j \in Kinds /\ Unseen(j) > 0
             ELSE /\ what = "PONGON" \/ first = thrown
                  /\ Unseen(first) >= Shown(e)[first]
                  /\ first \notin door.pon /\ (what = "PONGON" => visible[first] = 3)
          /\ visible' = With(visible, Shown(e))
          /\ Announces(<<e>>)
  /\ thrown' = NoTile
  /\ UNCHANGED <<replies, phase, held, door, drawn, missing, turns, deals>>
  /\ ServerUnchanged

ServerEnds ==
  /\ phase = "idle" /\ phase' = "over"
  /\ UNCHANGED <<events, replies>> /\ GameUnchanged /\ ServerUnchanged

Server ==
  \/ ServerJoins \/ ServerAuthenticates \/ ServerStarts
  \/ ServerDeals \/ ServerDraws \/ ServerTakesThrow \/ OtherThrows
  \/ ServerTakesNone \/ ServerTakesWin \/ Refused \/ ServerGrants
  \/ ServerGrantsKong \/ OtherClaims \/ ServerEnds

Next ==
  \/ OnConnected \/ MainWaits \/ MainBinds \/ MainJoins
  \/ Listeners
  \/ Server

Spec == Init /\ [][Next]_vars

-----------------------------------------------------------------------------
(* Properties.                                                             *)

(* Types, and the queues' lengths: the server asks one thing at a time.    *)
Names == {"join.ack", "readyToStart", "ready.ack", "dealTile", "draw", "throw",
          "broadcastThrow", "command", "success", "broadcastCommand"}
TypeOK ==
  /\ main \in {"start", "wait", "bound", "loop"}
  /\ {connect_finish, uuid, onlyThrow, crashed} \subseteq BOOLEAN
  /\ id \in {Me, Other}
  /\ {Hand, discards, held, visible, missing} \subseteq [Kinds -> 0..4]
  /\ {eat, door.eat} \subseteq [Kinds -> 0..4]
  /\ UNION {pon, gon, anGon, door.pon, door.gon, door.anGon} \subseteq Kinds
  /\ {drawTile, throwTile, drawn, thrown} \subseteq Kinds \cup {NoTile}
  /\ {events[i].name : i \in DOMAIN events} \subseteq Names
  /\ phase \in {"lobby", "over", "idle", "kong", "options", "discard"}
  /\ Len(replies) <= 2 /\ deals \in 0..MaxDeals

(* The bot has handled everything the server sent it in a deal.            *)
Settled == deals > 0 /\ events = <<>> /\ ~crashed

(* Whatever was thrown, claimed and melded, the bot knows its hand but for *)
(* the tile it has just drawn and the tiles it drew before a kong of       *)
(* others: main.cpp puts a drawn tile into Hand only when it throws.       *)
HandAgrees ==
  Settled => \A k \in Kinds :
    held[k] = Hand[k] + missing[k]
                + (IF drawn = k /\ phase # "discard" THEN 1 ELSE 0)

(* The tiles that the search takes for gone are those that lie open, the   *)
(* bot's and the others' melds included, each once.                        *)
DiscardsAgree == Settled => discards = visible

(* The bot's record of its melds is the server's.                          *)
MeldsAgree ==
  Settled => door = [eat |-> eat, pon |-> pon, gon |-> gon, anGon |-> anGon]

(* Every answer is one that the server can accept: the bot holds the tile  *)
(* it throws, and those of the meld it names, whatever it lost count of.   *)
Acceptable(reply) ==
  LET k == reply.tile IN
  CASE reply.name = "throwTile" -> phase = "discard" /\ held[k] > 0
    [] reply.name = "sendCommand" ->
         /\ phase = "options"
         /\ CASE reply.what = "ZIMO" -> Complete(held)
              [] reply.what = "ANGON" -> drawn # NoTile /\ held[k] = 4
              [] reply.what = "PONGON" -> drawn # NoTile /\ k \in door.pon /\ held[k] = 1
              [] reply.what = "HU" -> Complete(Plus(held, thrown))
              [] reply.what = "PON" -> k = thrown /\ held[k] >= 2
              [] reply.what = "EAT" ->
                   /\ Suited(thrown) /\ thrown \in Chow(k)
                   /\ HasTiles(held, Chow(k) \ {thrown})
              [] OTHER -> TRUE
    [] OTHER -> TRUE
AnswersAcceptable == \A i \in DOMAIN replies : Acceptable(replies[i])

(* Throw has a candidate as long as the bot knows its whole hand.  When it *)
(* lost a tile, hand and draw may split into groups without rest: nothing  *)
(* can be spared, and the first of an empty vector is read.                *)
CrashNeedsLoss == crashed => missing # NoTiles

(* The search agrees with the game on every hand of a deal: what it counts *)
(* from the best split is never more than the tiles that the nearest       *)
(* winning hand is away,                                                   *)
InDeal == phase \notin {"lobby", "over"}
NeverTooFar == InDeal => StepToHu[held] <= Distance[held]

(* nor less; but four of a kind, which no group uses up, may hide one step *)
(* (of a hand of ten; four such kinds in one of sixteen hide two),         *)
Hides(bag) == IF \A k \in Kinds : bag[k] < 4 THEN 0 ELSE 1
NeverTooNear == InDeal => Distance[held] - Hides(held) <= StepToHu[held]

(* and never the last one: no step is left of the winning hands alone.     *)
NoStepWhenWon ==
  InDeal => (Complete(held) <=> Total(held) % 3 = 2 /\ StepToHu[held] = 0)

(* What the bot decides from its own record pays on the hand that the      *)
(* server knows, while no tile is lost: a throw and a kong cost no step,   *)
(* and a claim is a step less, also where the digits of HelpsOrNot would   *)
(* borrow from each other: the server does not offer such a claim.         *)
Pays(reply) ==
  LET after == StepToHu[Without(held, FromHand(Granted(reply)[1]))] IN
  /\ reply.name = "throwTile" => StepToHu[Minus(held, reply.tile)] = StepToHu[held]
  /\ reply.name = "sendCommand" =>
       /\ reply.what \in {"EAT", "PON"} => after = StepToHu[held] - 1
       /\ reply.what \in {"ANGON", "PONGON"} => after = StepToHu[held]
AnswersPay == missing = NoTiles => \A i \in DOMAIN replies : Pays(replies[i])

(* So a throw never takes it further from a winning hand, a claim brings   *)
(* it one tile closer and a kong costs nothing, up to the step that four   *)
(* of a kind may hide.                                                     *)
DecisionsPay ==
  [][missing = NoTiles =>
       /\ ServerTakesThrow => Distance[held'] <= Distance[held] + Hides(held')
       /\ ServerGrants => Distance[held'] <= Distance[held] - 1 + Hides(held')
       /\ ServerGrantsKong => Distance[held'] <= Distance[held] + Hides(held')]_vars

-----------------------------------------------------------------------------
(* The inductive invariant.                                                *)

(* What the listeners change of the bot when they handle an event, and     *)
(* several.                                                                *)
player ==
  [id |-> id, Hand |-> Hand, discards |-> discards,
   eat |-> eat, pon |-> pon, gon |-> gon, anGon |-> anGon,
   drawTile |-> drawTile, throwTile |-> throwTile, onlyThrow |-> onlyThrow]
Handled(p, e) ==
  CASE e.name = "ready.ack" -> [p EXCEPT !.id = e.who]
    [] e.name = "dealTile" ->
         [p EXCEPT !.Hand = e.tile, !.discards = NoTiles,
                   !.eat = NoTiles, !.pon = {}, !.gon = {}, !.anGon = {}]
    [] e.name = "draw" -> [p EXCEPT !.drawTile = e.tile, !.onlyThrow = FALSE]
    [] e.name = "throw" ->
         [p EXCEPT !.Hand = IF p.onlyThrow THEN @ ELSE Put(@, p.drawTile)]
    [] e.name = "broadcastThrow" ->
         [p EXCEPT !.throwTile = e.tile, !.discards = Put(@, e.tile),
                   !.Hand = IF e.who = p.id THEN Take(@, e.tile) ELSE @]
    [] e.name = "success" ->
         [p EXCEPT
            !.Hand = TakeMany(@, FromHand(e)), !.discards = PutMany(@, Shown(e)),
            !.onlyThrow = @ \/ e.what \in {"EAT", "PON"},
            !.eat = IF e.what = "EAT" THEN Plus(@, Meld(e)) ELSE @,
            !.pon = IF e.what = "PON" THEN @ \cup {Meld(e)}
                    ELSE IF e.what = "PONGON" THEN @ \ {Meld(e)} ELSE @,
            !.gon = IF e.what \in {"GON", "PONGON"} THEN @ \cup {Meld(e)} ELSE @,
            !.anGon = IF e.what = "ANGON" THEN @ \cup {Meld(e)} ELSE @]
    [] e.name = "broadcastCommand" ->
         [p EXCEPT !.discards = IF e.who = p.id THEN @ ELSE PutMany(@, Shown(e))]
    [] OTHER -> p
Handling(p, es) ==
  LET after[i \in 0..Len(es)] == IF i = 0 THEN p ELSE Handled(after[i - 1], es[i])
  IN after
End(p, es) == Handling(p, es)[Len(es)]
InTheEnd == End(player, events)

IsPlayer(p) ==
  /\ p = [id |-> p.id, Hand |-> p.Hand, discards |-> p.discards,
          eat |-> p.eat, pon |-> p.pon, gon |-> p.gon, anGon |-> p.anGon,
          drawTile |-> p.drawTile, throwTile |-> p.throwTile, onlyThrow |-> p.onlyThrow]
  /\ p.id \in {Me, Other}
  /\ {p.Hand, p.discards, p.eat} \subseteq [Kinds -> 0..4]
  /\ UNION {p.pon, p.gon, p.anGon} \subseteq Kinds
  /\ {p.drawTile, p.throwTile} \subseteq Kinds \cup {NoTile} /\ p.onlyThrow \in BOOLEAN
Kept(p, es) == \A i \in 0..Len(es) : IsPlayer(Handling(p, es)[i])
PlayerKept == IsSequence(events) /\ Kept(player, events)

(* The bot that has handled what is under way agrees with the server.      *)
Agrees(p) ==
  /\ p.discards = visible
  /\ door = [eat |-> p.eat, pon |-> p.pon, gon |-> p.gon, anGon |-> p.anGon]
  /\ \A k \in Kinds :
       held[k] = p.Hand[k] + missing[k]
                   + (IF drawn = k /\ phase # "discard" THEN 1 ELSE 0)
  /\ drawn # NoTile /\ phase = "options" => p.drawTile = drawn /\ ~p.onlyThrow
  /\ thrown # NoTile => p.throwTile = thrown
AgreesInTheEnd ==
  /\ phase # "lobby" => InTheEnd.id = Me
  /\ deals > 0 /\ ~crashed => Agrees(InTheEnd)

(* The table: four tiles of each kind, and the melds lie open.             *)
TableKept ==
  /\ \A k \in Kinds :
       /\ Unseen(k) >= 0
       /\ door.eat[k] + (IF thrown = k THEN 1 ELSE 0) <= visible[k]
       /\ k \in door.pon => visible[k] >= 3
  /\ door = [eat |-> door.eat, pon |-> door.pon, gon |-> door.gon, anGon |-> door.anGon]
  /\ phase \in {"idle", "kong"} => drawn = NoTile
  /\ phase = "options" /\ drawn = NoTile => thrown # NoTile
  /\ deals = 0 => phase \in {"lobby", "over"}

(* The server asks last, waits for the answer and gets one that it can     *)
(* take: what it asked is under way, or answered, or Throw crashed.        *)
Asking == {"throw", "command"}
Pending(name) ==
  replies = <<>> /\ events # <<>> /\ events[Len(events)].name = name /\ ~crashed
Answered ==
  events = <<>> /\ replies # <<>> /\ replies = <<Head(replies)>> /\ ~crashed
Given(can) ==
  IF drawn # NoTile THEN can = OwnOptions(held) /\ can # {} ELSE can \subseteq Offers(thrown)
Throws(reply) ==
  /\ reply = Reply("throwTile", NoCommand, reply.tile)
  /\ reply.tile \in Kinds /\ Hand[reply.tile] > 0
Claims(reply) ==
  /\ reply = Reply("sendCommand", reply.what, reply.tile) /\ Acceptable(reply)
  /\ IF drawn = NoTile THEN reply.what \in {"NONE", "HU", "EAT", "PON"}
                       ELSE reply.what \in {"NONE", "ZIMO", "ANGON", "PONGON"}
  /\ reply.tile \in Kinds
TurnKept ==
  phase # "lobby" =>
    /\ main = "loop"
    /\ \A i \in DOMAIN events :
         /\ events[i].name \notin {"join.ack", "readyToStart"}
         /\ events[i].name \in Asking => i = Len(events) /\ phase \in {"discard", "options"}
    /\ phase = "discard" =>
         \/ Pending("throw")
         \/ Answered /\ Throws(Head(replies))
         \/ crashed /\ events = <<>> /\ replies = <<>>
    /\ phase = "options" =>
         \/ Pending("command") /\ Given(events[Len(events)].what)
         \/ Answered /\ Claims(Head(replies))
         \/ crashed /\ events = <<>> /\ replies = <<>>
    /\ phase \notin {"discard", "options"} => replies = <<>> /\ ~crashed

(* Before the first deal: the bot joins, and is told to be ready.          *)
Named(s, names) ==
  /\ IsSequence(s) /\ Len(s) = Len(names)
  /\ \A i \in DOMAIN names : s[i].name = names[i]
LobbyKept ==
  phase = "lobby" =>
    /\ deals = 0 /\ ~crashed
    /\ \/ main # "loop" /\ events = <<>> /\ replies = <<>>
       \/ main = "loop" /\ events = <<>> /\ Named(replies, <<"join">>)
       \/ main = "loop" /\ Named(events, <<"join.ack", "readyToStart">>) /\ replies = <<>>
       \/ main = "loop" /\ Named(events, <<"readyToStart">>) /\ replies = <<>>
       \/ main = "loop" /\ events = <<>> /\ Named(replies, <<"auth", "ready">>)
       \/ main = "loop" /\ events = <<>> /\ Named(replies, <<"ready">>)

Support ==
  /\ PlayerKept /\ AgreesInTheEnd /\ TableKept /\ TurnKept /\ LobbyKept

(* All of it, with the types.                                              *)
Inv == TypeOK /\ Support

(* The bot holds a tile more while it has to throw or to answer for a draw.*)
ToThrow == phase = "discard" \/ drawn # NoTile
SizeKept ==
  phase \notin {"lobby", "over"} =>
    /\ Total(held) % 3 = (IF ToThrow THEN 2 ELSE 1)
    /\ Total(held) <= HandSize + (IF ToThrow THEN 1 ELSE 0)

(* It lets no winning hand pass, so that it never has to throw from one.   *)
WinsKept ==
  /\ phase = "options" /\ Pending("command") /\ drawn = NoTile
       /\ Complete(Plus(held, thrown)) => "HU" \in events[Len(events)].what
  /\ phase = "options" /\ Answered /\ Head(replies).what \notin {"HU", "ZIMO"} =>
       ~Complete(IF drawn = NoTile THEN Plus(held, thrown) ELSE held)
  /\ phase = "discard" => StepToHu[held] # 0

(* It will choose from all that it holds, unless it has lost a tile.       *)
Asked(p, es) == Handling(p, es)[Len(es) - 1]
ThrowsFrom(p) == IF p.onlyThrow THEN p.Hand ELSE Plus(p.Hand, p.drawTile)
WholeHand ==
  phase = "discard" /\ Pending("throw") /\ missing = NoTiles =>
    ThrowsFrom(Asked(player, events)) = held

(* So there is a tile to throw: no split of such a hand is without rest.   *)
ThrowKept == SizeKept /\ WinsKept /\ WholeHand
=============================================================================
