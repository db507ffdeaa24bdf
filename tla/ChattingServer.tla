--------------------------- MODULE ChattingServer ---------------------------
(***************************************************************************)
(* CChattingServer (ChattingServer.h, ChattingServer.cpp): the content on  *)
(* top of the network library.  The worker threads turn the callbacks into *)
(* jobs on a completion port; UpdateThread takes them out one by one and   *)
(* is the only thread that touches the players and the sectors.            *)
(*                                                                         *)
(* The callbacks of one session come in the order join, received, left.    *)
(* Module Session shows this of the library until a call is so late that   *)
(* it meets the Initailize of the next session (ReuseUnlessLate), and that *)
(* such a call breaks it (run SessionRace).  What is said to the clients   *)
(* is the variable out: the answer of the last job.                        *)
(***************************************************************************)
EXTENDS Integers, Sequences, FiniteSets

CONSTANTS
  Sessions, NoSession,      \* the identifiers of the sessions; SessionID of a new player
  Players, NoPlayer,        \* the CPlayer objects of _TlsPlayerFreeList; nullptr
  Accounts,                 \* the account numbers clients present
  SECTOR_X_MAX, SECTOR_Y_MAX,
  MaxRequests,              \* bound on the messages clients send
  MaxJobs                   \* bound on the jobs waiting in _IocpQ

ASSUME SessionsAssumption == IsFiniteSet(Sessions) /\ NoSession \notin Sessions
ASSUME PlayersAssumption == IsFiniteSet(Players) /\ NoPlayer \notin Players
ASSUME SectorsAssumption == SECTOR_X_MAX \in Nat \ {0} /\ SECTOR_Y_MAX \in Nat \ {0}
ASSUME AccountsAssumption == Accounts \subseteq Nat
ASSUME BoundsAssumption == MaxRequests \in Nat /\ MaxJobs \in Nat

NoAccount == -1  \* AccountNo of a player that has not logged in

Xs      == 0 .. SECTOR_X_MAX - 1
Ys      == 0 .. SECTOR_Y_MAX - 1
Sectors == Xs \X Ys

(* What a client can send, as far as the handlers tell it apart: complete  *)
(* says that the length is the one the handler asks for.  Of a login or a  *)
(* move of another length the handler reads nothing.                       *)
Presented == Accounts \cup {NoAccount}
TooShort  == [type : {"login", "move"}, complete : {FALSE}]
Logins    == [type : {"login"}, account : Presented, complete : {TRUE}]
Moves     == [type : {"move"}, account : Presented, complete : {TRUE},
              x : 0 .. SECTOR_X_MAX, y : 0 .. SECTOR_Y_MAX]
Messages  == [type : {"message"}, account : Presented, complete : BOOLEAN]
Ignored   == [type : {"server", "heartbeat"}]
Unknown   == [type : {"unknown"}]
Requests  == TooShort \cup Logins \cup Moves \cup Messages \cup Ignored \cup Unknown

NoRequest == [type |-> "none"]
Events    == [event : {"join", "leave"}, session : Sessions, msg : {NoRequest}]
               \cup [event : {"recv"}, session : Sessions, msg : Requests]

VARIABLES
  net,       \* the library's side of every session
  requests,  \* how many messages clients have sent
  jobs,      \* _IocpQ
  playerMap, \* _PlayerMap: session to player
  sectorMap, \* _SectorArr: for every sector, session to player
  player,    \* the fields of every CPlayer object
  inUse,     \* the CPlayer objects outside _TlsPlayerFreeList
  kicked,    \* sessions DisconnectSession has been called for
  out,       \* the packets of the last job: kind, sender, receivers, account
  again,     \* history: logins of sessions that had a player already
  logged     \* history: sessions that have logged in and not left

playerVars == <<playerMap, sectorMap, player, inUse, again, logged>>
vars == <<net, requests, jobs, playerVars, kicked, out>>

Silence == [kind |-> "none", from |-> NoSession, to |-> {}, account |-> NoAccount]
Say(kind, from, to, account) ==
  [kind |-> kind, from |-> from, to |-> to, account |-> account]

(* CPlayer::Initailize and the session number, set right after it.         *)
Fresh(s) == [start |-> FALSE, join |-> FALSE, session |-> s,
             account |-> NoAccount, x |-> -1, y |-> -1]

Init ==
  /\ net = [s \in Sessions |-> "new"]
  /\ requests = 0
  /\ jobs = <<>>
  /\ playerMap = [s \in Sessions |-> NoPlayer]
  /\ sectorMap = [c \in Sectors |-> [s \in Sessions |-> NoPlayer]]
  /\ player = [p \in Players |-> Fresh(NoSession)]
  /\ inUse = {} /\ kicked = {} /\ out = Silence
  /\ again = 0 /\ logged = {}

-----------------------------------------------------------------------------
(* The callbacks, called by worker threads and the accept thread.          *)

Post(s, event, msg) ==
  /\ Len(jobs) < MaxJobs
  /\ jobs' = Append(jobs, [event |-> event, session |-> s, msg |-> msg])
  /\ out' = Silence
  /\ UNCHANGED <<playerVars, kicked>>

OnClientJoin(s) ==
  /\ net[s] = "new"
  /\ net' = [net EXCEPT ![s] = "open"]
  /\ Post(s, "join", NoRequest)
  /\ UNCHANGED requests

OnRecv(s, msg) ==
  /\ net[s] = "open"
  /\ requests < MaxRequests
  /\ requests' = requests + 1
  /\ Post(s, "recv", msg)
  /\ UNCHANGED net

OnClientLeave(s) ==
  /\ net[s] = "open"
  /\ net' = [net EXCEPT ![s] = "gone"]
  /\ Post(s, "leave", NoRequest)
  /\ UNCHANGED requests

-----------------------------------------------------------------------------
(* UpdateThread.                                                           *)

Job == Head(jobs)
Me  == Job.session
Msg == Job.msg
P   == playerMap[Me]

Sector(p) == <<player[p].x, player[p].y>>

Take(event) ==
  /\ jobs # <<>>
  /\ Job.event = event
  /\ jobs' = Tail(jobs)
  /\ UNCHANGED <<net, requests>>

TakeRequest(type) == Take("recv") /\ Msg.type = type

(* DisconnectSession and nothing else.                                     *)
Kick ==
  /\ kicked' = kicked \cup {Me}
  /\ out' = Silence
  /\ UNCHANGED playerVars

(* Mutant: unordered_map::operator[] instead of insert.                    *)
Insert_Assign(m, s, p) == [m EXCEPT ![s] = p]

(* unordered_map::insert leaves an element that is there already.          *)
Insert(m, s, p) == IF m[s] = NoPlayer THEN [m EXCEPT ![s] = p] ELSE m

ON_CLIENT_JOIN_FUNC ==
  /\ Take("join")
  /\ out' = Silence
  /\ UNCHANGED <<playerVars, kicked>>

(* A session that never logged in leaves without a trace.                  *)
LeaveUnknown ==
  /\ Take("leave")
  /\ P = NoPlayer
  /\ out' = Silence
  /\ UNCHANGED <<playerVars, kicked>>

RemovePlayer(players, sectors, pool) ==
  /\ Take("leave")
  /\ P # NoPlayer
  /\ playerMap' = players
  /\ sectorMap' = sectors
  /\ inUse' = pool
  /\ logged' = logged \ {Me}
  /\ out' = Silence
  /\ UNCHANGED <<player, kicked, again>>

Gone == [playerMap EXCEPT ![Me] = NoPlayer]
Left == IF player[P].join
        THEN [sectorMap EXCEPT ![Sector(P)][Me] = NoPlayer]
        ELSE sectorMap

(* Mutants: the sector keeps the player; the map keeps a player that is in *)
(* no sector.                                                              *)
Leave_SectorKept == RemovePlayer(Gone, sectorMap, inUse \ {P})
Leave_JoinedOnly ==
  RemovePlayer(IF player[P].join THEN Gone ELSE playerMap, Left, inUse \ {P})

LeavePlayer == RemovePlayer(Gone, Left, inUse \ {P})

(* A player is made and inserted first; a message of the wrong length      *)
(* leaves it there, without an account, until the session leaves.          *)
LoginWith(p) ==
  /\ TakeRequest("login")
  /\ p \notin inUse
  /\ inUse' = inUse \cup {p}
  /\ playerMap' = Insert(playerMap, Me, p)
  /\ again' = again + (IF P = NoPlayer THEN 0 ELSE 1)
  /\ UNCHANGED sectorMap

LoginRefused(p) ==
  /\ LoginWith(p)
  /\ ~Msg.complete
  /\ player' = [player EXCEPT ![p] = Fresh(Me)]
  /\ kicked' = kicked \cup {Me}
  /\ out' = Silence
  /\ UNCHANGED logged

Login(p) ==
  /\ LoginWith(p)
  /\ Msg.complete
  /\ player' = [player EXCEPT ![p] =
       [Fresh(Me) EXCEPT !.start = TRUE, !.account = Msg.account]]
  /\ logged' = logged \cup {Me}
  /\ out' = Say("login", Me, {Me}, Msg.account)
  /\ UNCHANGED kicked

(* What MOVE and MESSAGE ask of the sender before anything is done.        *)
Known == P # NoPlayer /\ Msg.account = player[P].account

(* Mutant: the test of GameStart is dropped.                               *)
Playing_AnyStart == Known

Playing == Known /\ player[P].start

(* Mutant: the range of the sector is compared with > instead of >=.       *)
MayMove_OffByOne ==
  Msg.complete /\ Playing /\ Msg.x <= SECTOR_X_MAX /\ Msg.y <= SECTOR_Y_MAX

MayMove == Msg.complete /\ Playing /\ Msg.x < SECTOR_X_MAX /\ Msg.y < SECTOR_Y_MAX

MoveRefused == TakeRequest("move") /\ ~MayMove /\ Kick

(* The player leaves the sector it is in, or enters its first one.         *)
Move ==
  /\ TakeRequest("move")
  /\ MayMove
  /\ IF player[P].join /\ sectorMap[Sector(P)][Me] = NoPlayer
     THEN Kick
     ELSE /\ player' = [player EXCEPT ![P].join = TRUE, ![P].x = Msg.x, ![P].y = Msg.y]
          /\ sectorMap' = [Left EXCEPT ![<<Msg.x, Msg.y>>] = Insert(@, Me, P)]
          /\ out' = Say("move", Me, {player[P].session}, player[P].account)
          /\ UNCHANGED <<playerMap, inUse, again, logged, kicked>>

(* The sectors around the player's, inside the bounds: a player that has   *)
(* no sector yet is at [-1, -1].                                           *)
SectorsWithin(p, r) ==
  {c \in Sectors : /\ c[1] \in player[p].x - r .. player[p].x + r
                   /\ c[2] \in player[p].y - r .. player[p].y + r}

(* Mutant: the loops stop before the last sector.                          *)
Around_Short(p) ==
  {c \in SectorsWithin(p, 1) : c[1] <= player[p].x /\ c[2] <= player[p].y}

Around(p) == SectorsWithin(p, 1)

(* The players of a sector, and the sessions a message of p is sent to.    *)
Within(c)   == {sectorMap[c][s] : s \in Sessions} \ {NoPlayer}
Audience(p) == {player[q].session : q \in UNION {Within(c) : c \in Around(p)}}

MaySpeak == Playing /\ Msg.complete

MessageRefused == TakeRequest("message") /\ ~MaySpeak /\ Kick

Message ==
  /\ TakeRequest("message")
  /\ MaySpeak
  /\ out' = Say("chat", Me, Audience(P), player[P].account)
  /\ UNCHANGED <<playerVars, kicked>>

(* The heartbeat is received and nothing is done with it.                  *)
Nothing ==
  /\ \E r \in Ignored : TakeRequest(r.type)
  /\ out' = Silence
  /\ UNCHANGED <<playerVars, kicked>>

NotARequest == TakeRequest("unknown") /\ Kick

UpdateThread ==
  \/ ON_CLIENT_JOIN_FUNC \/ LeaveUnknown \/ LeavePlayer
  \/ \E p \in Players : LoginRefused(p) \/ Login(p)
  \/ MoveRefused \/ Move
  \/ MessageRefused \/ Message
  \/ Nothing \/ NotARequest

Callback ==
  \E s \in Sessions :
    OnClientJoin(s) \/ OnClientLeave(s) \/ \E r \in Requests : OnRecv(s, r)

Next == Callback \/ UpdateThread

Spec == Init /\ [][Next]_vars

-----------------------------------------------------------------------------
Positions == [start : BOOLEAN, join : BOOLEAN, session : Sessions \cup {NoSession},
              account : Presented, x : Xs \cup {-1}, y : Ys \cup {-1}]

(* Types: a player is in a sector of the map or at [-1, -1], and whoever   *)
(* the maps hold is a player.                                              *)
TypeOK ==
  /\ net \in [Sessions -> {"new", "open", "gone"}]
  /\ requests \in 0 .. MaxRequests
  /\ jobs \in Seq(Events) /\ Len(jobs) <= MaxJobs
  /\ playerMap \in [Sessions -> Players \cup {NoPlayer}]
  /\ sectorMap \in [Sectors -> [Sessions -> Players \cup {NoPlayer}]]
  /\ player \in [Players -> Positions]
  /\ inUse \subseteq Players
  /\ kicked \subseteq Sessions /\ logged \subseteq Sessions
  /\ again \in Nat

InMap == {s \in Sessions : playerMap[s] # NoPlayer}

(* A sector holds exactly the players of _PlayerMap that are placed in it, *)
(* by the same pointer: a broadcast never follows a pointer to a player    *)
(* that has been freed or reused, a player is in one sector at most, and   *)
(* the erase of a move always finds it.                                    *)
SectorsExact ==
  \A c \in Sectors, s \in Sessions :
    sectorMap[c][s] =
      IF s \in InMap /\ player[playerMap[s]].join
           /\ Sector(playerMap[s]) = c
      THEN playerMap[s] ELSE NoPlayer

(* Every player of the map is in use, is nobody else's and knows its       *)
(* session; every other player in use is one a second login has made; and  *)
(* once UpdateThread has handled the leave of a session, the last of its   *)
(* jobs, its player is gone.                                               *)
PlayersAccounted ==
  /\ \A s \in InMap : playerMap[s] \in inUse /\ player[playerMap[s]].session = s
  /\ Cardinality(inUse) = Cardinality(InMap) + again
  /\ \A s \in InMap : net[s] = "gone" => \E i \in DOMAIN jobs : jobs[i].session = s

(* Who moves and who speaks has logged in and has not left: a player that  *)
(* a refused login has left in the map can do neither.  A login is         *)
(* answered from the player in the map, until some session logs in twice.  *)
AnswersNeedLogin ==
  /\ out.kind \in {"move", "chat"} => out.from \in logged
  /\ out.kind = "login" /\ again = 0 =>
       player[playerMap[out.from]].account = out.account

Near(s, t) ==
  LET p == player[playerMap[s]]  q == player[playerMap[t]] IN
  /\ {s, t} \subseteq InMap /\ q.join
  /\ p.x - q.x \in -1 .. 1 /\ p.y - q.y \in -1 .. 1

(* A message reaches every player that is in a sector at most one away     *)
(* from its sender, and nobody else.  One that has not moved yet is at     *)
(* [-1, -1]: it is heard in [0, 0] and does not hear itself.               *)
AudienceExact ==
  out.kind = "chat" => out.to = {t \in Sessions : Near(out.from, t)}

(* A player stays who it was: while a session has its player, that player  *)
(* keeps the account it logged in with, whatever the session sends.        *)
AccountKept ==
  [][\A s \in Sessions :
       s \in InMap /\ s \in InMap' /\ player[playerMap[s]].start
         => player'[playerMap'[s]].account = player[playerMap[s]].account]_vars
=============================================================================
