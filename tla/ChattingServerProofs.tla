------------------------ MODULE ChattingServerProofs ------------------------
(***************************************************************************)
(* Proofs about CChattingServer for any number of sessions, players,       *)
(* sectors and requests: the maps of players and sectors agree, no player  *)
(* is lost or kept after its session, only who has logged in acts, and a   *)
(* message reaches exactly the neighbours.                                 *)
(***************************************************************************)
EXTENDS ChattingServer, FiniteSetTheorems, SequenceTheorems, TLAPS

-----------------------------------------------------------------------------
(* The inductive invariant.                                                *)

(* Whoever is in the map has a player of its own, that knows it.           *)
Owners == \A s \in InMap : playerMap[s] \in inUse /\ player[playerMap[s]].session = s

(* A player that has joined a sector is in one of the map.                 *)
Placed == \A s \in InMap : player[playerMap[s]].join => Sector(playerMap[s]) \in Sectors

(* The players in use are those of the map and those of second logins.     *)
InUseCount == Cardinality(inUse) = Cardinality(InMap) + again

(* A player that may act belongs to a session that has logged in.          *)
Started == \A s \in InMap : player[playerMap[s]].start => s \in logged

(* The leave of a session is the last of its jobs, and while it is waited  *)
(* for the session may have jobs and a player, but not after it.           *)
HasJob(s) == \E i \in DOMAIN jobs : jobs[i].session = s
LeavesLast ==
  \A i \in DOMAIN jobs : jobs[i].event = "leave" =>
    /\ net[jobs[i].session] = "gone"
    /\ \A j \in DOMAIN jobs : j > i => jobs[j].session # jobs[i].session
LeaveWaits ==
  \A s \in Sessions :
    net[s] = "gone" /\ (s \in InMap \/ HasJob(s)) =>
      \E i \in DOMAIN jobs : jobs[i].session = s /\ jobs[i].event = "leave"
NewIsUnknown ==
  \A s \in Sessions : net[s] = "new" => s \notin InMap /\ ~HasJob(s)

Inductive ==
  /\ TypeOK /\ SectorsExact
  /\ Owners /\ Placed /\ InUseCount /\ Started
  /\ LeavesLast /\ LeaveWaits /\ NewIsUnknown

-----------------------------------------------------------------------------
(* The queue of jobs.                                                      *)

(* What taking a job leaves of the queue.                                  *)
LEMMA TakenJobs ==
  ASSUME TypeOK, jobs # <<>>, jobs' = Tail(jobs)
  PROVE  /\ Job \in Events /\ Job = jobs[1] /\ 1 \in DOMAIN jobs /\ Me \in Sessions
         /\ jobs' \in Seq(Events) /\ Len(jobs) \in Nat /\ Len(jobs') = Len(jobs) - 1
         /\ DOMAIN jobs = 1 .. Len(jobs) /\ DOMAIN jobs' = 1 .. Len(jobs) - 1
         /\ \A i \in DOMAIN jobs' : jobs'[i] = jobs[i + 1]
<1>1. jobs \in Seq(Events)
  BY DEF TypeOK
<1>2. /\ Head(jobs) = jobs[1] /\ Head(jobs) \in Events
      /\ Len(jobs) \in Nat /\ Len(jobs) >= 1 /\ DOMAIN jobs = 1 .. Len(jobs)
  BY <1>1, HeadTailProperties, LenProperties, EmptySeq, ElementOfSeq
<1>3. /\ jobs' \in Seq(Events) /\ Len(jobs') = Len(jobs) - 1
      /\ \A i \in 1 .. Len(jobs') : jobs'[i] = jobs[i + 1]
  BY <1>1, HeadTailProperties
<1>4. DOMAIN jobs' = 1 .. Len(jobs')
  BY <1>3, LenProperties
<1>5. Job.session \in Sessions
  BY <1>2 DEF Job, Events
<1> QED
  BY <1>2, <1>3, <1>4, <1>5 DEF Job, Me

(* What a callback adds to it.                                             *)
LEMMA PostedJobs ==
  ASSUME TypeOK, NEW e \in Events, jobs' = Append(jobs, e)
  PROVE  /\ jobs' \in Seq(Events) /\ Len(jobs) \in Nat /\ Len(jobs') = Len(jobs) + 1
         /\ DOMAIN jobs = 1 .. Len(jobs) /\ DOMAIN jobs' = 1 .. Len(jobs) + 1
         /\ \A i \in DOMAIN jobs : jobs'[i] = jobs[i]
         /\ jobs'[Len(jobs) + 1] = e
  BY AppendProperties, LenProperties DEF TypeOK

(* The job a request is taken from says what the request is.               *)
LEMMA RequestTypes ==
  ASSUME TypeOK, NEW r, TakeRequest(r)
  PROVE  /\ Msg \in Requests /\ Msg.type = r
         /\ r = "login" /\ Msg.complete => Msg \in Logins
         /\ r = "move" /\ Msg.complete => Msg \in Moves
<1>1. Job \in Events /\ Job.event = "recv" /\ Msg.type = r
  BY TakenJobs DEF TakeRequest, Take
<1>2. Msg \in Requests
  BY <1>1 DEF Msg, Events
<1> QED
  BY <1>1, <1>2 DEF Requests, TooShort, Logins, Moves, Messages, Ignored, Unknown

-----------------------------------------------------------------------------
(* What the steps do, as far as the invariant asks.                        *)

(* A callback adds one job of its session, and moves the session on.       *)
Posted(s, e, n) ==
  /\ jobs' = Append(jobs, e)
  /\ net' = [net EXCEPT ![s] = n]
  /\ e.session = s /\ net[s] # "gone"
  /\ e.event = "leave" <=> n = "gone"
  /\ n \in {"open", "gone"}
  /\ Len(jobs) < MaxJobs
  /\ requests' \in 0 .. MaxRequests
  /\ out' = Silence
  /\ UNCHANGED <<playerVars, kicked>>

(* Each of the three callbacks is such a step.                             *)
LEMMA CallbackSteps ==
  ASSUME TypeOK, Callback
  PROVE  \E s \in Sessions, e \in Events, n \in {"open", "gone"} : Posted(s, e, n)
<1> USE DEF Post, Posted, Events
<1>1. ASSUME NEW s \in Sessions, OnClientJoin(s)
      PROVE  \E e \in Events, n \in {"open", "gone"} : Posted(s, e, n)
  <2> DEFINE e == [event |-> "join", session |-> s, msg |-> NoRequest]
  <2>1. e \in Events /\ Posted(s, e, "open")
    BY <1>1 DEF OnClientJoin, TypeOK
  <2> QED
    BY <2>1
<1>2. ASSUME NEW s \in Sessions, NEW r \in Requests, OnRecv(s, r)
      PROVE  \E e \in Events, n \in {"open", "gone"} : Posted(s, e, n)
  <2> DEFINE e == [event |-> "recv", session |-> s, msg |-> r]
  <2>1. e \in Events /\ Posted(s, e, "open")
    BY <1>2, BoundsAssumption DEF OnRecv, TypeOK
  <2> QED
    BY <2>1
<1>3. ASSUME NEW s \in Sessions, OnClientLeave(s)
      PROVE  \E e \in Events, n \in {"open", "gone"} : Posted(s, e, n)
  <2> DEFINE e == [event |-> "leave", session |-> s, msg |-> NoRequest]
  <2>1. e \in Events /\ Posted(s, e, "gone")
    BY <1>3 DEF OnClientLeave, TypeOK
  <2> QED
    BY <2>1
<1> QED
  BY <1>1, <1>2, <1>3 DEF Callback

(* UpdateThread has taken the first job.                                   *)
Taken ==
  /\ jobs # <<>>
  /\ jobs' = Tail(jobs)
  /\ UNCHANGED <<net, requests>>

(* It leaves players and sectors alone.                                    *)
Quiet ==
  /\ Taken
  /\ Job.event = "leave" => Me \notin InMap
  /\ kicked' \in {kicked, kicked \cup {Me}}
  /\ UNCHANGED playerVars

(* It makes a player p, which starts as r.                                 *)
Made(p, r) ==
  /\ Taken
  /\ Job.event # "leave"
  /\ p \notin inUse
  /\ inUse' = inUse \cup {p}
  /\ playerMap' = Insert(playerMap, Me, p)
  /\ again' = again + (IF P = NoPlayer THEN 0 ELSE 1)
  /\ player' = [player EXCEPT ![p] = r]
  /\ ~r.join /\ r.session = Me
  /\ logged' \in {logged, logged \cup {Me}}
  /\ r.start => Me \in logged'
  /\ kicked' \in {kicked, kicked \cup {Me}}
  /\ UNCHANGED sectorMap

(* It moves the player of the session to another sector c.                 *)
Moved(c) ==
  /\ Taken
  /\ Job.event # "leave"
  /\ P # NoPlayer /\ player[P].start
  /\ player' = [player EXCEPT ![P].join = TRUE, ![P].x = c[1], ![P].y = c[2]]
  /\ sectorMap' = [Left EXCEPT ![c] = Insert(@, Me, P)]
  /\ out' = Say("move", Me, {player[P].session}, player[P].account)
  /\ UNCHANGED <<playerMap, inUse, again, logged, kicked>>

(* Both outcomes of a login make a player.                                 *)
LEMMA LoginSteps ==
  ASSUME TypeOK, NEW p \in Players, LoginRefused(p) \/ Login(p)
  PROVE  \E r \in Positions : Made(p, r)
<1>1. /\ Job.event = "recv" /\ Me \in Sessions /\ Taken
  BY TakenJobs DEF LoginRefused, Login, LoginWith, TakeRequest, Take, Taken
<1>2. CASE LoginRefused(p)
  <2>1. Fresh(Me) \in Positions /\ Made(p, Fresh(Me))
    BY <1>1, <1>2 DEF LoginRefused, LoginWith, Made, Fresh, Positions, Presented
  <2> QED
    BY <2>1
<1>3. CASE Login(p)
  <2> DEFINE r == [Fresh(Me) EXCEPT !.start = TRUE, !.account = Msg.account]
  <2>1. Msg \in Logins
    BY <1>3, RequestTypes DEF Login, LoginWith
  <2>2. Msg.account \in Presented
    BY <2>1 DEF Logins
  <2>3. /\ r \in Positions /\ ~r.join /\ r.session = Me /\ r.start
    BY <1>1, <2>2 DEF Fresh, Positions
  <2>4. Made(p, r)
    BY <1>1, <1>3, <2>3 DEF Login, LoginWith, Made
  <2> QED
    BY <2>3, <2>4
<1> QED
  BY <1>2, <1>3

(* A move to a sector of the map, or one that is refused.                  *)
LEMMA MoveSteps ==
  ASSUME TypeOK, Move
  PROVE  Quiet \/ \E c \in Sectors : Moved(c)
<1>1. Job.event = "recv" /\ Me \in Sessions /\ Taken
  BY TakenJobs DEF Move, TakeRequest, Take, Taken
<1>2. Msg \in Moves
  BY RequestTypes DEF Move, MayMove
<1>3. /\ Msg.x \in 0 .. SECTOR_X_MAX /\ Msg.y \in 0 .. SECTOR_Y_MAX
  BY <1>2 DEF Moves
<1>4. <<Msg.x, Msg.y>> \in Sectors
  BY <1>3, SectorsAssumption DEF Move, MayMove, Sectors, Xs, Ys
<1>5. CASE player[P].join /\ sectorMap[Sector(P)][Me] = NoPlayer
  BY <1>1, <1>5 DEF Move, Kick, Quiet
<1>6. CASE ~(player[P].join /\ sectorMap[Sector(P)][Me] = NoPlayer)
  <2>1. Moved(<<Msg.x, Msg.y>>)
    BY <1>1, <1>6 DEF Move, MayMove, Playing, Known, Moved
  <2> QED
    BY <1>4, <2>1
<1> QED
  BY <1>5, <1>6

(* Every step of UpdateThread is of one of four kinds.                     *)
LEMMA UpdateSteps ==
  ASSUME TypeOK, UpdateThread
  PROVE  \/ Quiet
         \/ LeavePlayer
         \/ \E p \in Players, r \in Positions : Made(p, r)
         \/ \E c \in Sectors : Moved(c)
<1> USE DEF Quiet, Taken, Take, TakeRequest, Kick
<1>1. ASSUME ON_CLIENT_JOIN_FUNC PROVE Quiet
  BY <1>1 DEF ON_CLIENT_JOIN_FUNC
<1>2. ASSUME LeaveUnknown PROVE Quiet
  BY <1>2 DEF LeaveUnknown, P, InMap
<1>3. ASSUME MoveRefused \/ MessageRefused PROVE Quiet
  BY <1>3 DEF MoveRefused, MessageRefused
<1>4. ASSUME Message PROVE Quiet
  BY <1>4 DEF Message
<1>5. ASSUME Nothing \/ NotARequest PROVE Quiet
  BY <1>5 DEF Nothing, NotARequest
<1>6. ASSUME NEW p \in Players, LoginRefused(p) \/ Login(p)
      PROVE  \E r \in Positions : Made(p, r)
  BY <1>6, LoginSteps
<1>7. ASSUME Move PROVE Quiet \/ \E c \in Sectors : Moved(c)
  BY <1>7, MoveSteps
<1> QED
  BY <1>1, <1>2, <1>3, <1>4, <1>5, <1>6, <1>7 DEF UpdateThread

-----------------------------------------------------------------------------
(* The invariant holds at the start and is kept, one lemma for each part.  *)

(* A server with no session.                                               *)
LEMMA InitInductive == Init => Inductive
<1> SUFFICES ASSUME Init PROVE Inductive
  OBVIOUS
<1> USE DEF Init
<1>1. InMap = {} /\ DOMAIN jobs = {}
  BY DEF InMap
<1>2. Fresh(NoSession) \in Positions
  BY DEF Fresh, Positions, Presented
<1>3. TypeOK
  BY <1>2, BoundsAssumption DEF TypeOK
<1>4. SectorsExact
  BY <1>1 DEF SectorsExact
<1>5. Owners /\ Placed /\ InUseCount /\ Started
  BY <1>1, FS_EmptySet DEF Owners, Placed, InUseCount, Started
<1>6. LeavesLast /\ LeaveWaits /\ NewIsUnknown
  BY <1>1 DEF LeavesLast, LeaveWaits, NewIsUnknown, HasJob
<1> QED
  BY <1>3, <1>4, <1>5, <1>6 DEF Inductive

(* Types.                                                                  *)
LEMMA TypeStep == Inductive /\ [Next]_vars => TypeOK'
<1> SUFFICES ASSUME Inductive, [Next]_vars PROVE TypeOK'
  OBVIOUS
<1> USE DEF TypeOK
<1>1. TypeOK
  BY DEF Inductive
<1>2. ASSUME NEW s \in Sessions, NEW e \in Events, NEW n \in {"open", "gone"},
             Posted(s, e, n)
      PROVE  TypeOK'
  <2>1. jobs' \in Seq(Events) /\ Len(jobs') <= MaxJobs
    BY <1>1, <1>2, PostedJobs, BoundsAssumption DEF Posted
  <2> QED
    BY <1>1, <1>2, <2>1 DEF Posted, playerVars
<1>3. ASSUME Taken
      PROVE  /\ jobs' \in Seq(Events) /\ Len(jobs') <= MaxJobs
             /\ net' \in [Sessions -> {"new", "open", "gone"}]
             /\ requests' \in 0 .. MaxRequests
             /\ Me \in Sessions
  BY <1>1, <1>3, TakenJobs, BoundsAssumption DEF Taken
<1>4. CASE Quiet
  BY <1>1, <1>3, <1>4 DEF Quiet, playerVars
<1>5. CASE LeavePlayer
  <2>1. Taken
    BY <1>5 DEF LeavePlayer, RemovePlayer, Take, Taken
  <2>2. Left \in [Sectors -> [Sessions -> Players \cup {NoPlayer}]]
    BY <1>1, <1>3, <2>1 DEF Left
  <2>3. Gone \in [Sessions -> Players \cup {NoPlayer}]
    BY <1>1, <1>3, <2>1 DEF Gone
  <2> QED
    BY <1>1, <1>3, <1>5, <2>1, <2>2, <2>3 DEF LeavePlayer, RemovePlayer
<1>6. ASSUME NEW p \in Players, NEW r \in Positions, Made(p, r) PROVE TypeOK'
  <2>1. /\ playerMap' \in [Sessions -> Players \cup {NoPlayer}]
        /\ again' \in Nat /\ logged' \subseteq Sessions /\ kicked' \subseteq Sessions
    BY <1>1, <1>3, <1>6 DEF Made, Insert
  <2> QED
    BY <1>1, <1>3, <1>6, <2>1 DEF Made
<1>7. ASSUME NEW c \in Sectors, Moved(c) PROVE TypeOK'
  <2>1. Taken /\ P \in Players /\ c[1] \in Xs /\ c[2] \in Ys /\ Me \in Sessions
    BY <1>1, <1>3, <1>7 DEF Moved, P, Sectors
  <2>2. Left \in [Sectors -> [Sessions -> Players \cup {NoPlayer}]]
    BY <1>1, <2>1 DEF Left
  <2>3. sectorMap' \in [Sectors -> [Sessions -> Players \cup {NoPlayer}]]
    BY <1>7, <2>1, <2>2 DEF Moved, Insert
  <2>4. player' \in [Players -> Positions]
    <3>1. player[P] \in Positions
      BY <1>1, <2>1
    <3>2. [player[P] EXCEPT !.join = TRUE, !.x = c[1], !.y = c[2]] \in Positions
      BY <2>1, <3>1 DEF Positions
    <3>3. player' = [player EXCEPT ![P] =
                       [player[P] EXCEPT !.join = TRUE, !.x = c[1], !.y = c[2]]]
      BY <1>1, <1>7, <2>1 DEF Moved, Positions
    <3> QED
      BY <1>1, <2>1, <3>2, <3>3
  <2> QED
    BY <1>1, <1>3, <1>7, <2>1, <2>3, <2>4 DEF Moved
<1>8. CASE UNCHANGED vars
  BY <1>1, <1>8 DEF vars, playerVars
<1> QED
  BY <1>1, <1>2, <1>4, <1>5, <1>6, <1>7, <1>8, CallbackSteps, UpdateSteps DEF Next

(* The order of the jobs: a callback.                                      *)
LEMMA PostedOrder ==
  ASSUME Inductive, NEW s \in Sessions, NEW e \in Events, NEW n \in {"open", "gone"},
         Posted(s, e, n)
  PROVE  (LeavesLast /\ LeaveWaits /\ NewIsUnknown)'
<1>1. /\ Len(jobs) \in Nat
      /\ DOMAIN jobs = 1 .. Len(jobs) /\ DOMAIN jobs' = 1 .. Len(jobs) + 1
      /\ \A i \in DOMAIN jobs : jobs'[i] = jobs[i]
      /\ jobs'[Len(jobs) + 1] = e
  BY PostedJobs DEF Inductive, Posted
<1>2. /\ InMap' = InMap
      /\ net' [s] = n /\ \A r \in Sessions : r # s => net'[r] = net[r]
      /\ e.session = s /\ net[s] # "gone" /\ (e.event = "leave" <=> n = "gone")
  BY DEF Inductive, TypeOK, Posted, playerVars, InMap
<1>3. \A i \in DOMAIN jobs : jobs[i].session \in Sessions
  <2>1. jobs \in Seq(Events)
    BY DEF Inductive, TypeOK
  <2>2. \A i \in DOMAIN jobs : jobs[i] \in Events
    BY <1>1, <2>1, ElementOfSeq
  <2> QED
    BY <2>2 DEF Events
<1>4. LeavesLast'
  BY <1>1, <1>2, <1>3 DEF Inductive, LeavesLast
<1>5. \A r \in Sessions : r # s => (HasJob(r)' <=> HasJob(r))
  BY <1>1, <1>2 DEF HasJob
<1>6. LeaveWaits'
  <2> SUFFICES ASSUME NEW r \in Sessions, net'[r] = "gone", r \in InMap' \/ HasJob(r)'
               PROVE  \E i \in DOMAIN jobs' : jobs'[i].session = r /\ jobs'[i].event = "leave"
    BY DEF LeaveWaits
  <2>1. CASE r = s
    BY <1>1, <1>2, <2>1
  <2>2. CASE r # s
    <3>1. PICK i \in DOMAIN jobs : jobs[i].session = r /\ jobs[i].event = "leave"
      BY <1>2, <1>5, <2>2 DEF Inductive, LeaveWaits
    <3> QED
      BY <1>1, <3>1
  <2> QED
    BY <2>1, <2>2
<1>7. NewIsUnknown'
  BY <1>2, <1>5 DEF Inductive, NewIsUnknown
<1> QED
  BY <1>4, <1>6, <1>7

(* The order of the jobs: one is taken.  Only its session can get or lose  *)
(* its player, and it has lost it when the job is a leave.                 *)
LEMMA TakenOrder ==
  ASSUME Inductive, Taken,
         \A s \in Sessions : s # Me => (s \in InMap' <=> s \in InMap),
         InMap' \subseteq Sessions,
         Job.event = "leave" => Me \notin InMap'
  PROVE  (LeavesLast /\ LeaveWaits /\ NewIsUnknown)'
<1>1. /\ Len(jobs) \in Nat /\ net' = net /\ 1 \in DOMAIN jobs /\ Job = jobs[1]
      /\ Me \in Sessions /\ Job.session = Me
      /\ DOMAIN jobs = 1 .. Len(jobs) /\ DOMAIN jobs' = 1 .. Len(jobs) - 1
      /\ \A i \in DOMAIN jobs' : jobs'[i] = jobs[i + 1]
  BY TakenJobs DEF Inductive, Taken, Me
<1>2. /\ \A i \in DOMAIN jobs' : i + 1 \in DOMAIN jobs
      /\ \A i \in DOMAIN jobs : i # 1 => i - 1 \in DOMAIN jobs' /\ jobs'[i - 1] = jobs[i]
  BY <1>1
<1>3. LeavesLast'
  <2> SUFFICES ASSUME NEW i \in DOMAIN jobs', jobs'[i].event = "leave"
               PROVE  /\ net[jobs'[i].session] = "gone"
                      /\ \A j \in DOMAIN jobs' :
                           j > i => jobs'[j].session # jobs'[i].session
    BY <1>1 DEF LeavesLast
  <2>1. /\ net[jobs[i + 1].session] = "gone"
        /\ \A j \in DOMAIN jobs : j > i + 1 => jobs[j].session # jobs[i + 1].session
    BY <1>1, <1>2 DEF Inductive, LeavesLast
  <2>2. \A j \in DOMAIN jobs' : j > i => j + 1 \in DOMAIN jobs /\ j + 1 > i + 1
    BY <1>1
  <2> QED
    BY <1>1, <2>1, <2>2
<1>4. \A s \in Sessions : HasJob(s)' => HasJob(s)
  BY <1>1, <1>2 DEF HasJob
<1>5. HasJob(Me)
  BY <1>1 DEF HasJob
<1>6. LeaveWaits'
  <2> SUFFICES ASSUME NEW s \in Sessions, net[s] = "gone", s \in InMap' \/ HasJob(s)'
               PROVE  \E i \in DOMAIN jobs' : jobs'[i].session = s /\ jobs'[i].event = "leave"
    BY <1>1 DEF LeaveWaits
  <2>1. s \in InMap \/ HasJob(s)
    BY <1>4, <1>5
  <2>2. PICK i \in DOMAIN jobs : jobs[i].session = s /\ jobs[i].event = "leave"
    BY <2>1 DEF Inductive, LeaveWaits
  <2>3. i # 1
    <3> SUFFICES ASSUME i = 1 PROVE FALSE
      OBVIOUS
    <3>1. s = Me /\ Job.event = "leave"
      BY <1>1, <2>2
    <3>2. \A j \in DOMAIN jobs : j > 1 => jobs[j].session # s
      BY <1>1, <2>2 DEF Inductive, LeavesLast
    <3>3. ~HasJob(s)'
      BY <1>1, <1>2, <3>2 DEF HasJob
    <3> QED
      BY <3>1, <3>3
  <2> QED
    BY <1>2, <2>2, <2>3
<1>7. NewIsUnknown'
  <2>1. net[Me] # "new"
    BY <1>1, <1>5 DEF Inductive, NewIsUnknown
  <2> QED
    BY <1>1, <1>4, <2>1 DEF Inductive, NewIsUnknown
<1> QED
  BY <1>3, <1>6, <1>7

(* Players and sectors: the parts of the invariant about them.             *)
PlayersRight == SectorsExact /\ Owners /\ Placed /\ InUseCount /\ Started

(* The players of the map are finitely many.                               *)
LEMMA Finite ==
  ASSUME TypeOK
  PROVE  /\ IsFiniteSet(InMap) /\ Cardinality(InMap) \in Nat
         /\ IsFiniteSet(inUse) /\ Cardinality(inUse) \in Nat
  BY SessionsAssumption, PlayersAssumption, FS_Subset, FS_CardinalityType
  DEF TypeOK, InMap

(* No two sessions have one player.                                        *)
LEMMA OnePlayerEach ==
  ASSUME Owners, NEW s \in InMap, NEW t \in InMap, playerMap[s] = playerMap[t]
  PROVE  s = t
  BY DEF Owners

(* The player of a session that leaves is gone from map, sector and use.   *)
LEMMA LeaveKeeps ==
  ASSUME Inductive, LeavePlayer
  PROVE  /\ PlayersRight'
         /\ Me \notin InMap' /\ \A s \in Sessions : s # Me => (s \in InMap' <=> s \in InMap)
<1>1. /\ TypeOK /\ Taken /\ Me \in Sessions /\ P # NoPlayer /\ P \in Players
      /\ playerMap' = Gone /\ sectorMap' = Left /\ inUse' = inUse \ {P}
      /\ logged' = logged \ {Me} /\ UNCHANGED <<player, again>>
  BY TakenJobs DEF Inductive, TypeOK, LeavePlayer, RemovePlayer, Take, Taken, P
<1>2. /\ playerMap'[Me] = NoPlayer
      /\ \A s \in Sessions : s # Me => playerMap'[s] = playerMap[s]
  BY <1>1 DEF Gone, TypeOK
<1>3. /\ Me \in InMap /\ Me \notin InMap' /\ InMap' = InMap \ {Me}
      /\ \A s \in Sessions : s # Me => (s \in InMap' <=> s \in InMap)
  BY <1>1, <1>2 DEF InMap, P
<1>4. \A s \in InMap' : playerMap[s] # P
  BY <1>1, <1>3, OnePlayerEach DEF Inductive, P
<1>5. Owners'
  BY <1>1, <1>2, <1>3, <1>4 DEF Inductive, Owners, InMap
<1>6. Started'
  BY <1>1, <1>2, <1>3 DEF Inductive, Started, InMap
<1>7. Placed'
  BY <1>1, <1>2, <1>3 DEF Inductive, Placed, Sector, InMap
<1>8. InUseCount'
  <2>1. P \in inUse
    BY <1>1, <1>3 DEF Inductive, Owners, P
  <2>2. /\ Cardinality(InMap') = Cardinality(InMap) - 1
        /\ Cardinality(inUse') = Cardinality(inUse) - 1
    BY <1>1, <1>3, <2>1, Finite, FS_RemoveElement
  <2>3. /\ Cardinality(InMap) \in Nat /\ Cardinality(inUse) \in Nat /\ again \in Nat
    BY <1>1, Finite DEF TypeOK
  <2> QED
    BY <1>1, <2>2, <2>3 DEF Inductive, InUseCount
<1>9. SectorsExact'
  <2> SUFFICES ASSUME NEW c \in Sectors, NEW s \in Sessions
               PROVE  sectorMap'[c][s] =
                        IF s \in InMap' /\ player[playerMap'[s]].join
                             /\ <<player[playerMap'[s]].x, player[playerMap'[s]].y>> = c
                        THEN playerMap'[s] ELSE NoPlayer
    BY <1>1 DEF SectorsExact, Sector
  <2>1. sectorMap[c][s] =
          IF s \in InMap /\ player[playerMap[s]].join
               /\ <<player[playerMap[s]].x, player[playerMap[s]].y>> = c
          THEN playerMap[s] ELSE NoPlayer
    BY DEF Inductive, SectorsExact, Sector
  <2>2. CASE s # Me
    <3>1. Left[c][s] = sectorMap[c][s]
      BY <1>1, <2>2 DEF Left, TypeOK
    <3> QED
      BY <1>1, <1>2, <1>3, <2>1, <2>2, <3>1
  <2>3. CASE s = Me
    <3>1. Left[c][s] = NoPlayer
      BY <1>1, <2>1, <2>3 DEF Left, TypeOK, P, Sector
    <3> QED
      BY <1>1, <1>3, <2>3, <3>1
  <2> QED
    BY <2>2, <2>3
<1> QED
  BY <1>3, <1>5, <1>6, <1>8, <1>9, <1>7 DEF PlayersRight

(* A login makes a player of its own; a second one makes it for nobody.    *)
LEMMA MadeKeeps ==
  ASSUME Inductive, NEW p \in Players, NEW r \in Positions, Made(p, r)
  PROVE  PlayersRight' /\ \A s \in Sessions : s # Me => (s \in InMap' <=> s \in InMap)
<1>1. /\ TypeOK /\ Me \in Sessions /\ p # NoPlayer /\ p \notin inUse
      /\ UNCHANGED sectorMap /\ ~r.join /\ r.session = Me
      /\ inUse' = inUse \cup {p} /\ logged \subseteq logged'
      /\ r.start => Me \in logged'
  BY TakenJobs, PlayersAssumption DEF Inductive, Made, Taken
<1>2. /\ playerMap'[Me] = IF P = NoPlayer THEN p ELSE P
      /\ \A s \in Sessions : s # Me => playerMap'[s] = playerMap[s]
  BY <1>1 DEF Made, Insert, TypeOK, P
<1>3. /\ player'[p] = r
      /\ \A q \in Players : q # p => player'[q] = player[q]
  BY <1>1 DEF Made, TypeOK
<1>4. \A s \in InMap : playerMap[s] \in Players /\ playerMap[s] # p
  BY <1>1 DEF Inductive, Owners, InMap, TypeOK
<1>5. /\ InMap' = InMap \cup {Me}
      /\ Me \in InMap <=> P # NoPlayer
      /\ \A s \in Sessions : s # Me => (s \in InMap' <=> s \in InMap)
  BY <1>1, <1>2 DEF InMap, P
<1>6. \A s \in InMap : playerMap'[s] = playerMap[s] /\ player'[playerMap'[s]] = player[playerMap[s]]
  BY <1>1, <1>2, <1>3, <1>4, <1>5 DEF InMap, P
<1>7. Me \notin InMap => playerMap'[Me] = p /\ player'[playerMap'[Me]] = r
  BY <1>2, <1>3, <1>5
<1>8. Owners'
  BY <1>1, <1>5, <1>6, <1>7 DEF Inductive, Owners
<1>9. Started'
  BY <1>1, <1>5, <1>6, <1>7 DEF Inductive, Started
<1>10. Placed'
  BY <1>1, <1>5, <1>6, <1>7 DEF Inductive, Placed, Sector
<1>11. InUseCount'
  <2>1. Cardinality(inUse') = Cardinality(inUse) + 1
    BY <1>1, Finite, FS_AddElement
  <2>2. Cardinality(InMap') = Cardinality(InMap) + (IF P = NoPlayer THEN 1 ELSE 0)
    <3>1. CASE P = NoPlayer
      BY <1>1, <1>5, <3>1, Finite, FS_AddElement
    <3>2. CASE P # NoPlayer
      <4>1. InMap' = InMap
        BY <1>5, <3>2
      <4> QED
        BY <1>1, <3>2, <4>1, Finite
    <3> QED
      BY <3>1, <3>2
  <2>3. /\ Cardinality(InMap) \in Nat /\ Cardinality(inUse) \in Nat /\ again \in Nat
    BY <1>1, Finite DEF TypeOK
  <2>4. again' = again + (IF P = NoPlayer THEN 0 ELSE 1)
    BY DEF Made
  <2> QED
    BY <2>1, <2>2, <2>3, <2>4 DEF Inductive, InUseCount
<1>12. SectorsExact'
  <2> SUFFICES ASSUME NEW c \in Sectors, NEW s \in Sessions
               PROVE  sectorMap[c][s] =
                        IF s \in InMap' /\ player'[playerMap'[s]].join
                             /\ <<player'[playerMap'[s]].x, player'[playerMap'[s]].y>> = c
                        THEN playerMap'[s] ELSE NoPlayer
    BY <1>1 DEF SectorsExact, Sector
  <2>1. sectorMap[c][s] =
          IF s \in InMap /\ player[playerMap[s]].join
               /\ <<player[playerMap[s]].x, player[playerMap[s]].y>> = c
          THEN playerMap[s] ELSE NoPlayer
    BY DEF Inductive, SectorsExact, Sector
  <2>2. CASE s \in InMap
    BY <1>5, <1>6, <2>1, <2>2
  <2>3. CASE s \notin InMap
    BY <1>1, <1>5, <1>7, <2>1, <2>3
  <2> QED
    BY <2>2, <2>3
<1> QED
  BY <1>5, <1>8, <1>9, <1>11, <1>12, <1>10 DEF PlayersRight

(* A move takes the player out of its sector and into another.             *)
LEMMA MovedKeeps ==
  ASSUME Inductive, NEW c \in Sectors, Moved(c)
  PROVE  PlayersRight' /\ InMap' = InMap
<1>1. /\ TypeOK /\ Me \in Sessions /\ Me \in InMap /\ P \in Players /\ P = playerMap[Me]
      /\ P # NoPlayer /\ UNCHANGED <<playerMap, inUse, again, logged>>
      /\ sectorMap' = [Left EXCEPT ![c] = Insert(@, Me, P)]
  BY TakenJobs DEF Inductive, TypeOK, Moved, Taken, P, InMap
<1>2. /\ \A q \in Players : q # P => player'[q] = player[q]
      /\ player'[P].join /\ <<player'[P].x, player'[P].y>> = c
      /\ player'[P].session = player[P].session /\ player'[P].start = player[P].start
  <2>1. player[P] \in Positions /\ c = <<c[1], c[2]>>
    BY <1>1 DEF TypeOK, Sectors
  <2>2. player' = [player EXCEPT ![P] =
                     [player[P] EXCEPT !.join = TRUE, !.x = c[1], !.y = c[2]]]
    BY <1>1, <2>1 DEF Moved, TypeOK, Positions
  <2> QED
    BY <1>1, <2>1, <2>2 DEF TypeOK, Positions
<1>3. InMap' = InMap
  BY <1>1 DEF InMap
<1>4. \A s \in InMap : s # Me => playerMap[s] \in Players /\ playerMap[s] # P
  BY <1>1, OnePlayerEach DEF Inductive, InMap, TypeOK
<1>5. Owners'
  BY <1>1, <1>2, <1>3, <1>4 DEF Inductive, Owners
<1>6. Started'
  BY <1>1, <1>2, <1>3, <1>4 DEF Inductive, Started
<1>7. Placed'
  BY <1>1, <1>2, <1>3, <1>4 DEF Inductive, Placed, Sector
<1>8. InUseCount'
  BY <1>1, <1>3 DEF Inductive, InUseCount
<1>9. SectorsExact'
  <2> SUFFICES ASSUME NEW d \in Sectors, NEW s \in Sessions
               PROVE  sectorMap'[d][s] =
                        IF s \in InMap /\ player'[playerMap[s]].join
                             /\ <<player'[playerMap[s]].x, player'[playerMap[s]].y>> = d
                        THEN playerMap[s] ELSE NoPlayer
    BY <1>1, <1>3 DEF SectorsExact, Sector
  <2>1. sectorMap[d][s] =
          IF s \in InMap /\ player[playerMap[s]].join
               /\ <<player[playerMap[s]].x, player[playerMap[s]].y>> = d
          THEN playerMap[s] ELSE NoPlayer
    BY DEF Inductive, SectorsExact, Sector
  <2>2. /\ Left \in [Sectors -> [Sessions -> Players \cup {NoPlayer}]]
        /\ s # Me => Left[d][s] = sectorMap[d][s]
    BY <1>1 DEF Left, TypeOK
  <2>3. s = Me => Left[d][s] = NoPlayer
    BY <1>1, <2>1 DEF Left, TypeOK, Sector
  <2>4. /\ d # c => sectorMap'[d] = Left[d]
        /\ sectorMap'[c] = Insert(Left[c], Me, P)
    BY <1>1, <2>2
  <2>5. CASE s # Me
    <3>1. sectorMap'[d][s] = Left[d][s]
      BY <1>1, <2>2, <2>4, <2>5 DEF Insert
    <3> QED
      BY <1>2, <1>4, <2>1, <2>2, <2>5, <3>1
  <2>6. CASE s = Me
    <3>1. CASE d = c
      BY <1>1, <1>2, <2>2, <2>3, <2>4, <2>6, <3>1 DEF Insert
    <3>2. CASE d # c
      BY <1>1, <1>2, <2>3, <2>4, <2>6, <3>2
    <3> QED
      BY <3>1, <3>2
  <2> QED
    BY <2>5, <2>6
<1> QED
  BY <1>3, <1>5, <1>6, <1>8, <1>9, <1>7 DEF PlayersRight

(* Steps that leave players and sectors alone leave what is said of them.  *)
LEMMA PlayersUntouched ==
  ASSUME Inductive, UNCHANGED playerVars
  PROVE  PlayersRight' /\ InMap' = InMap
  BY DEF Inductive, playerVars, PlayersRight, SectorsExact, Sector, Owners, Placed,
         InUseCount, Started, InMap

(* All parts together.                                                     *)
LEMMA InductiveStep == Inductive /\ [Next]_vars => Inductive'
<1> SUFFICES ASSUME Inductive, [Next]_vars PROVE Inductive'
  OBVIOUS
<1> USE DEF PlayersRight
<1>1. TypeOK /\ TypeOK'
  BY TypeStep DEF Inductive
<1>2. InMap' \subseteq Sessions
  BY DEF InMap
<1>3. ASSUME NEW s \in Sessions, NEW e \in Events, NEW n \in {"open", "gone"},
             Posted(s, e, n)
      PROVE  Inductive'
  BY <1>1, <1>3, PostedOrder, PlayersUntouched DEF Posted, Inductive
<1>4. CASE Quiet
  <2>1. PlayersRight' /\ InMap' = InMap
    BY <1>4, PlayersUntouched DEF Quiet
  <2>2. (LeavesLast /\ LeaveWaits /\ NewIsUnknown)'
    BY <1>2, <1>4, <2>1, TakenOrder DEF Quiet
  <2> QED
    BY <1>1, <2>1, <2>2 DEF Inductive
<1>5. CASE LeavePlayer
  <2>1. Taken
    BY <1>5 DEF LeavePlayer, RemovePlayer, Take, Taken
  <2>2. (LeavesLast /\ LeaveWaits /\ NewIsUnknown)'
    BY <1>2, <1>5, <2>1, LeaveKeeps, TakenOrder
  <2> QED
    BY <1>1, <1>5, <2>2, LeaveKeeps DEF Inductive
<1>6. ASSUME NEW p \in Players, NEW r \in Positions, Made(p, r) PROVE Inductive'
  <2>1. PlayersRight' /\ \A s \in Sessions : s # Me => (s \in InMap' <=> s \in InMap)
    BY <1>6, MadeKeeps
  <2>2. (LeavesLast /\ LeaveWaits /\ NewIsUnknown)'
    BY <1>2, <1>6, <2>1, TakenOrder DEF Made
  <2> QED
    BY <1>1, <2>1, <2>2 DEF Inductive
<1>7. ASSUME NEW c \in Sectors, Moved(c) PROVE Inductive'
  <2>1. PlayersRight' /\ InMap' = InMap
    BY <1>7, MovedKeeps
  <2>2. (LeavesLast /\ LeaveWaits /\ NewIsUnknown)'
    BY <1>2, <1>7, <2>1, TakenOrder DEF Moved
  <2> QED
    BY <1>1, <2>1, <2>2 DEF Inductive
<1>8. CASE UNCHANGED vars
  <2>1. PlayersRight'
    BY <1>8, PlayersUntouched DEF vars
  <2>2. (LeavesLast /\ LeaveWaits /\ NewIsUnknown)'
    BY <1>8 DEF Inductive, vars, playerVars, LeavesLast, LeaveWaits, NewIsUnknown, HasJob,
                InMap
  <2> QED
    BY <1>1, <2>1, <2>2 DEF Inductive
<1> QED
  BY <1>1, <1>3, <1>4, <1>5, <1>6, <1>7, <1>8, CallbackSteps, UpdateSteps DEF Next

-----------------------------------------------------------------------------
(* What is sent.                                                           *)

(* Only a move, a login and a message are answered.                        *)
LEMMA Answers ==
  ASSUME TypeOK, Next
  PROVE  \/ out' = Silence
         \/ \E c \in Sectors : Moved(c)
         \/ \E p \in Players : Login(p)
         \/ Message
<1>1. ASSUME Callback PROVE out' = Silence
  BY <1>1, CallbackSteps DEF Posted
<1>2. ASSUME Move PROVE out' = Silence \/ \E c \in Sectors : Moved(c)
  <2>1. CASE player[P].join /\ sectorMap[Sector(P)][Me] = NoPlayer
    BY <1>2, <2>1 DEF Move, Kick
  <2>2. CASE ~(player[P].join /\ sectorMap[Sector(P)][Me] = NoPlayer)
    <3>1. out' # Silence
      BY <1>2, <2>2 DEF Move, Say, Silence
    <3>2. CASE Quiet
      <4>1. player' = player
        BY <3>2 DEF Quiet, playerVars
      <4>2. Msg \in Moves /\ Job.event = "recv" /\ Taken
        BY <1>2, RequestTypes, TakenJobs
        DEF Move, MayMove, TakeRequest, Take, Taken
      <4>3. <<Msg.x, Msg.y>> \in Sectors
        BY <1>2, <4>2, SectorsAssumption
        DEF Moves, Move, MayMove, Sectors, Xs, Ys
      <4>4. Moved(<<Msg.x, Msg.y>>)
        BY <1>2, <2>2, <4>2 DEF Move, MayMove, Playing, Known, Moved
      <4> QED
        BY <4>3, <4>4
    <3> QED
      BY <1>2, <3>2, MoveSteps
  <2> QED
    BY <2>1, <2>2
<1> QED
  BY <1>1, <1>2
  DEF Next, UpdateThread, ON_CLIENT_JOIN_FUNC, LeaveUnknown, LeavePlayer, RemovePlayer,
      LoginRefused, MoveRefused, MessageRefused, Nothing, NotARequest, Kick

(* Who speaks or moves has logged in.                                      *)
LEMMA AnswersStep ==
  ASSUME Inductive, AnswersNeedLogin, [Next]_vars
  PROVE  AnswersNeedLogin'
<1>1. TypeOK /\ Started /\ \A q \in Players : q # NoPlayer
  BY PlayersAssumption DEF Inductive
<1>2. CASE out' = Silence
  BY <1>2 DEF AnswersNeedLogin, Silence
<1>3. ASSUME NEW c \in Sectors, Moved(c) PROVE AnswersNeedLogin'
  <2>1. /\ Me \in InMap /\ player[playerMap[Me]].start /\ logged' = logged
        /\ out'.kind = "move" /\ out'.from = Me
    BY <1>1, <1>3, TakenJobs DEF Moved, Taken, InMap, P, Say
  <2> QED
    BY <1>1, <2>1 DEF Started, AnswersNeedLogin
<1>4. ASSUME NEW p \in Players, Login(p) PROVE AnswersNeedLogin'
  <2>1. /\ Me \in Sessions /\ Msg \in Logins
        /\ out'.kind = "login" /\ out'.from = Me /\ out'.account = Msg.account
    BY <1>1, <1>4, TakenJobs, RequestTypes
    DEF Login, LoginWith, TakeRequest, Take, Say
  <2>2. again' = 0 => P = NoPlayer
    BY <1>1, <1>4 DEF Login, LoginWith, TypeOK
  <2>3. P = NoPlayer => playerMap'[Me] = p
    BY <1>1, <1>4, <2>1 DEF Login, LoginWith, Insert, TypeOK, P
  <2>4. player'[p].account = Msg.account
    BY <1>1, <1>4 DEF Login, TypeOK, Fresh
  <2> QED
    BY <2>1, <2>2, <2>3, <2>4 DEF AnswersNeedLogin
<1>5. CASE Message
  <2>1. /\ Me \in InMap /\ player[playerMap[Me]].start /\ logged' = logged
        /\ out'.kind = "chat" /\ out'.from = Me
    BY <1>1, <1>5, TakenJobs
    DEF Message, MaySpeak, Playing, Known, TakeRequest, Take, InMap, P, Say, playerVars
  <2> QED
    BY <1>1, <2>1 DEF Started, AnswersNeedLogin
<1>6. CASE UNCHANGED vars
  BY <1>6 DEF vars, playerVars, AnswersNeedLogin
<1> QED
  BY <1>1, <1>2, <1>3, <1>4, <1>5, <1>6, Answers

(* The sectors around a player hold the sessions near it.                  *)
LEMMA AudienceIsNear ==
  ASSUME Inductive, NEW s \in InMap
  PROVE  Audience(playerMap[s]) = {t \in Sessions : Near(s, t)}
<1> DEFINE p == playerMap[s]
<1>1. /\ TypeOK /\ SectorsExact /\ Owners
      /\ s \in Sessions /\ p \in Players /\ p # NoPlayer
  BY DEF Inductive, InMap, TypeOK
<1>2. p \in Players /\ player[p] \in Positions
  BY <1>1 DEF TypeOK
<1>3. \A c \in Sectors, t \in Sessions :
        sectorMap[c][t] # NoPlayer =>
          /\ t \in InMap /\ sectorMap[c][t] = playerMap[t] /\ player[playerMap[t]].join
          /\ <<player[playerMap[t]].x, player[playerMap[t]].y>> = c
          /\ player[playerMap[t]].session = t
  BY <1>1 DEF SectorsExact, Owners, Sector
<1>4. ASSUME NEW t \in Audience(p) PROVE t \in Sessions /\ Near(s, t)
  <2>1. PICK c \in Around(p) : \E q \in Within(c) : t = player[q].session
    BY <1>4 DEF Audience
  <2>2. PICK q \in Within(c) : t = player[q].session
    BY <2>1
  <2>3. PICK u \in Sessions : q = sectorMap[c][u] /\ q # NoPlayer
    BY <2>1 DEF Within
  <2>4. /\ c \in Sectors
        /\ c[1] \in player[p].x - 1 .. player[p].x + 1
        /\ c[2] \in player[p].y - 1 .. player[p].y + 1
    BY <2>1 DEF Around, SectorsWithin
  <2>5. /\ u \in InMap /\ q = playerMap[u] /\ player[q].join
        /\ <<player[q].x, player[q].y>> = c /\ player[q].session = u
    BY <1>3, <2>3, <2>4
  <2>6. t = u /\ c[1] = player[q].x /\ c[2] = player[q].y
    BY <2>5, <2>2
  <2>7. c[1] \in Int /\ c[2] \in Int /\ player[p].x \in Int /\ player[p].y \in Int
    BY <1>2, <2>4, SectorsAssumption DEF Sectors, Xs, Ys, Positions
  <2>8. /\ player[p].x - c[1] \in -1 .. 1 /\ player[p].y - c[2] \in -1 .. 1
    BY <2>4, <2>7
  <2> QED
    BY <2>3, <2>5, <2>6, <2>8 DEF Near
<1>5. ASSUME NEW t \in Sessions, Near(s, t) PROVE t \in Audience(p)
  <2> DEFINE q == playerMap[t]
  <2> DEFINE c == <<player[q].x, player[q].y>>
  <2>1. /\ t \in InMap /\ player[q].join
        /\ player[p].x - player[q].x \in -1 .. 1
        /\ player[p].y - player[q].y \in -1 .. 1
    BY <1>5 DEF Near
  <2>2. q \in Players /\ q # NoPlayer /\ player[q] \in Positions /\ player[q].session = t
    BY <1>1, <2>1 DEF InMap, TypeOK, Owners
  <2>3. c \in Sectors /\ sectorMap[c][t] = q
    <3>1. c \in Sectors
      BY <2>1 DEF Inductive, Placed, Sector
    <3> QED
      BY <1>1, <2>1, <3>1 DEF SectorsExact, Sector
  <2>4. q \in Within(c)
    BY <2>2, <2>3 DEF Within
  <2>5. c \in Around(p)
    BY <1>2, <2>1, <2>2, <2>3, SectorsAssumption
    DEF Around, SectorsWithin, Sectors, Xs, Ys, Positions
  <2> QED
    BY <2>2, <2>4, <2>5 DEF Audience
<1> QED
  BY <1>4, <1>5

(* A message reaches exactly the neighbours of its sender.                 *)
LEMMA AudienceStep ==
  ASSUME Inductive, AudienceExact, [Next]_vars
  PROVE  AudienceExact'
<1>1. TypeOK
  BY DEF Inductive
<1>2. CASE out'.kind # "chat"
  BY <1>2 DEF AudienceExact
<1>3. CASE Message
  <2>1. PICK m \in InMap : m = Me
    BY <1>1, <1>3, TakenJobs
    DEF Message, MaySpeak, Playing, Known, TakeRequest, Take, InMap, P
  <2>2. /\ UNCHANGED <<player, playerMap>>
        /\ out'.from = m /\ out'.to = Audience(playerMap[m])
    BY <1>3, <2>1 DEF Message, P, Say, playerVars
  <2>3. Audience(playerMap[m]) = {t \in Sessions : Near(m, t)}
    BY AudienceIsNear
  <2>4. \A t \in Sessions : Near(m, t)' <=> Near(m, t)
    BY <2>2 DEF Near, InMap
  <2> QED
    BY <2>2, <2>3, <2>4 DEF AudienceExact
<1>4. CASE UNCHANGED vars
  BY <1>4 DEF vars, playerVars, AudienceExact, Near, InMap
<1>5. ASSUME out' = Silence PROVE out'.kind # "chat"
  BY <1>5 DEF Silence
<1>6. ASSUME NEW c \in Sectors, Moved(c) PROVE out'.kind # "chat"
  BY <1>6 DEF Moved, Say
<1>7. ASSUME NEW p \in Players, Login(p) PROVE out'.kind # "chat"
  <2>1. out' = Say("login", Me, {Me}, Msg.account)
    BY <1>7 DEF Login
  <2> QED
    BY <2>1 DEF Say
<1> QED
  BY <1>1, <1>2, <1>3, <1>4, <1>5, <1>6, <1>7, Answers

(* A player keeps its account.                                             *)
LEMMA AccountStep ==
  ASSUME Inductive, [Next]_vars, NEW s \in InMap, s \in InMap', player[playerMap[s]].start
  PROVE  player'[playerMap'[s]].account = player[playerMap[s]].account
<1>1. TypeOK /\ s \in Sessions /\ playerMap[s] \in Players /\ playerMap[s] \in inUse
  BY DEF Inductive, TypeOK, InMap, Owners
<1>2. ASSUME UNCHANGED playerVars
      PROVE  player'[playerMap'[s]].account = player[playerMap[s]].account
  BY <1>2 DEF playerVars
<1>3. CASE LeavePlayer
  <2>1. player' = player /\ playerMap' = Gone /\ playerMap'[s] # NoPlayer
    BY <1>3 DEF LeavePlayer, RemovePlayer, InMap
  <2>2. playerMap'[s] = playerMap[s]
    BY <1>1, <2>1 DEF Gone, TypeOK
  <2> QED
    BY <2>1, <2>2
<1>4. ASSUME NEW p \in Players, NEW r \in Positions, Made(p, r)
      PROVE  player'[playerMap'[s]].account = player[playerMap[s]].account
  <2>1. p # playerMap[s]
    BY <1>1, <1>4 DEF Made
  <2>2. playerMap'[s] = playerMap[s]
    BY <1>1, <1>4 DEF Made, Insert, TypeOK, InMap
  <2>3. player'[playerMap[s]] = player[playerMap[s]]
    BY <1>1, <1>4, <2>1 DEF Made, TypeOK
  <2> QED
    BY <2>2, <2>3
<1>5. ASSUME NEW c \in Sectors, Moved(c)
      PROVE  player'[playerMap'[s]].account = player[playerMap[s]].account
  <2>1. P \in Players /\ player[P] \in Positions /\ playerMap' = playerMap
    BY <1>1, <1>5, TakenJobs DEF Moved, Taken, P, TypeOK
  <2>2. player'[playerMap[s]].account = player[playerMap[s]].account
    BY <1>1, <1>5, <2>1 DEF Moved, TypeOK, Positions
  <2> QED
    BY <2>1, <2>2
<1> QED
  BY <1>1, <1>2, <1>3, <1>4, <1>5, CallbackSteps, UpdateSteps
  DEF Next, Posted, Quiet, vars
-----------------------------------------------------------------------------
(* The theorems, for any number of sessions, players, sectors and jobs.    *)

(* What UpdateThread relies on between two jobs.                           *)
THEOREM ChatInvariant == Spec => []Inductive
  BY InitInductive, InductiveStep, PTL DEF Spec

(* Every variable keeps its type: whoever the maps hold is a player.       *)
THEOREM TypeCorrect == Spec => []TypeOK
<1>1. Inductive => TypeOK
  BY DEF Inductive
<1> QED
  BY ChatInvariant, <1>1, PTL

(* The sector maps of ChattingServer.cpp:438-457 and 233-243 hold exactly  *)
(* the players of _PlayerMap, by the same pointers.                        *)
THEOREM SectorsAlwaysExact == Spec => []SectorsExact
<1>1. Inductive => SectorsExact
  BY DEF Inductive
<1> QED
  BY ChatInvariant, <1>1, PTL

(* No player outlives the handled leave of its session, and the players in *)
(* use are those of the map and those that second logins have made.        *)
THEOREM PlayersAlwaysAccounted == Spec => []PlayersAccounted
<1>1. Inductive => PlayersAccounted
  BY DEF Inductive, Owners, InUseCount, LeaveWaits, PlayersAccounted, InMap
<1> QED
  BY ChatInvariant, <1>1, PTL

(* Who moves and who speaks has logged in: no sequence of refused logins,  *)
(* wrong accounts and leaves lets anybody else through.                    *)
THEOREM OnlyLoggedInAct == Spec => []AnswersNeedLogin
<1>1. Init => AnswersNeedLogin
  BY DEF Init, Silence, AnswersNeedLogin
<1>2. Inductive /\ AnswersNeedLogin /\ [Next]_vars => AnswersNeedLogin'
  BY AnswersStep
<1> QED
  BY ChatInvariant, <1>1, <1>2, PTL DEF Spec

(* The loop of ChattingServer.cpp:592-629 finds every neighbour of the     *)
(* sender, and nobody else.                                                *)
THEOREM AudienceAlwaysExact == Spec => []AudienceExact
<1>1. Init => AudienceExact
  BY DEF Init, Silence, AudienceExact
<1>2. Inductive /\ AudienceExact /\ [Next]_vars => AudienceExact'
  BY AudienceStep
<1> QED
  BY ChatInvariant, <1>1, <1>2, PTL DEF Spec

(* A player keeps the account of its login.                                *)
THEOREM AccountsKept == Spec => AccountKept
<1>1. Inductive /\ [Next]_vars =>
        [\A s \in Sessions :
           s \in InMap /\ s \in InMap' /\ player[playerMap[s]].start
             => player'[playerMap'[s]].account = player[playerMap[s]].account]_vars
  BY AccountStep
<1> QED
  BY ChatInvariant, <1>1, PTL DEF Spec, AccountKept
=============================================================================
