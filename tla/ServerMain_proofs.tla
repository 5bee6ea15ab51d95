-------------------------- MODULE ServerMain_proofs -------------------------
(***************************************************************************)
(* Theorems about the server program, for any number of clients, any limit *)
(* on sessions and any faults of the environment.                          *)
(***************************************************************************)
EXTENDS ServerMain, FiniteSetTheorems, TLAPS

(* Who may use the device where: the server waits for its children, so one *)
(* is left over only when the server is down.                              *)
ChildInv ==
  /\ sessions # {} => pc \in {"system", "down"} /\ ~resetting
  /\ resetting => pc \in {"reset", "down"}
  /\ \A c, d \in sessions : c = d
  /\ pc = "system" => sessions = {mSockfd}

ConnectionInv ==
  pc \in {"greet", "confirm", "mkdir", "configs", "start", "system", "cleanup",
          "sync", "close"} => mSockfd \in Clients

(* From the end of the reset to the next session the device is clean, or   *)
(* as the reset has left it that failed.                                   *)
Fresh == device = "clean" \/ ("reset" \in Faults /\ device = "unknown")

CleanInv ==
  ResetFlag =>
    /\ pc \in {"accept", "greet", "confirm", "mkdir", "configs", "start"} => Fresh
    /\ pc = "reset" /\ ~resetting => Fresh

(* A session has a number of its own, below the limit when it starts.      *)
NumberInv ==
  /\ started <= mSessionId
  /\ pc \in {"configs", "start"} => started < mSessionId
  /\ max_num_sessions # 0 =>
       /\ started <= max_num_sessions
       /\ pc \in {"reset", "accept", "greet", "confirm"} => mSessionId < max_num_sessions
       /\ pc \in {"mkdir", "configs", "start"} => started < max_num_sessions

MainInv == MainTypeOK /\ ChildInv /\ ConnectionInv /\ CleanInv /\ NumberInv

USE ClientsAssumption, NumbersAssumption, FlagAssumption DEF Fresh

LEMMA InitiallyMainInv == MainInit => MainInv
<1> SUFFICES ASSUME MainInit PROVE MainInv
  OBVIOUS
<1> USE DEF MainInit
<1>1. config \in BOOLEAN /\ resetting \in BOOLEAN
  BY Zenon
<1>2. MainTypeOK  BY <1>1 DEF MainTypeOK, ServerPCs, ClientPCs
<1>3. ChildInv /\ ConnectionInv /\ CleanInv /\ NumberInv
  BY DEF ChildInv, ConnectionInv, CleanInv, NumberInv
<1>4. QED  BY <1>2, <1>3 DEF MainInv

(* Leaving run() or being killed keeps the invariant, from everywhere.     *)
LEMMA ExitKeeps == ASSUME MainInv, NEW from, Exit(from) PROVE MainInv'
  BY DEF MainInv, MainTypeOK, ServerPCs, ClientPCs, ChildInv, ConnectionInv, CleanInv,
         NumberInv, Exit, Server, DropBacklog, clientVars, childVars, historyVars

LEMMA ServerKeeps == ASSUME MainInv, ServerStep PROVE MainInv'
<1> USE DEF MainInv, MainTypeOK, ServerPCs, ClientPCs, ChildInv, ConnectionInv, CleanInv,
            NumberInv, Server, clientVars, childVars, historyVars, netVars
<1>1. CASE ForkReset  BY <1>1 DEF ForkReset, MoreSessions
<1>2. CASE WaitPid  BY <1>2 DEF WaitPid
<1>3. CASE Accept  BY <1>3 DEF Accept
<1>4. CASE Greet  BY <1>4 DEF Greet
<1>5. CASE Confirmed  BY <1>5 DEF Confirmed
<1>6. CASE HandshakeFails  BY <1>6 DEF HandshakeFails
<1>7. CASE MakeDirectory  BY <1>7 DEF MakeDirectory
<1>8. CASE MakeDirectoryFails  BY <1>8 DEF MakeDirectoryFails
<1>9. CASE GetXrtConfigs
  <2>1. config' \in BOOLEAN  BY <1>9, Zenon DEF GetXrtConfigs
  <2>2. QED  BY <1>9, <2>1 DEF GetXrtConfigs
<1>10. CASE StartSession  BY <1>10 DEF StartSession
<1>11. CASE Cleanup  BY <1>11 DEF Cleanup, AfterSession
<1>12. CASE SyncWorkDir  BY <1>12 DEF SyncWorkDir
<1>13. CASE CloseConnection  BY <1>13 DEF CloseConnection
<1>14. CASE Restart  BY <1>14 DEF Restart, ScriptWaits, Children
<1>15. CASE LoopEnds \/ NoDirectory \/ XrtConfigsFail \/ CleanupFails \/ SyncFails
  BY <1>15, ExitKeeps DEF LoopEnds, NoDirectory, XrtConfigsFail, CleanupFails, SyncFails
<1>16. QED
  BY <1>1, <1>2, <1>3, <1>4, <1>5, <1>6, <1>7, <1>8, <1>9, <1>10, <1>11, <1>12, <1>13,
     <1>14, <1>15 DEF ServerStep

LEMMA ResetKeeps == ASSUME MainInv, ResetDone \/ ResetFails PROVE MainInv'
<1>1. PICK outcome \in {"clean", "unknown"} :
        ResetEnds(outcome) /\ (outcome = "unknown" => "reset" \in Faults)
  BY DEF ResetDone, ResetFails
<1> USE <1>1 DEF MainInv, ResetEnds, clientVars, loopVars
<1>2. resetting' \in BOOLEAN
  BY Zenon
<1>3. MainTypeOK'
  BY <1>2 DEF MainTypeOK, ServerPCs, ClientPCs, DropBacklog
<1>4. CleanInv'
  BY DEF MainTypeOK, ChildInv, CleanInv
<1>5. (ChildInv /\ ConnectionInv /\ NumberInv)'
  BY DEF MainTypeOK, ChildInv, ConnectionInv, NumberInv
<1>6. QED  BY <1>3, <1>4, <1>5

LEMMA SessionKeeps ==
  ASSUME MainInv, NEW c \in Clients, SessionStep(c) \/ WatchdogFires(c) PROVE MainInv'
<1> USE DEF MainInv, MainTypeOK, ServerPCs, ClientPCs, ChildInv, ConnectionInv, CleanInv,
            NumberInv, clientVars, childVars, historyVars, loopVars
<1>1. CASE Serve(c)  BY <1>1 DEF Serve, Reads
<1>2. ASSUME NEW code \in {0, 1}, c \in sessions, SessionExits(c, code), DropBacklog,
             toServer' \in [Clients -> Seq({"true", "xrt.ini", "empty", "request", "destroy"})]
      PROVE  MainInv'
  <2>1. (pc = "system" /\ mSockfd = c) \/ pc = "down"
    BY <1>2
  <2>2. MainTypeOK'
    BY <1>2 DEF SessionExits, DropBacklog
  <2>3. ChildInv'
    BY <1>2, <2>1 DEF SessionExits
  <2>4. ConnectionInv'
    BY <1>2, <2>1 DEF SessionExits
  <2>5. CleanInv' /\ NumberInv'
    BY <1>2, <2>1 DEF SessionExits
  <2>6. QED  BY <2>2, <2>3, <2>4, <2>5
<1>3. CASE RequestFails(c)
  <2>1. toServer' \in [Clients -> Seq({"true", "xrt.ini", "empty", "request", "destroy"})]
    BY <1>3 DEF RequestFails, Reads
  <2>2. QED  BY <1>2, <1>3, <2>1, Zenon DEF RequestFails, Reads
<1>4. CASE SessionDestroyed(c)
  <2>1. toServer' \in [Clients -> Seq({"true", "xrt.ini", "empty", "request", "destroy"})]
    BY <1>4 DEF SessionDestroyed, Reads
  <2>2. QED  BY <1>2, <1>4, <2>1, Zenon DEF SessionDestroyed, Reads
<1>5. CASE SessionLosesClient(c)  BY <1>2, <1>5 DEF SessionLosesClient
<1>6. CASE WatchdogFires(c)  BY <1>2, <1>6 DEF WatchdogFires
<1>7. QED  BY <1>1, <1>3, <1>4, <1>5, <1>6 DEF SessionStep

LEMMA ClientKeeps ==
  ASSUME MainInv, NEW c \in Clients,
         \/ ClientStep(c) \/ Connect(c) \/ ConnectFails(c) \/ TimesOut(c) \/ ClientDies(c)
  PROVE  MainInv'
<1> USE DEF MainInv, MainTypeOK, ServerPCs, ClientPCs, ChildInv, ConnectionInv, CleanInv,
            NumberInv, ClientAt, givenVars, childVars, historyVars, loopVars
<1>1. CASE ReceiveAvailable(c)  BY <1>1 DEF ReceiveAvailable, Receives
<1>2. CASE Confirm(c)  BY <1>2 DEF Confirm, Sends
<1>3. CASE SendXrtConfigs(c)  BY <1>3 DEF SendXrtConfigs, Sends
<1>4. CASE Request(c)  BY <1>4 DEF Request, Sends
<1>5. CASE ReceiveReply(c)  BY <1>5 DEF ReceiveReply, Receives
<1>6. CASE Destroy(c)  BY <1>6 DEF Destroy, Sends
<1>7. CASE GetLogFiles(c)  BY <1>7 DEF GetLogFiles, Receives
<1>8. CASE ConnectionClosed(c)  BY <1>8 DEF ConnectionClosed, netVars
<1>9. CASE Connect(c)  BY <1>9 DEF Connect
<1>10. CASE ConnectFails(c)  BY <1>10 DEF ConnectFails, netVars
<1>11. CASE TimesOut(c)  BY <1>11 DEF TimesOut, netVars
<1>12. CASE ClientDies(c)  BY <1>12 DEF ClientDies, netVars
<1>13. QED
  BY <1>1, <1>2, <1>3, <1>4, <1>5, <1>6, <1>7, <1>8, <1>9, <1>10, <1>11, <1>12
     DEF ClientStep

(* The invariant is inductive: every property below is read off it.        *)
THEOREM MainInvariance == MainSpec => []MainInv
<1>1. MainInv /\ [MainNext]_mainVars => MainInv'
  <2> SUFFICES ASSUME MainInv, [MainNext]_mainVars PROVE MainInv'
    OBVIOUS
  <2>1. CASE Killed  BY <2>1, ExitKeeps DEF Killed
  <2>2. CASE UNCHANGED mainVars
    BY <2>2 DEF mainVars, loopVars, childVars, netVars, clientVars, historyVars, MainInv,
                MainTypeOK, ChildInv, ConnectionInv, CleanInv, NumberInv
  <2>3. QED  BY <2>1, <2>2, ServerKeeps, ResetKeeps, SessionKeeps, ClientKeeps DEF MainNext
<1>2. QED  BY <1>1, InitiallyMainInv, PTL DEF MainSpec

(* Every variable of server and clients keeps its type; in particular the  *)
(* retries for a directory never exceed their limit.                       *)
THEOREM MainTypes == MainSpec => []MainTypeOK
<1>1. MainInv => MainTypeOK  BY DEF MainInv
<1>2. QED  BY <1>1, MainInvariance, PTL

(* The device has one user, whatever is killed and restarted: the children *)
(* of one server process have gone before the next one starts.             *)
THEOREM DeviceHasOneUser == MainSpec => []OneUser
<1>1. MainInv => OneUser
  <2> SUFFICES ASSUME MainInv PROVE OneUser
    OBVIOUS
  <2>1. sessions = {} \/ \E c \in sessions : sessions = {c}
    BY DEF MainInv, ChildInv
  <2>2. Cardinality(sessions) = 0 \/ Cardinality(sessions) = 1
    BY <2>1, FS_EmptySet, FS_Singleton, Zenon
  <2>3. QED  BY <2>2 DEF OneUser, MainInv, ChildInv
<1>2. QED  BY <1>1, MainInvariance, PTL

(* No server process runs more sessions than it was told to.               *)
THEOREM SessionLimit == MainSpec => []SessionsBounded
<1>1. MainInv => SessionsBounded  BY DEF MainInv, NumberInv, SessionsBounded
<1>2. QED  BY <1>1, MainInvariance, PTL

(* With the reset flag, between each session and the one before it a reset *)
(* was tried and has ended, and the device is clean if it did its work:    *)
(* none is left out and none is still under way, whatever was killed.      *)
THEOREM SessionsStartFresh == MainSpec => FreshStart
<1>1. MainInv /\ [MainNext]_mainVars
        => ((ResetFlag /\ sessions' \ sessions # {}) => Fresh)
  <2> SUFFICES ASSUME MainInv, [MainNext]_mainVars, ResetFlag, sessions' \ sessions # {}
               PROVE  Fresh
    OBVIOUS
  <2>1. CASE StartSession  BY <2>1 DEF StartSession, Server, MainInv, CleanInv
  <2>2. CASE ~StartSession
    <3>1. sessions' \subseteq sessions
      BY <2>2 DEF MainNext, ServerStep, ForkReset, LoopEnds, WaitPid, Accept, Greet,
         Confirmed, HandshakeFails, MakeDirectory, MakeDirectoryFails, NoDirectory,
         GetXrtConfigs, XrtConfigsFail, Cleanup, CleanupFails, SyncWorkDir, SyncFails,
         CloseConnection, Restart, ResetDone, ResetFails, ResetEnds, Killed, Exit, SessionStep, Serve,
         RequestFails, SessionDestroyed, SessionLosesClient, WatchdogFires, SessionExits,
         ClientStep, ReceiveAvailable, Confirm, SendXrtConfigs, Request, ReceiveReply,
         Destroy, GetLogFiles, ConnectionClosed, Connect, ConnectFails, TimesOut,
         ClientDies, ClientAt, childVars, mainVars
    <3>2. QED  BY <3>1
  <2>3. QED  BY <2>1, <2>2
<1>2. QED  BY <1>1, MainInvariance, PTL DEF MainSpec, FreshStart

-----------------------------------------------------------------------------
(* The messages of each client in turn.  How far the server is with its    *)
(* connection says what has been read of what the client has sent, and     *)
(* what can be on the way to the client.                                   *)

Serving == {"greet", "confirm", "mkdir", "configs", "start", "system", "cleanup",
            "sync", "close"}

(* Every connection is in one place.                                       *)
PlaceInv ==
  /\ pc \notin Serving => mSockfd = NoClient
  /\ \A i, j \in DOMAIN backlog : backlog[i] = backlog[j] => i = j
  /\ \A c \in Clients : Queued(c) => mSockfd # c /\ c \notin sessions
  /\ \A c \in Clients : client[c] = "new" =>
       ~ServerHas(c) /\ toServer[c] = <<>> /\ toClient[c] = <<>>
  /\ pc = "sync" => config

Live(c) == client[c] \notin {"new", "done", "failed"}

Cfg(c) == IF xrt_config[c] THEN "xrt.ini" ELSE "empty"
Owed(c) == IF client[c] = "waiting" THEN "request" ELSE "destroy"

(* What a live client has sent, and what is left of it once the server has *)
(* read the confirmation and once it has read the configuration.           *)
Said(c) ==
  CASE client[c] \in {"greeting", "confirming"} -> <<>>
    [] client[c] = "configuring" -> <<"true">>
    [] client[c] = "working" -> <<"true", Cfg(c)>>
    [] OTHER -> <<"true", Cfg(c), Owed(c)>>

SaidAfterTrue(c) ==
  CASE client[c] = "configuring" -> <<>>
    [] client[c] = "working" -> <<Cfg(c)>>
    [] OTHER -> <<Cfg(c), Owed(c)>>

SaidAfterConfig(c) == IF client[c] = "working" THEN <<>> ELSE <<Owed(c)>>

(* The handshake and the session, as far as the server has come.           *)
StageInv(c) ==
  /\ Queued(c) \/ (mSockfd = c /\ pc = "greet") =>
       client[c] = "greeting" /\ toServer[c] = <<>> /\ toClient[c] = <<>>
  /\ mSockfd = c /\ pc = "confirm" =>
       /\ toServer[c] = Said(c)
       /\ toClient[c] = IF client[c] = "greeting" THEN <<"true">> ELSE <<>>
  /\ mSockfd = c /\ pc \in {"mkdir", "configs"} =>
       /\ client[c] \notin {"greeting", "confirming"}
       /\ toServer[c] = SaidAfterTrue(c)
       /\ toClient[c] = <<>>
  /\ (mSockfd = c /\ pc = "start") \/ c \in sessions =>
       /\ client[c] \in {"working", "waiting", "logs"}
       /\ \/ toServer[c] = SaidAfterConfig(c) /\ toClient[c] = <<>>
          \/ client[c] = "waiting" /\ toServer[c] = <<>> /\ toClient[c] = <<"reply">>
  /\ mSockfd = c /\ pc \in {"cleanup", "sync"} =>
       /\ client[c] \in {"working", "waiting", "logs"}
       /\ toClient[c] # <<>> => client[c] = "waiting" /\ toClient[c] = <<"reply">>
  /\ mSockfd = c /\ pc \in {"start", "system", "cleanup", "sync"} =>
       config = xrt_config[c]

(* Nothing else is ever on its way to the client.                          *)
InboxInv(c) ==
  toClient[c] # <<>> =>
    \/ client[c] = "greeting" /\ toClient[c] = <<"true">>
    \/ client[c] = "waiting" /\ toClient[c] = <<"reply">>
    \/ client[c] = "waiting" /\ toClient[c] = <<"reply", "logs">> /\ xrt_config[c]
    \/ client[c] \in {"working", "waiting", "logs"} /\ toClient[c] = <<"logs">>
         /\ xrt_config[c]

TurnInv == PlaceInv /\ \A c \in Clients : Live(c) => StageInv(c) /\ InboxInv(c)

LEMMA Appends ==
  ASSUME NEW a, NEW b, NEW c
  PROVE  /\ Append(<<>>, a) = <<a>>
         /\ Append(<<a>>, b) = <<a, b>>
         /\ Append(<<a, b>>, c) = <<a, b, c>>
<1>1. Append(<<>>, a) = <<a>>
  OBVIOUS
<1>2. Append(<<a>>, b) = <<a, b>>
  <2>1. \A t \in Seq({a, b, c}) : Len(t) = 2 /\ t[1] = a /\ t[2] = b => t = <<a, b>>
    OBVIOUS
  <2>2. <<a>> \in Seq({a, b, c})
    OBVIOUS
  <2>3. /\ Append(<<a>>, b) \in Seq({a, b, c}) /\ Len(Append(<<a>>, b)) = 2
        /\ Append(<<a>>, b)[1] = a /\ Append(<<a>>, b)[2] = b
    BY <2>2
  <2> QED BY <2>1, <2>3
<1>3. Append(<<a, b>>, c) = <<a, b, c>>
  <2>1. \A t \in Seq({a, b, c}) : Len(t) = 3 /\ t[1] = a /\ t[2] = b /\ t[3] = c => t = <<a, b, c>>
    OBVIOUS
  <2>2. <<a, b>> \in Seq({a, b, c})
    OBVIOUS
  <2>3. /\ Append(<<a, b>>, c) \in Seq({a, b, c}) /\ Len(Append(<<a, b>>, c)) = 3
        /\ Append(<<a, b>>, c)[1] = a /\ Append(<<a, b>>, c)[2] = b
        /\ Append(<<a, b>>, c)[3] = c
    BY <2>2
  <2> QED BY <2>1, <2>3
<1> QED BY <1>1, <1>2, <1>3

LEMMA Tuples ==
  ASSUME NEW a, NEW b, NEW c
  PROVE  /\ Head(<<a>>) = a /\ Head(<<a, b>>) = a /\ Head(<<a, b, c>>) = a
         /\ Tail(<<a>>) = <<>> /\ Tail(<<a, b>>) = <<b>> /\ Tail(<<a, b, c>>) = <<b, c>>
         /\ <<a>> # <<>> /\ <<a, b>> # <<>> /\ <<a, b, c>> # <<>>
<1>1. Head(<<a>>) = a /\ Head(<<a, b>>) = a /\ Head(<<a, b, c>>) = a
  OBVIOUS
<1>2. Tail(<<a>>) = <<>>
  OBVIOUS
<1>3. Tail(<<a, b>>) = <<b>>
  OBVIOUS
<1>4. Tail(<<a, b, c>>) = <<b, c>>
  OBVIOUS
<1>5. <<a>> # <<>> /\ <<a, b>> # <<>> /\ <<a, b, c>> # <<>>
  OBVIOUS
<1> QED BY <1>1, <1>2, <1>3, <1>4, <1>5

LEMMA QueueFacts ==
  ASSUME MainTypeOK, PlaceInv
  PROVE  /\ \A c \in Clients : \A q : q = Append(backlog, c) =>
              /\ \A d : (\E i \in DOMAIN q : q[i] = d) => d = c \/ Queued(d)
              /\ ~Queued(c) => \A i, j \in DOMAIN q : q[i] = q[j] => i = j
         /\ backlog # <<>> =>
              /\ Head(backlog) \in Clients /\ Queued(Head(backlog))
              /\ \A q : q = Tail(backlog) =>
                   /\ \A d : (\E i \in DOMAIN q : q[i] = d) => d # Head(backlog) /\ Queued(d)
                   /\ \A i, j \in DOMAIN q : q[i] = q[j] => i = j
<1> USE DEF Queued
<1>1. /\ backlog \in Seq(Clients) /\ Len(backlog) \in Nat /\ DOMAIN backlog = 1 .. Len(backlog)
      /\ \A i, j \in DOMAIN backlog : backlog[i] = backlog[j] => i = j
  BY DEF MainTypeOK, PlaceInv
<1>2. ASSUME NEW c \in Clients, NEW q, q = Append(backlog, c)
      PROVE  /\ \A d : (\E i \in DOMAIN q : q[i] = d) => d = c \/ Queued(d)
             /\ ~Queued(c) => \A i, j \in DOMAIN q : q[i] = q[j] => i = j
  <2>1. /\ DOMAIN q = 1 .. Len(backlog) + 1 /\ q[Len(backlog) + 1] = c
        /\ \A i \in DOMAIN q : i \in DOMAIN backlog \/ i = Len(backlog) + 1
        /\ \A i \in DOMAIN backlog : q[i] = backlog[i]
    BY <1>1, <1>2
  <2> QED BY <1>1, <2>1
<1>3. ASSUME backlog # <<>>, NEW q, q = Tail(backlog)
      PROVE  /\ Head(backlog) \in Clients /\ Queued(Head(backlog))
             /\ \A d : (\E i \in DOMAIN q : q[i] = d) => d # Head(backlog) /\ Queued(d)
             /\ \A i, j \in DOMAIN q : q[i] = q[j] => i = j
  <2>1. /\ Head(backlog) = backlog[1] /\ 1 \in DOMAIN backlog
        /\ DOMAIN q = 1 .. Len(backlog) - 1
        /\ \A i \in DOMAIN q : i + 1 \in DOMAIN backlog /\ q[i] = backlog[i + 1]
    BY <1>1, <1>3
  <2>2. \A i \in DOMAIN q : i \in Nat \ {0}
    BY <1>1, <2>1
  <2>3. \A i \in DOMAIN q : q[i] # Head(backlog)
    <3>1. \A i \in DOMAIN q : i + 1 # 1
      BY <2>2
    <3> QED BY <1>1, <2>1, <3>1
  <2>4. \A i, j \in DOMAIN q : q[i] = q[j] => i = j
    <3> SUFFICES ASSUME NEW i \in DOMAIN q, NEW j \in DOMAIN q, q[i] = q[j] PROVE i = j
      OBVIOUS
    <3>1. i + 1 = j + 1
      BY <1>1, <2>1
    <3> QED BY <2>2, <3>1
  <2>5. Head(backlog) \in Clients
    BY <1>1, <2>1
  <2> QED BY <1>1, <2>1, <2>3, <2>4, <2>5
<1> QED BY <1>2, <1>3

LEMMA BacklogShrinks ==
  ASSUME DropBacklog \/ UNCHANGED backlog
  PROVE  backlog' = <<>> \/ backlog' = backlog
BY DEF DropBacklog

(* A client whose connection nobody touches, or whom the server leaves.    *)
LEMMA Bystander ==
  ASSUME NEW d, Live(d)', StageInv(d), InboxInv(d),
         client'[d] = client[d], xrt_config'[d] = xrt_config[d],
         toServer'[d] = toServer[d], toClient'[d] = toClient[d],
         Queued(d)' => Queued(d), d \in sessions' => d \in sessions,
         mSockfd' = d => mSockfd = d /\ pc' = pc /\ config' = config
  PROVE  StageInv(d)' /\ InboxInv(d)'
BY DEF StageInv, InboxInv, Said, SaidAfterTrue, SaidAfterConfig, Cfg, Owed

LEMMA TurnInit == MainInit => TurnInv
<1>1. MainInit => \A c : ~Queued(c)
  BY DEF MainInit, Queued
<1> QED BY <1>1 DEF MainInit, TurnInv, PlaceInv, Live, Serving, ServerHas

(* A step concerns one connection at most.                                 *)
LEMMA OneConnection ==
  ASSUME TurnInv, PlaceInv', NEW c, Live(c)' => StageInv(c)' /\ InboxInv(c)',
         \A d \in Clients : d # c =>
           /\ client'[d] = client[d] /\ xrt_config'[d] = xrt_config[d]
           /\ toServer'[d] = toServer[d] /\ toClient'[d] = toClient[d]
           /\ Queued(d)' => Queued(d)
           /\ d \in sessions' => d \in sessions
           /\ mSockfd' = d => mSockfd = d /\ pc' = pc /\ config' = config
  PROVE  TurnInv'
<1>1. ASSUME NEW d \in Clients, Live(d)', d # c
      PROVE  StageInv(d)' /\ InboxInv(d)'
  BY <1>1, Bystander DEF TurnInv, Live
<1> QED BY <1>1 DEF TurnInv

(* The server moves on with the client it serves.                          *)
LEMMA TurnMoves ==
  ASSUME MainInv, TurnInv, UNCHANGED <<client, xrt_config>>,
         mSockfd \in Clients, UNCHANGED <<mSockfd, backlog>>, pc \in Serving,
         pc' \in Serving, pc' = "sync" => config', sessions' \subseteq sessions \cup {mSockfd},
         \A d \in Clients : d # mSockfd =>
           toServer'[d] = toServer[d] /\ toClient'[d] = toClient[d],
         Live(mSockfd) => StageInv(mSockfd)' /\ InboxInv(mSockfd)'
  PROVE  TurnInv'
<1>1. \A d : Queued(d)' <=> Queued(d)
  BY DEF Queued
<1>2. PlaceInv'
  BY <1>1 DEF TurnInv, PlaceInv, ServerHas
<1>3. PICK c \in Clients : c = mSockfd
  OBVIOUS
<1> QED BY <1>1, <1>2, <1>3, OneConnection DEF Live

(* Nobody is served, before or after.                                      *)
LEMMA TurnIdle ==
  ASSUME MainInv, TurnInv, UNCHANGED <<client, xrt_config, toServer, toClient>>,
         backlog' = backlog \/ backlog' = <<>>, sessions' \subseteq sessions,
         mSockfd' = NoClient, pc' \notin Serving
  PROVE  TurnInv'
<1>1. \A d : Queued(d)' => Queued(d)
  BY DEF Queued
<1>2. mSockfd' \notin Clients
  BY ClientsAssumption
<1>3. PlaceInv'
  BY <1>1, <1>2 DEF TurnInv, PlaceInv, ServerHas, Serving
<1>4. ASSUME NEW d \in Clients, Live(d)'
      PROVE  StageInv(d)' /\ InboxInv(d)'
  BY <1>1, <1>2, <1>4, Bystander DEF TurnInv, Live
<1> QED BY <1>3, <1>4 DEF TurnInv

LEMMA TurnExit ==
  ASSUME MainInv, TurnInv, NEW from, Exit(from)
  PROVE  TurnInv'
<1>1. backlog' = <<>> \/ backlog' = backlog
  BY BacklogShrinks DEF Exit
<1> QED BY <1>1, TurnIdle DEF Exit, Server, clientVars, childVars, Serving

LEMMA TurnServer ==
  ASSUME MainInv, TurnInv, ServerStep
  PROVE  TurnInv'
<1> USE DEF Server, clientVars, childVars, netVars, Serving
<1>0. /\ MainTypeOK /\ PlaceInv /\ ChildInv /\ ConnectionInv
      /\ mSockfd \in Clients /\ Live(mSockfd) => StageInv(mSockfd) /\ InboxInv(mSockfd)
  BY DEF MainInv, TurnInv
<1>1. CASE ForkReset \/ WaitPid \/ Restart
  BY <1>0, <1>1, TurnIdle DEF ForkReset, WaitPid, Restart, PlaceInv
<1>2. CASE HandshakeFails \/ CloseConnection
  BY <1>0, <1>2, TurnIdle DEF HandshakeFails, CloseConnection
<1>3. CASE LoopEnds \/ NoDirectory \/ XrtConfigsFail \/ CleanupFails \/ SyncFails
  BY <1>3, TurnExit DEF LoopEnds, NoDirectory, XrtConfigsFail, CleanupFails, SyncFails
<1>4. CASE Accept
  <2>1. PICK c \in Clients : c = Head(backlog)
    BY <1>0, <1>4, QueueFacts DEF Accept
  <2>2. /\ Queued(c) /\ \A d : Queued(d)' => d # c /\ Queued(d)
        /\ \A i, j \in DOMAIN backlog' : backlog'[i] = backlog'[j] => i = j
    BY <1>0, <1>4, <2>1, QueueFacts DEF Accept, Queued
  <2>3. PlaceInv'
    BY <1>0, <1>4, <2>1, <2>2 DEF Accept, PlaceInv, ServerHas
  <2>4. Live(c) => StageInv(c)' /\ InboxInv(c)'
    BY <1>0, <1>4, <2>1, <2>2 DEF Accept, TurnInv, PlaceInv, StageInv, InboxInv
  <2> QED BY <1>4, <2>1, <2>2, <2>3, <2>4, OneConnection DEF Accept, Live
<1>5. CASE Greet \/ Confirmed \/ MakeDirectory \/ MakeDirectoryFails \/ GetXrtConfigs
           \/ StartSession \/ Cleanup \/ SyncWorkDir
  <2>1. mSockfd \in Clients /\ pc \in Serving
    BY <1>0, <1>5 DEF ConnectionInv, Greet, Confirmed, MakeDirectory, MakeDirectoryFails,
       GetXrtConfigs, StartSession, Cleanup, SyncWorkDir
  <2>2. PICK c \in Clients : c = mSockfd
    BY <2>1
  <2>3. ~Queued(c) /\ mSockfd' = c /\ backlog' = backlog
    BY <1>0, <1>5, <2>2 DEF PlaceInv, Greet, Confirmed, MakeDirectory, MakeDirectoryFails,
       GetXrtConfigs, StartSession, Cleanup, SyncWorkDir
  <2>4. ~Queued(c)'
    BY <2>3 DEF Queued
  <2>5. ASSUME Live(c)
        PROVE  StageInv(c)' /\ InboxInv(c)'
    <3> USE DEF StageInv, InboxInv
    <3>0. StageInv(c) /\ InboxInv(c) /\ (c \in sessions => pc \in {"system", "down"})
      BY <1>0, <2>2, <2>5 DEF ChildInv
    <3>1. /\ Said(c)' = Said(c) /\ SaidAfterTrue(c)' = SaidAfterTrue(c)
          /\ SaidAfterConfig(c)' = SaidAfterConfig(c)
      BY <1>5 DEF Said, SaidAfterTrue, SaidAfterConfig, Cfg, Owed, Greet, Confirmed,
         MakeDirectory, MakeDirectoryFails, GetXrtConfigs, StartSession, Cleanup, SyncWorkDir
    <3>2. CASE Greet
      BY <1>0, <2>2, <2>3, <2>4, <3>0, <3>1, <3>2, Appends DEF Greet, MainTypeOK, Said
    <3>3. CASE Confirmed
      <4>1. toServer[c] = Said(c) /\ toServer[c] # <<>> /\ toServer'[c] = Tail(toServer[c])
        BY <1>0, <2>2, <3>0, <3>3 DEF Confirmed, MainTypeOK
      <4>2. client[c] \notin {"greeting", "confirming"} /\ toClient[c] = <<>>
        BY <2>2, <3>0, <3>3, <4>1 DEF Confirmed, Said
      <4>3. Tail(Said(c)) = SaidAfterTrue(c)
        <5> HIDE DEF Cfg, Owed
        <5> QED BY <4>2, Tuples DEF Said, SaidAfterTrue
      <4> QED BY <1>0, <2>2, <2>3, <2>4, <3>0, <3>1, <3>3, <4>1, <4>2, <4>3 DEF Confirmed
    <3>4. CASE MakeDirectory \/ MakeDirectoryFails
      BY <2>2, <2>3, <2>4, <3>0, <3>1, <3>4 DEF MakeDirectory, MakeDirectoryFails
    <3>5. CASE GetXrtConfigs
      <4>1. Head(toServer[c]) = Cfg(c) /\ Tail(toServer[c]) = SaidAfterConfig(c)
            /\ client[c] \in {"working", "waiting", "logs"}
        <5>1. toServer[c] = SaidAfterTrue(c) /\ toServer[c] # <<>>
              /\ client[c] \notin {"greeting", "confirming"} /\ client[c] \in ClientPCs
          BY <1>0, <2>2, <3>0, <3>5 DEF GetXrtConfigs, MainTypeOK
        <5>2. client[c] \in {"working", "waiting", "logs"}
          BY <2>5, <5>1 DEF SaidAfterTrue, Live, ClientPCs
        <5> QED BY <5>1, <5>2, Tuples DEF SaidAfterTrue, SaidAfterConfig
      <4>2. config' = xrt_config'[c]
        BY <1>0, <2>2, <3>5, <4>1 DEF GetXrtConfigs, Cfg, MainTypeOK
      <4> QED BY <1>0, <2>2, <2>3, <2>4, <3>0, <3>1, <3>5, <4>1, <4>2
              DEF GetXrtConfigs, MainTypeOK
    <3>6. CASE StartSession
      BY <2>2, <2>3, <2>4, <3>0, <3>1, <3>6 DEF StartSession
    <3>7. CASE Cleanup
      BY <2>2, <2>3, <2>4, <3>0, <3>1, <3>7 DEF Cleanup, AfterSession
    <3>8. CASE SyncWorkDir
      <4>1. /\ client[c] \in {"working", "waiting", "logs"} /\ xrt_config[c] /\ pc' = "close"
            /\ toClient[c] # <<>> => client[c] = "waiting" /\ toClient[c] = <<"reply">>
            /\ toClient'[c] = Append(toClient[c], "logs")
            /\ UNCHANGED <<client, xrt_config>> /\ c \notin sessions'
        BY <1>0, <2>2, <3>0, <3>8 DEF SyncWorkDir, MainTypeOK, PlaceInv
      <4>2. toClient'[c] = <<"logs">> \/ (client[c] = "waiting" /\ toClient'[c] = <<"reply", "logs">>)
        <5>1. Append(<<>>, "logs") = <<"logs">> /\ Append(<<"reply">>, "logs") = <<"reply", "logs">>
          BY Appends
        <5> QED BY <4>1, <5>1
      <4>3. InboxInv(c)'
        BY <4>1, <4>2
      <4> QED BY <2>3, <2>4, <4>1, <4>3
    <3> QED BY <1>5, <3>2, <3>3, <3>4, <3>5, <3>6, <3>7, <3>8
  <2>6. pc' \in Serving /\ (pc' = "sync" => config') /\ sessions' \subseteq sessions \cup {mSockfd}
        /\ UNCHANGED <<client, xrt_config, mSockfd, backlog>>
    BY <1>5 DEF Greet, Confirmed, MakeDirectory, MakeDirectoryFails,
       GetXrtConfigs, StartSession, Cleanup, SyncWorkDir, AfterSession
  <2>7. \A d \in Clients : d # mSockfd =>
           toServer'[d] = toServer[d] /\ toClient'[d] = toClient[d]
    BY <1>0, <1>5 DEF MainTypeOK, Greet, Confirmed, MakeDirectory, MakeDirectoryFails,
       GetXrtConfigs, StartSession, Cleanup, SyncWorkDir
  <2>8. StageInv(mSockfd)' <=> StageInv(c)'
    BY <2>2, <2>6 DEF StageInv, Said, SaidAfterTrue, SaidAfterConfig, Cfg, Owed, Queued
  <2>9. InboxInv(mSockfd)' <=> InboxInv(c)'
    BY <2>2, <2>6 DEF InboxInv
  <2> QED BY <2>1, <2>2, <2>5, <2>6, <2>7, <2>8, <2>9, TurnMoves DEF Live
<1> QED BY <1>1, <1>2, <1>3, <1>4, <1>5 DEF ServerStep

(* The session process answers, or is gone.                                *)
LEMMA TurnSession ==
  ASSUME MainInv, TurnInv, NEW c \in Clients, SessionStep(c) \/ WatchdogFires(c)
  PROVE  TurnInv'
<1> USE DEF loopVars, clientVars, childVars
<1>0. /\ MainTypeOK /\ PlaceInv /\ ChildInv /\ c \in sessions
      /\ Live(c) => StageInv(c) /\ InboxInv(c)
  BY DEF MainInv, TurnInv, SessionStep, Serve, RequestFails, SessionDestroyed,
     SessionLosesClient, WatchdogFires, Reads
<1>1. (pc = "system" /\ mSockfd = c /\ sessions = {c}) \/ (pc = "down" /\ mSockfd = NoClient)
  BY <1>0 DEF ChildInv, PlaceInv, Serving
<1>2. /\ UNCHANGED <<client, xrt_config, config, mSockfd>>
      /\ backlog' = backlog \/ backlog' = <<>>
      /\ sessions' \subseteq sessions
      /\ \A d \in Clients : d # c => toServer'[d] = toServer[d] /\ toClient'[d] = toClient[d]
      /\ pc' = pc \/ (pc = "system" /\ mSockfd = c /\ pc' = "cleanup")
  BY <1>0, BacklogShrinks DEF SessionStep, Serve, RequestFails, SessionDestroyed,
     SessionLosesClient, WatchdogFires, Reads, SessionExits, MainTypeOK
<1>3. \A d : Queued(d)' => Queued(d)
  BY <1>2 DEF Queued
<1>4. PlaceInv'
  <2>1. \A d \in Clients : client[d] = "new" => d # c
    BY <1>0 DEF PlaceInv, ServerHas
  <2>2. pc' \notin Serving => mSockfd' = NoClient
    BY <1>0, <1>1, <1>2 DEF PlaceInv, Serving
  <2>3. pc' # "sync"
    BY <1>1, <1>2
  <2>4. \A i, j \in DOMAIN backlog' : backlog'[i] = backlog'[j] => i = j
    BY <1>0, <1>2 DEF PlaceInv
  <2> QED BY <1>0, <1>2, <1>3, <2>1, <2>2, <2>3, <2>4 DEF PlaceInv, ServerHas
<1>5. ASSUME Live(c)
      PROVE  StageInv(c)' /\ InboxInv(c)'
  <2> USE DEF StageInv
  <2>1. CASE Serve(c)
    <3>1. /\ toServer[c] # <<>> /\ Head(toServer[c]) = "request"
          /\ toServer'[c] = Tail(toServer[c]) /\ toClient'[c] = Append(toClient[c], "reply")
          /\ UNCHANGED <<pc, sessions>>
      BY <1>0, <2>1 DEF Serve, Reads, MainTypeOK
    <3>2. toServer[c] = SaidAfterConfig(c) /\ toClient[c] = <<>>
      BY <1>0, <1>5, <3>1
    <3>3. client[c] = "waiting"
      BY <3>1, <3>2, Tuples DEF SaidAfterConfig, Owed
    <3>4. toServer'[c] = <<>> /\ toClient'[c] = <<"reply">>
      <4>1. Tail(<<"request">>) = <<>> /\ Append(<<>>, "reply") = <<"reply">>
        BY Appends, Tuples
      <4> QED BY <3>1, <3>2, <3>3, <4>1 DEF SaidAfterConfig, Owed
    <3> QED BY <1>0, <1>1, <1>2, <1>3, <1>5, <3>1, <3>3, <3>4 DEF InboxInv, PlaceInv
  <2>2. CASE ~Serve(c)
    <3>1. c \notin sessions' /\ toClient' = toClient
      BY <2>2 DEF SessionStep, RequestFails, SessionDestroyed, SessionLosesClient,
         WatchdogFires, Reads, SessionExits
    <3>2. client[c] \in {"working", "waiting", "logs"}
          /\ (toClient[c] # <<>> => client[c] = "waiting" /\ toClient[c] = <<"reply">>)
      BY <1>0, <1>5
    <3>3. mSockfd = c => config = xrt_config[c]
      BY <1>0, <1>1, <1>5, ClientsAssumption
    <3> QED BY <1>0, <1>1, <1>2, <1>3, <3>1, <3>2, <3>3, ClientsAssumption
            DEF InboxInv, PlaceInv
  <2> QED BY <2>1, <2>2
<1> QED BY <1>2, <1>3, <1>4, <1>5, OneConnection DEF Live

(* A client reads, sends or leaves.                                        *)
LEMMA TurnClient ==
  ASSUME MainInv, TurnInv, NEW c \in Clients,
         \/ ClientStep(c) \/ Connect(c) \/ ConnectFails(c) \/ TimesOut(c) \/ ClientDies(c)
  PROVE  TurnInv'
<1> USE DEF ClientAt, loopVars, childVars, givenVars, netVars
<1>0. /\ MainTypeOK /\ PlaceInv
      /\ Live(c) => StageInv(c) /\ InboxInv(c)
  BY DEF MainInv, TurnInv
<1>1. /\ UNCHANGED <<xrt_config, config, mSockfd, sessions, pc>>
      /\ \A d \in Clients : d # c => /\ client'[d] = client[d]
                                     /\ toServer'[d] = toServer[d] /\ toClient'[d] = toClient[d]
      /\ client'[c] # "new"
      /\ ~Connect(c) => backlog' = backlog
  BY <1>0 DEF ClientStep, Connect, ConnectFails, TimesOut, ClientDies, ReceiveAvailable,
     Confirm, SendXrtConfigs, Request, ReceiveReply, Destroy, GetLogFiles, ConnectionClosed,
     Sends, Receives, MainTypeOK
<1>2. CASE Connect(c)
  <2>1. /\ client[c] = "new" /\ client'[c] = "greeting" /\ backlog' = Append(backlog, c)
        /\ UNCHANGED <<toServer, toClient>>
    BY <1>0, <1>2 DEF Connect, MainTypeOK
  <2>2. ~ServerHas(c) /\ toServer[c] = <<>> /\ toClient[c] = <<>>
    BY <1>0, <2>1 DEF PlaceInv
  <2>3. /\ \A d : Queued(d)' => d = c \/ Queued(d)
        /\ \A i, j \in DOMAIN backlog' : backlog'[i] = backlog'[j] => i = j
    BY <1>0, <2>1, <2>2, QueueFacts DEF Queued, ServerHas
  <2>4. PlaceInv'
    BY <1>0, <1>1, <2>1, <2>2, <2>3 DEF PlaceInv, ServerHas
  <2>5. StageInv(c)' /\ InboxInv(c)'
    BY <1>1, <2>1, <2>2 DEF StageInv, InboxInv, ServerHas
  <2> QED BY <1>1, <2>3, <2>4, <2>5, OneConnection
<1>3. CASE ~Connect(c)
  <2>1. \A d : Queued(d)' <=> Queued(d)
    BY <1>1, <1>3 DEF Queued
  <2>2. PlaceInv'
    BY <1>0, <1>1, <1>3, <2>1 DEF PlaceInv, ServerHas
  <2>3. ASSUME Live(c)'
        PROVE  StageInv(c)' /\ InboxInv(c)'
    <3>1. ReceiveAvailable(c) \/ Confirm(c) \/ SendXrtConfigs(c) \/ Request(c)
          \/ ReceiveReply(c) \/ Destroy(c) \/ GetLogFiles(c)
      BY <1>0, <1>3, <2>3 DEF ClientStep, ConnectFails, TimesOut, ClientDies,
         ConnectionClosed, Live, MainTypeOK
    <3>2. ~GetLogFiles(c)
      BY <1>0, <2>3 DEF GetLogFiles, Live, MainTypeOK
    <3>3. Live(c) /\ StageInv(c) /\ InboxInv(c)
      <4>1. client[c] \in {"greeting", "confirming", "configuring", "working", "waiting"}
        BY <3>1, <3>2 DEF ReceiveAvailable, Confirm, SendXrtConfigs, Request,
           ReceiveReply, Destroy
      <4> QED BY <1>0, <4>1 DEF Live
    <3>4. Cfg(c)' = Cfg(c)
      BY <1>1 DEF Cfg
    <3> USE DEF StageInv, InboxInv, Said, SaidAfterTrue, SaidAfterConfig
    <3> HIDE DEF Cfg
    <3>5. CASE ReceiveAvailable(c)
      <4>1. /\ client[c] = "greeting" /\ client'[c] = "confirming"
            /\ toClient[c] = <<"true">> /\ toServer' = toServer
            /\ toClient'[c] = Tail(<<"true">>)
        BY <1>0, <3>3, <3>5 DEF ReceiveAvailable, Receives, MainTypeOK
      <4>2. toClient'[c] = <<>>
        BY <4>1, Tuples
      <4> QED BY <1>1, <2>1, <3>3, <4>1, <4>2
    <3>6. CASE Confirm(c)
      <4>1. /\ client[c] = "confirming" /\ client'[c] = "configuring"
            /\ toClient' = toClient /\ toServer'[c] = Append(toServer[c], "true")
        BY <1>0, <3>6 DEF Confirm, Sends, MainTypeOK
      <4>2. Append(<<>>, "true") = <<"true">>
        BY Appends
      <4> QED BY <1>1, <2>1, <3>3, <4>1, <4>2
    <3>7. CASE SendXrtConfigs(c)
      <4>1. /\ client[c] = "configuring" /\ client'[c] = "working"
            /\ toClient' = toClient /\ toServer'[c] = Append(toServer[c], Cfg(c))
        BY <1>0, <3>7 DEF SendXrtConfigs, Sends, MainTypeOK, Cfg
      <4>2. Append(<<>>, Cfg(c)) = <<Cfg(c)>> /\ Append(<<"true">>, Cfg(c)) = <<"true", Cfg(c)>>
        BY Appends
      <4> QED BY <1>1, <2>1, <3>3, <3>4, <4>1, <4>2
    <3>8. CASE Request(c) \/ Destroy(c)
      <4>1. PICK m \in {"request", "destroy"} :
              /\ client[c] = "working"
              /\ client'[c] \in {"waiting", "logs"} /\ m = Owed(c)'
              /\ toClient' = toClient /\ toServer'[c] = Append(toServer[c], m)
        BY <1>0, <2>3, <3>8 DEF Request, Destroy, Sends, MainTypeOK, Live, Owed
      <4>2. /\ Append(<<>>, m) = <<m>> /\ Append(<<Cfg(c)>>, m) = <<Cfg(c), m>>
            /\ Append(<<"true", Cfg(c)>>, m) = <<"true", Cfg(c), m>>
        BY Appends
      <4> QED BY <1>1, <2>1, <3>3, <3>4, <4>1, <4>2
    <3>9. CASE ReceiveReply(c)
      <4>1. /\ client[c] = "waiting" /\ client'[c] = "working"
            /\ toServer' = toServer /\ toClient'[c] = Tail(toClient[c])
            /\ toClient[c] # <<>>
        BY <1>0, <3>9 DEF ReceiveReply, Receives, MainTypeOK
      <4>2. /\ Tail(<<"reply">>) = <<>> /\ Tail(<<"logs">>) = <<>>
            /\ Tail(<<"reply", "logs">>) = <<"logs">>
        BY Tuples
      <4>3. \/ toClient[c] = <<"reply">> /\ toClient'[c] = <<>>
            \/ xrt_config[c] /\ toClient[c] \in {<<"logs">>, <<"reply", "logs">>}
                 /\ toClient'[c] \in {<<>>, <<"logs">>}
        BY <3>3, <4>1, <4>2
      <4>4. <<"logs">> # <<"reply">> /\ <<"reply", "logs">> # <<"reply">>
        OBVIOUS
      <4> QED BY <1>1, <2>1, <3>3, <3>4, <4>1, <4>3, <4>4
    <3> QED BY <3>1, <3>2, <3>5, <3>6, <3>7, <3>8, <3>9
  <2> QED BY <1>1, <2>1, <2>2, <2>3, OneConnection
<1> QED BY <1>2, <1>3

(* A client never takes one kind of message for another: the greeting      *)
(* before the confirmation, replies to its own requests, log files last;   *)
(* whatever the server, the session and the other clients do in between.   *)
THEOREM MessagesTakenInTurn == MainSpec => []MessagesInTurn
<1>1. TurnInv => MessagesInTurn
  <2> SUFFICES ASSUME TurnInv, NEW c \in Clients, toClient[c] # <<>>
               PROVE  /\ client[c] = "greeting" => Head(toClient[c]) = "true"
                      /\ (client[c] = "waiting" /\ ~xrt_config[c]) => Head(toClient[c]) = "reply"
                      /\ client[c] = "logs" => Head(toClient[c]) = "logs"
    BY DEF MessagesInTurn
  <2> QED BY Tuples DEF TurnInv, InboxInv, Live
<1>2. MainInv /\ TurnInv /\ [MainNext]_mainVars => TurnInv'
  <2> SUFFICES ASSUME MainInv, TurnInv, [MainNext]_mainVars PROVE TurnInv'
    OBVIOUS
  <2>1. CASE Killed
    BY <2>1, TurnExit DEF Killed
  <2>2. CASE ResetDone \/ ResetFails
    <3>1. \A d : Queued(d)' => Queued(d)
      BY <2>2, BacklogShrinks DEF ResetDone, ResetFails, ResetEnds, Queued
    <3>2. /\ UNCHANGED <<pc, mSockfd, config, sessions, toServer, toClient, client, xrt_config>>
          /\ backlog' = backlog \/ backlog' = <<>>
      BY <2>2, BacklogShrinks DEF ResetDone, ResetFails, ResetEnds, loopVars, clientVars
    <3>3. PlaceInv'
      BY <3>1, <3>2 DEF TurnInv, PlaceInv, ServerHas
    <3> QED BY <3>1, <3>2, <3>3, Bystander DEF TurnInv, Live
  <2>3. CASE UNCHANGED mainVars
    <3>1. /\ UNCHANGED <<pc, mSockfd, config, sessions, toServer, toClient, client, xrt_config>>
          /\ backlog' = backlog
      BY <2>3 DEF mainVars, loopVars, childVars, netVars, clientVars
    <3>2. \A d : Queued(d)' <=> Queued(d)
      BY <3>1 DEF Queued
    <3>3. PlaceInv'
      BY <3>1, <3>2 DEF TurnInv, PlaceInv, ServerHas
    <3> QED BY <3>1, <3>2, <3>3, Bystander DEF TurnInv, Live
  <2> QED BY <2>1, <2>2, <2>3, TurnServer, TurnSession, TurnClient DEF MainNext
<1> QED BY <1>1, <1>2, TurnInit, MainInvariance, PTL DEF MainSpec
=============================================================================
