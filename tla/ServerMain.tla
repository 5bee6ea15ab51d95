----------------------------- MODULE ServerMain ----------------------------
(***************************************************************************)
(* The server program: the loop of src/ps/test_harness_main.cpp under the  *)
(* restarting script run_server.sh, the children it forks, and the clients *)
(* that connect to it (constructor and destructor of the client manager).  *)
(* A session process is seen from outside: it reads requests, answers, and *)
(* exits.  What happens inside is the subject of the other modules.        *)
(***************************************************************************)
EXTENDS Naturals, Sequences, FiniteSets

CONSTANTS
  Clients, NoClient,
  SessionLimits,        (* what may be given as max_num_sessions           *)
  ResetFlag,            (* mResetFlag                                      *)
  MkdirRetries,         (* failures tolerated for one directory; 5         *)
  Backlog,              (* connections the kernel queues; listen(.., 3)    *)
  TimedClients,         (* those with a timeout for the first answer       *)
  MaxRequests,          (* bound: requests a client makes                  *)
  Faults                (* of the environment: "killed", "filesystem" and  *)
                        (* "reset"                                         *)

ASSUME ClientsAssumption == NoClient \notin Clients /\ TimedClients \subseteq Clients
ASSUME NumbersAssumption ==
  /\ SessionLimits \subseteq Nat /\ MkdirRetries \in Nat /\ MaxRequests \in Nat
  /\ Backlog \in Nat \ {0}
ASSUME FlagAssumption == ResetFlag \in BOOLEAN

VARIABLES
  max_num_sessions,     (* 0 is no limit                                   *)
  pc,                   (* where the server process is                     *)
  mSessionId, count,    (* the next directory, failures to create it       *)
  mSockfd,              (* the client whose connection is open, if any     *)
  config,               (* whether it sent an xrt.ini                      *)
  ret,                  (* the exit code of its session                    *)
  resetting,            (* whether the forked child that resets is alive   *)
  sessions,             (* clients whose session process is alive          *)
  backlog,              (* connected clients, not yet accepted             *)
  toServer, toClient,   (* the messages in flight, per connection          *)
  client,               (* where each client is                            *)
  xrt_config,           (* whether it has an xrt.ini                       *)
  sent,                 (* requests it has made                            *)
  device,               (* history: what the next session would find       *)
  started               (* history: sessions run by this server process    *)

loopVars == <<pc, mSessionId, count, mSockfd, config, ret>>
childVars == <<resetting, sessions>>
netVars == <<backlog, toServer, toClient>>
clientVars == <<client, xrt_config, sent>>
givenVars == <<max_num_sessions, xrt_config>>
historyVars == <<device, started>>
mainVars == <<max_num_sessions, loopVars, childVars, netVars, clientVars, historyVars>>

ServerPCs == {"loop", "reset", "accept", "greet", "confirm", "mkdir", "configs",
              "start", "system", "cleanup", "sync", "close", "down"}
ClientPCs == {"new", "greeting", "confirming", "configuring", "working",
              "waiting", "logs", "done", "failed"}

MainTypeOK ==
  /\ max_num_sessions \in SessionLimits
  /\ pc \in ServerPCs
  /\ mSessionId \in Nat
  /\ count \in 0 .. MkdirRetries
  /\ mSockfd \in Clients \cup {NoClient}
  /\ config \in BOOLEAN
  /\ ret \in {0, 1}
  /\ resetting \in BOOLEAN
  /\ sessions \subseteq Clients
  /\ backlog \in Seq(Clients)
  /\ toServer \in [Clients -> Seq({"true", "xrt.ini", "empty", "request", "destroy"})]
  /\ toClient \in [Clients -> Seq({"true", "reply", "logs"})]
  /\ client \in [Clients -> ClientPCs]
  /\ xrt_config \in [Clients -> BOOLEAN]
  /\ sent \in [Clients -> 0 .. MaxRequests]
  /\ device \in {"used", "clean", "unknown"}
  /\ started \in Nat

MainInit ==
  /\ max_num_sessions \in SessionLimits
  /\ pc = "loop"
  /\ mSessionId = 0
  /\ count = 0
  /\ mSockfd = NoClient
  /\ config = FALSE
  /\ ret = 0
  /\ resetting = FALSE
  /\ sessions = {}
  /\ backlog = <<>>
  /\ toServer = [c \in Clients |-> <<>>]
  /\ toClient = [c \in Clients |-> <<>>]
  /\ client = [c \in Clients |-> "new"]
  /\ xrt_config \in [Clients -> BOOLEAN]
  /\ sent = [c \in Clients |-> 0]
  /\ device = "used"
  /\ started = 0

(* No descriptor is close-on-exec: the children hold the listening socket, *)
(* and a session also the connection it serves.                            *)
Children == resetting \/ sessions # {}
Listening == pc # "down" \/ Children
Queued(c) == \E i \in DOMAIN backlog : backlog[i] = c
ServerHas(c) == mSockfd = c \/ c \in sessions \/ Queued(c)
Gone(c) == client[c] \in {"done", "failed"}

(* When the last process that listens has gone, so have those who queued.  *)
DropBacklog ==
  backlog' = IF pc' = "down" /\ ~resetting' /\ sessions' = {} THEN <<>> ELSE backlog
-----------------------------------------------------------------------------
(* The server process.                                                     *)

Server(from, to) ==
  /\ pc = from
  /\ pc' = to
  /\ UNCHANGED <<max_num_sessions, clientVars>>

(* An exception that leaves run(), or a signal: the process is over.       *)
Exit(from) ==
  /\ Server(from, "down")
  /\ mSockfd' = NoClient
  /\ UNCHANGED <<mSessionId, count, config, ret, childVars, toServer, toClient,
                 historyVars>>
  /\ DropBacklog

(* Variant: one session more than the limit.                               *)
MoreSessions_OffByOne == max_num_sessions = 0 \/ mSessionId <= max_num_sessions

MoreSessions == max_num_sessions = 0 \/ mSessionId < max_num_sessions

ForkReset ==
  /\ MoreSessions
  /\ Server("loop", "reset")
  /\ resetting' = TRUE
  /\ UNCHANGED <<mSessionId, count, mSockfd, config, ret, sessions, netVars, historyVars>>

LoopEnds == ~MoreSessions /\ Exit("loop")

(* The child runs xrt-smi if asked to reset, and exits: `outcome' is what  *)
(* xrt-smi makes of the device.                                            *)
ResetEnds(outcome) ==
  /\ resetting
  /\ resetting' = FALSE
  /\ device' = IF ResetFlag THEN outcome ELSE device
  /\ UNCHANGED <<max_num_sessions, loopVars, sessions, toServer, toClient, clientVars,
                 started>>
  /\ DropBacklog

ResetDone == ResetEnds("clean")

(* xrt-smi fails, cannot be started, or it or the child is killed.  The    *)
(* child ignores the result of system() and the parent asks waitpid for no *)
(* status: the loop goes on as after a reset.                              *)
ResetFails == "reset" \in Faults /\ ResetEnds("unknown")

(* Variant: the parent does not wait for the child.                        *)
WaitPid_Skipped ==
  /\ Server("reset", "accept")
  /\ UNCHANGED <<mSessionId, count, mSockfd, config, ret, childVars, netVars, historyVars>>

WaitPid ==
  /\ ~resetting
  /\ Server("reset", "accept")
  /\ UNCHANGED <<mSessionId, count, mSockfd, config, ret, childVars, netVars, historyVars>>

Accept ==
  /\ Server("accept", "greet")
  /\ backlog # <<>>
  /\ mSockfd' = Head(backlog)
  /\ backlog' = Tail(backlog)
  /\ UNCHANGED <<mSessionId, count, config, ret, childVars, toServer, toClient, historyVars>>

(* sendData(true): to a client that has left, it is lost.                  *)
Greet ==
  /\ Server("greet", "confirm")
  /\ toClient' = [toClient EXCEPT ![mSockfd] = Append(@, "true")]
  /\ UNCHANGED <<mSessionId, count, mSockfd, config, ret, childVars, backlog, toServer,
                 historyVars>>

(* recvData(resp).                                                         *)
Confirmed ==
  /\ Server("confirm", "mkdir")
  /\ toServer[mSockfd] # <<>>
  /\ toServer' = [toServer EXCEPT ![mSockfd] = Tail(@)]
  /\ count' = 0
  /\ UNCHANGED <<mSessionId, mSockfd, config, ret, childVars, backlog, toClient, historyVars>>

(* Variant: the handshake's exception is swallowed and retried.            *)
HandshakeFails_Retried ==
  /\ Server("confirm", "confirm")
  /\ toServer[mSockfd] = <<>> /\ Gone(mSockfd)
  /\ UNCHANGED <<loopVars, childVars, netVars, historyVars>>

(* The exception is caught: closeConnection(); continue.                   *)
HandshakeFails ==
  /\ Server("confirm", "loop")
  /\ toServer[mSockfd] = <<>> /\ Gone(mSockfd)
  /\ mSockfd' = NoClient
  /\ UNCHANGED <<mSessionId, count, config, ret, childVars, netVars, historyVars>>

(* createSessionPath(): every attempt takes a number.                      *)
MakeDirectory ==
  /\ Server("mkdir", "configs")
  /\ mSessionId' = mSessionId + 1
  /\ UNCHANGED <<count, mSockfd, config, ret, childVars, netVars, historyVars>>

MakeDirectoryFails ==
  /\ "filesystem" \in Faults
  /\ count < MkdirRetries
  /\ Server("mkdir", "mkdir")
  /\ mSessionId' = mSessionId + 1
  /\ count' = count + 1
  /\ UNCHANGED <<mSockfd, config, ret, childVars, netVars, historyVars>>

NoDirectory == "filesystem" \in Faults /\ count = MkdirRetries /\ Exit("mkdir")

(* getXrtConfigs(): an empty list, or an xrt.ini.                          *)
GetXrtConfigs ==
  /\ Server("configs", "start")
  /\ toServer[mSockfd] # <<>>
  /\ config' = (Head(toServer[mSockfd]) = "xrt.ini")
  /\ toServer' = [toServer EXCEPT ![mSockfd] = Tail(@)]
  /\ UNCHANGED <<mSessionId, count, mSockfd, ret, childVars, backlog, toClient, historyVars>>

(* Nothing catches what recvVec throws when the client has left or the     *)
(* file cannot be written.                                                 *)
XrtConfigsFail ==
  /\ pc = "configs"
  /\ \/ toServer[mSockfd] = <<>> /\ Gone(mSockfd)
     \/ "filesystem" \in Faults /\ toServer[mSockfd] # <<>>
        /\ Head(toServer[mSockfd]) = "xrt.ini"
  /\ Exit("configs")

(* system(): the session process has the connection.                       *)
StartSession ==
  /\ Server("start", "system")
  /\ sessions' = sessions \cup {mSockfd}
  /\ device' = "used"
  /\ started' = started + 1
  /\ UNCHANGED <<mSessionId, count, mSockfd, config, ret, resetting, netVars>>

(* Variant: the log files are sent whether or not there was an xrt.ini.    *)
AfterSession_AlwaysSync == IF ret = 0 THEN "sync" ELSE "close"

AfterSession == IF config /\ ret = 0 THEN "sync" ELSE "close"

Cleanup ==
  /\ Server("cleanup", AfterSession)
  /\ UNCHANGED <<mSessionId, count, mSockfd, config, ret, childVars, netVars, historyVars>>

(* remove_all throws, of the configuration or of the directory.            *)
CleanupFails == "filesystem" \in Faults /\ Exit("cleanup")

(* syncWorkDir(); sendVec throws, or SIGPIPE, if the client has left: at   *)
(* the latest when the refusal of the first message has come back.         *)
SyncWorkDir ==
  /\ Server("sync", "close")
  /\ toClient' = [toClient EXCEPT ![mSockfd] = Append(@, "logs")]
  /\ UNCHANGED <<mSessionId, count, mSockfd, config, ret, childVars, backlog, toServer,
                 historyVars>>

SyncFails == Exit("sync") /\ Gone(mSockfd)

CloseConnection ==
  /\ Server("close", "loop")
  /\ mSockfd' = NoClient
  /\ UNCHANGED <<mSessionId, count, config, ret, childVars, netVars, historyVars>>

(* The process is killed at any time; its children live on.  An exception  *)
(* of fork() or accept() has the same effect.                              *)
Killed == "killed" \in Faults /\ pc # "down" /\ Exit(pc)

(* Variant: the script does not wait for the children.                     *)
ScriptWaits_ServerOnly == pc = "down"

(* run_server.sh pipes the output into tee, which ends when the last       *)
(* process that inherited the pipe has gone.                               *)
ScriptWaits == pc = "down" /\ ~Children

Restart ==
  /\ ScriptWaits
  /\ Server("down", "loop")
  /\ mSessionId' = 0
  /\ started' = 0
  /\ UNCHANGED <<count, mSockfd, config, ret, childVars, netVars, device>>

ServerStep ==
  \/ ForkReset \/ LoopEnds \/ WaitPid \/ Accept \/ Greet \/ Confirmed
  \/ HandshakeFails \/ MakeDirectory \/ MakeDirectoryFails \/ NoDirectory
  \/ GetXrtConfigs \/ XrtConfigsFail \/ StartSession \/ Cleanup
  \/ CleanupFails \/ SyncWorkDir
  \/ SyncFails \/ CloseConnection \/ Restart
-----------------------------------------------------------------------------
(* The session process of client c.                                        *)

SessionExits(c, code) ==
  /\ sessions' = sessions \ {c}
  /\ IF pc = "system" /\ mSockfd = c
       THEN pc' = "cleanup" /\ ret' = code
       ELSE UNCHANGED <<pc, ret>>
  /\ UNCHANGED <<max_num_sessions, mSessionId, count, mSockfd, config, resetting, toClient,
                 clientVars, historyVars>>

Reads(c, request) ==
  /\ c \in sessions
  /\ toServer[c] # <<>>
  /\ Head(toServer[c]) = request
  /\ toServer' = [toServer EXCEPT ![c] = Tail(@)]

Serve(c) ==
  /\ Reads(c, "request")
  /\ toClient' = [toClient EXCEPT ![c] = Append(@, "reply")]
  /\ UNCHANGED <<max_num_sessions, loopVars, childVars, backlog, clientVars, historyVars>>

(* A request fails, or the client is done.  The exit code is 0 in both     *)
(* cases, unless PL threads are left.                                      *)
RequestFails(c) ==
  /\ Reads(c, "request")
  /\ \E code \in {0, 1} : SessionExits(c, code)
  /\ DropBacklog

SessionDestroyed(c) ==
  /\ Reads(c, "destroy")
  /\ \E code \in {0, 1} : SessionExits(c, code)
  /\ DropBacklog

SessionLosesClient(c) ==
  /\ c \in sessions /\ toServer[c] = <<>> /\ Gone(c)
  /\ \E code \in {0, 1} : SessionExits(c, code)
  /\ DropBacklog
  /\ UNCHANGED toServer

WatchdogFires(c) ==
  /\ c \in sessions
  /\ SessionExits(c, 1)
  /\ DropBacklog
  /\ UNCHANGED toServer

SessionStep(c) ==
  Serve(c) \/ RequestFails(c) \/ SessionDestroyed(c) \/ SessionLosesClient(c)
-----------------------------------------------------------------------------
(* Client c.                                                               *)

ClientAt(c, from, to) ==
  /\ client[c] = from
  /\ client' = [client EXCEPT ![c] = to]
  /\ UNCHANGED <<loopVars, childVars, historyVars, givenVars>>

Sends(c, message) ==
  /\ toServer' = [toServer EXCEPT ![c] = Append(@, message)]
  /\ UNCHANGED <<backlog, toClient>>

(* What it reads next is taken for what it waits for.                      *)
Receives(c) ==
  /\ toClient[c] # <<>>
  /\ toClient' = [toClient EXCEPT ![c] = Tail(@)]
  /\ UNCHANGED <<backlog, toServer, sent>>

Connect(c) ==
  /\ Listening
  /\ Len(backlog) < Backlog
  /\ ClientAt(c, "new", "greeting")
  /\ backlog' = Append(backlog, c)
  /\ UNCHANGED <<toServer, toClient, sent>>

ConnectFails(c) ==
  /\ ~Listening
  /\ ClientAt(c, "new", "failed")
  /\ UNCHANGED <<netVars, sent>>

ReceiveAvailable(c) == ClientAt(c, "greeting", "confirming") /\ Receives(c)

TimesOut(c) ==
  /\ c \in TimedClients
  /\ ClientAt(c, "greeting", "failed")
  /\ UNCHANGED <<netVars, sent>>

Confirm(c) ==
  ClientAt(c, "confirming", "configuring") /\ Sends(c, "true") /\ UNCHANGED sent

SendXrtConfigs(c) ==
  /\ ClientAt(c, "configuring", "working")
  /\ Sends(c, IF xrt_config[c] THEN "xrt.ini" ELSE "empty")
  /\ UNCHANGED sent

Request(c) ==
  /\ sent[c] < MaxRequests
  /\ ClientAt(c, "working", "waiting")
  /\ Sends(c, "request")
  /\ sent' = [sent EXCEPT ![c] = @ + 1]

ReceiveReply(c) == ClientAt(c, "waiting", "working") /\ Receives(c)

Destroy(c) ==
  /\ ClientAt(c, "working", IF xrt_config[c] THEN "logs" ELSE "done")
  /\ Sends(c, "destroy")
  /\ UNCHANGED sent

GetLogFiles(c) == ClientAt(c, "logs", "done") /\ Receives(c)

(* The server's side is closed and what it sent has been read.             *)
ConnectionClosed(c) ==
  /\ toClient[c] = <<>> /\ ~ServerHas(c)
  /\ \E from \in ClientPCs \ {"new", "done", "failed"} : ClientAt(c, from, "failed")
  /\ UNCHANGED <<netVars, sent>>

ClientDies(c) ==
  /\ \E from \in ClientPCs \ {"new", "done", "failed"} : ClientAt(c, from, "failed")
  /\ UNCHANGED <<netVars, sent>>

ClientStep(c) ==
  \/ ReceiveAvailable(c) \/ Confirm(c) \/ SendXrtConfigs(c) \/ Request(c)
  \/ ReceiveReply(c) \/ Destroy(c) \/ GetLogFiles(c) \/ ConnectionClosed(c)
-----------------------------------------------------------------------------
MainNext ==
  \/ ServerStep \/ ResetDone \/ ResetFails \/ Killed
  \/ \E c \in Clients :
       \/ SessionStep(c) \/ WatchdogFires(c) \/ ClientStep(c)
       \/ Connect(c) \/ ConnectFails(c) \/ TimesOut(c) \/ ClientDies(c)

MainSpec == MainInit /\ [][MainNext]_mainVars

(* The processes run; a client that has connected goes on with what it     *)
(* has to do, but nothing makes one connect, time out or die.              *)
MainFairSpec ==
  /\ MainSpec
  /\ WF_mainVars(ServerStep) /\ WF_mainVars(ResetDone)
  /\ \A c \in Clients : WF_mainVars(SessionStep(c)) /\ WF_mainVars(ClientStep(c))
-----------------------------------------------------------------------------
(* Properties.                                                             *)

(* The device has one user: the reset or one session, also when the server *)
(* was killed over a session that goes on and the script starts another.   *)
OneUser ==
  /\ Cardinality(sessions) <= 1
  /\ ~(resetting /\ sessions # {})

(* index.rst:49-50: "resets the board, ensuring a fresh start".  The code  *)
(* does not ensure it: main.cpp:157 ignores what xrt-smi returns, and :162 *)
(* how the child ended, so that a session starts also after a reset that   *)
(* failed.  What holds with the flag set: no session starts on what an     *)
(* earlier one has left without a reset that was tried and has ended in    *)
(* between, whichever way the earlier one, the handshake in between or the *)
(* server ended; and if that reset did its work, the start is fresh.       *)
FreshStart ==
  [][(ResetFlag /\ sessions' \ sessions # {})
       => device = "clean" \/ ("reset" \in Faults /\ device = "unknown")]_mainVars

(* sw_apis.rst:200: max_num_sessions bounds the sessions of one server,    *)
(* although failed directories and failed handshakes are counted otherwise.*)
SessionsBounded == max_num_sessions # 0 => started <= max_num_sessions

(* A client without an xrt.ini, or one that waits for the files, never     *)
(* takes one kind of message for another.  (One with an xrt.ini may read   *)
(* the files in place of a reply: a session whose request failed exits     *)
(* with 0, and the server sends them.)                                     *)
MessagesInTurn ==
  \A c \in Clients : toClient[c] # <<>> =>
    /\ client[c] = "greeting" => Head(toClient[c]) = "true"
    /\ (client[c] = "waiting" /\ ~xrt_config[c]) => Head(toClient[c]) = "reply"
    /\ client[c] = "logs" => Head(toClient[c]) = "logs"

(* Nobody waits for ever: not in the queue behind a client that died in    *)
(* its handshake, not for a reply of a session that was killed, not for    *)
(* files of a session that failed, not across a restart.                   *)
NobodyHangs ==
  \A c \in Clients : []<>(client[c] \notin {"greeting", "waiting", "logs"})

(* README.md:31: "runs continuously".  Does not hold without any fault of  *)
(* the environment: a client that leaves at the wrong moment ends it.      *)
RunsContinuously == pc # "down"
=============================================================================
