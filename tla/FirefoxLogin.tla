---------------------------- MODULE FirefoxLogin ----------------------------
(***************************************************************************)
(* The sessions in which a user signs in to a platform: a Firefox in a     *)
(* container, shown over a host port, whose profile directory becomes that *)
(* of a social account; and the viewers of a profile that has been signed  *)
(* in before.  The manager's maps are locked, but every handler releases   *)
(* the lock around its docker commands, so that handlers interleave there. *)
(*                                                                         *)
(* The docker commands that remove and inspect containers are taken to     *)
(* succeed; docker run, the readiness probe and the search for a profile   *)
(* may fail.  Whether net.Listen sees a port bound is left open: the code  *)
(* itself says that it cannot see those of docker-proxy.                   *)
(***************************************************************************)
EXTENDS Naturals, Identifiers

CONSTANT Port  \* the host ports of the range

ASSUME PortAssumption == Port \subseteq Nat

VARIABLES
  sess,        \* fxSession, by id
  sessions,    \* fxLoginMgr.sessions: the logins that can be finished or cancelled
  inspects,    \* fxLoginMgr.inspects: the viewer of each account
  usedPort,    \* fxLoginMgr.usedPort
  containers,  \* the containers that run, by session
  dirs,        \* the profile directories on the host, by the login that made them
  calls        \* the handlers at work: what they do, to which session, and how far

loginVars == <<sess, sessions, inspects, usedPort, containers, dirs, calls>>

FxSession ==
  [kind : {"none", "login", "viewer"}, port : Nat, dir : Session, project : Project \cup {None},
   status : {"starting", "ready", "finished", "error"}]
Call == [op : {"launch", "finish", "cancel", "close"}, s : Session,
         at : {"run", "wait", "stop", "free", "persist", "drop", "wipe", "reap"}]
NewCall(op, s, at) == [op |-> op, s |-> s, at |-> at]
Stage(c, at) == [c EXCEPT !.at = at]

LoginInit ==
  /\ sess = [s \in Session |-> [kind |-> "none", port |-> 0, dir |-> s, project |-> None,
                                status |-> "starting"]]
  /\ sessions = {} /\ inspects = [a \in Account |-> None] /\ usedPort = {}
  /\ containers = {} /\ dirs = {} /\ calls = {}

\* A handler goes on, or returns.
Goes(c, at) == calls' = (calls \ {c}) \cup {Stage(c, at)}
Returns(c) == calls' = calls \ {c}

\* The sessions that still stand for a port.
Held == sessions \cup {inspects[a] : a \in {b \in Account : inspects[b] # None}}

\* allocPort: any port neither marked nor, as far as net.Listen can tell, bound.
FreePort(marked, p) == p \in Port \ marked

Open(s, kind, p, d, pr) ==
  /\ sess[s].kind = "none"
  /\ sess' = [sess EXCEPT ![s] = [kind |-> kind, port |-> p, dir |-> d, project |-> pr,
                                  status |-> "starting"]]
  /\ calls' = calls \cup {NewCall("launch", s, "run")}

StartLogin(s, p, pr) ==
  /\ FreePort(usedPort, p)
  /\ Open(s, "login", p, s, pr)
  /\ sessions' = sessions \cup {s}
  /\ usedPort' = usedPort \cup {p}
  /\ UNCHANGED <<inspects, containers, dirs>>

\* Mutant: a viewer that no longer runs is dropped without its port.
KeepItsPort(a) == usedPort

\* The ports marked once the viewer of a is dropped; one that runs is used again instead.
WithoutViewer(a) ==
  IF inspects[a] = None THEN usedPort ELSE usedPort \ {sess[inspects[a]].port}
NoLiveViewer(a) == inspects[a] = None \/ inspects[a] \notin containers

Inspect(a, s, d, p) ==
  /\ NoLiveViewer(a)
  /\ FreePort(WithoutViewer(a), p)
  /\ Open(s, "viewer", p, d, None)
  /\ inspects' = [inspects EXCEPT ![a] = s]
  /\ usedPort' = WithoutViewer(a) \cup {p}
  /\ UNCHANGED <<sessions, containers, dirs>>

\* The profile path has no directory, or no port is free: a stale viewer is gone all the same.
InspectRefused(a) ==
  /\ NoLiveViewer(a)
  /\ usedPort' = WithoutViewer(a)
  /\ inspects' = [inspects EXCEPT ![a] = None]
  /\ UNCHANGED <<sess, sessions, containers, dirs, calls>>

\* MkdirAll for a login, Stat for a viewer; then docker run, which needs the port to be free
\* and makes the directory it mounts if that is missing.
Launch(c) ==
  /\ c.op = "launch" /\ c.at = "run"
  /\ sess[c.s].kind = "viewer" => sess[c.s].dir \in dirs
  /\ \A t \in containers : sess[t].port # sess[c.s].port
  /\ containers' = containers \cup {c.s}
  /\ dirs' = dirs \cup {sess[c.s].dir}
  /\ Goes(c, "wait")
  /\ UNCHANGED <<sess, sessions, inspects, usedPort>>

\* Something answers on the port, though not necessarily the session's own container.
BecomesReady(c) ==
  /\ c.op = "launch" /\ c.at = "wait"
  /\ \E t \in containers : sess[t].port = sess[c.s].port
  /\ sess' = [sess EXCEPT ![c.s].status = "ready"]
  /\ Returns(c)
  /\ UNCHANGED <<sessions, inspects, usedPort, containers, dirs>>

\* The directory, docker run or the probe fails, or finish finds no profile: the session
\* stays in its map and keeps its port.
Fail(c) ==
  /\ \/ c.op = "launch" /\ c.at \in {"run", "wait"}
     \/ c.op = "finish" /\ c.at = "free"
  /\ sess' = [sess EXCEPT ![c.s].status = "error"]
  /\ usedPort' = IF c.op = "finish" THEN usedPort \ {sess[c.s].port} ELSE usedPort
  /\ \/ dirs' = dirs
     \/ c.at = "run" /\ sess[c.s].kind = "login" /\ dirs' = dirs \cup {c.s}
  /\ Goes(c, "reap")
  /\ UNCHANGED <<sessions, inspects, containers>>

\* Clients learn the id of a login when start returns.
Known(s) == s \in sessions /\ \A c \in calls : c.s = s => c.op # "launch"

Finish(s) ==
  /\ Known(s)
  /\ calls' = calls \cup {NewCall("finish", s, "stop")}
  /\ UNCHANGED <<sess, sessions, inspects, usedPort, containers, dirs>>

Cancel(s) ==
  /\ Known(s)
  /\ calls' = calls \cup {NewCall("cancel", s, "stop")}
  /\ UNCHANGED <<sess, sessions, inspects, usedPort, containers, dirs>>

StopInspect(a) ==
  /\ inspects[a] # None
  /\ usedPort' = usedPort \ {sess[inspects[a]].port}
  /\ inspects' = [inspects EXCEPT ![a] = None]
  /\ calls' = calls \cup {NewCall("close", inspects[a], "reap")}
  /\ UNCHANGED <<sess, sessions, containers, dirs>>

\* docker rm -f: the last act of fail and of stopInspect, the first of finish and cancel.
RemoveContainer(c) ==
  /\ c.at \in {"stop", "reap"}
  /\ containers' = containers \ {c.s}
  /\ IF c.at = "reap" THEN Returns(c)
     ELSE Goes(c, IF c.op = "finish" THEN "free" ELSE "drop")
  /\ UNCHANGED <<sess, sessions, inspects, usedPort, dirs>>

\* finish finds a profile: the session ends but stays in its map.
FinishSession(c) ==
  /\ c.op = "finish" /\ c.at = "free"
  /\ sess[c.s].dir \in dirs
  /\ usedPort' = usedPort \ {sess[c.s].port}
  /\ sess' = [sess EXCEPT ![c.s].status = "finished"]
  /\ Goes(c, "persist")
  /\ UNCHANGED <<sessions, inspects, containers, dirs>>

\* The handler has stored the profile's account, or failed to.
Persisted(c) ==
  /\ c.op = "finish" /\ c.at = "persist"
  /\ Returns(c)
  /\ UNCHANGED <<sess, sessions, inspects, usedPort, containers, dirs>>

DropSession(c) ==
  /\ c.op = "cancel" /\ c.at = "drop"
  /\ usedPort' = usedPort \ {sess[c.s].port}
  /\ sessions' = sessions \ {c.s}
  /\ Goes(c, "wipe")
  /\ UNCHANGED <<sess, inspects, containers, dirs>>

RemoveProfile(c) ==
  /\ c.op = "cancel" /\ c.at = "wipe"
  /\ dirs' = dirs \ {sess[c.s].dir}
  /\ Returns(c)
  /\ UNCHANGED <<sess, sessions, inspects, usedPort, containers>>

\* The API process starts again.  Its reaper's filter matches the names of login containers
\* ("wcm-fx-..."), not those of viewers ("wcm-fxi-...").
RestartApi ==
  /\ sessions' = {} /\ inspects' = [a \in Account |-> None] /\ usedPort' = {} /\ calls' = {}
  /\ containers' = {s \in containers : sess[s].kind = "viewer"}
  /\ UNCHANGED <<sess, dirs>>

\* What a handler does next, but for Persisted.
Proceed(c) ==
  \/ Launch(c) \/ BecomesReady(c) \/ Fail(c) \/ RemoveContainer(c) \/ FinishSession(c)
  \/ DropSession(c) \/ RemoveProfile(c)

LoginNext ==
  \/ \E s \in Session, p \in Port, pr \in Project \cup {None} : StartLogin(s, p, pr)
  \/ \E a \in Account, s, d \in Session, p \in Port : Inspect(a, s, d, p)
  \/ \E a \in Account : InspectRefused(a) \/ StopInspect(a)
  \/ \E s \in Session : Finish(s) \/ Cancel(s)
  \/ \E c \in calls : Proceed(c) \/ Persisted(c)
  \/ RestartApi

LoginSpec == LoginInit /\ [][LoginNext]_loginVars

LoginTypeOK ==
  /\ sess \in [Session -> FxSession]
  /\ sessions \subseteq Session
  /\ inspects \in [Account -> Session \cup {None}]
  /\ usedPort \subseteq Port
  /\ containers \subseteq Session /\ dirs \subseteq Session
  /\ calls \subseteq Call

\* However handlers interleave, fail and are cut off by a restart, no port stays marked
\* without a session or viewer whose end frees it, and no login's container runs that no
\* session stands for, so that finish, cancel or the reaper removes it.
NothingLeaks ==
  /\ \A p \in usedPort : \E s \in Held : sess[s].port = p
  /\ \A s \in containers : sess[s].kind = "login" => s \in sessions
=============================================================================
