------------------------------ MODULE Producers ------------------------------
(***************************************************************************)
(* Queueing a message from any thread or event loop (client.py), over the  *)
(* connections the package keeps (redis.py), while the settings they were  *)
(* built from change (settings.py).  Threads share one client; each loop   *)
(* has its own, which nobody else may close.                               *)
(*                                                                         *)
(* A version stands for a value of the whole TELEGRAM_BOT setting: it      *)
(* names a server and a key.  A call is a send_many() or an asend_many(),  *)
(* one message to a chunk; of one chunk it is a send_redis().              *)
(***************************************************************************)
EXTENDS Integers, Sequences, FiniteSetsExt

CONSTANTS
  Thread,     \* callers of send_many()
  Coroutine,  \* callers of asend_many()
  Closer,     \* coroutines that call aclose() instead
  Loop,       \* event loops
  On,         \* [Coroutine \cup Closer -> Loop]
  Casts,      \* the sets of callers of which one calls
  Chunks,     \* [Thread \cup Coroutine -> the chunks of its call]
  MaxChanges, \* bound: changes of the settings
  MaxClients, \* bound: clients built
  None

Async  == Coroutine \cup Closer
Sender == Thread \cup Coroutine
Caller == Thread \cup Async

ASSUME EveryCoroutineHasALoop == On \in [Async -> Loop]
ASSUME KindsAreDisjoint == Thread \cap Async = {} /\ Coroutine \cap Closer = {}
ASSUME CastsAreCallers == Casts \subseteq SUBSET Caller
ASSUME BoundsAreNatural ==
  Chunks \in [Sender -> Nat \ {0}] /\ MaxClients \in Nat \ {0} /\ MaxChanges \in Nat
ASSUME NoneIsNothing == None \notin Caller \cup Loop \cup Nat

Version == 0..MaxChanges
Client  == 1..MaxClients
Message == UNION {{c} \X (1..Chunks[c]) : c \in Sender}

VARIABLES
  version,    \* what TELEGRAM_BOT says now
  receiver,   \* the receiver of setting_changed that runs next, 0 for none
  cache,      \* Settings._cache
  slot, lock, \* _SharedConnection: _client, and who holds _lock
  closing,    \* the client reset() took from the slot
  generation, guard, entries, \* _LoopConnections: who holds _guard; _clients
  gone,       \* closed loops
  clients,    \* [Client -> what it was built from, for which loop, its state]
  pc,         \* [Caller -> where it is]
  seen,       \* [Caller -> the settings it is resolving]
  held,       \* [Caller -> its client]
  old,        \* [Caller -> the client it has to close]
  key,        \* [Sender -> the version whose key it writes to]
  chunk,      \* [Sender -> its chunk]
  redis,      \* what was written: message, server and key
  log,        \* events recorded: message and what was said of it
  quiet,      \* history: calls that no change of the settings overlaps
  stray,      \* history: clients used once closed, or whose closing was broken off
  lapsed      \* history: the cache was filled with what its reset should have dropped

settings == <<version, receiver, cache>>
shared   == <<slot, lock, closing>>
perLoop  == <<generation, guard, entries, gone>>
call     == <<held, old, key, chunk>>
written  == <<redis, log>>
vars == <<settings, shared, perLoop, clients, pc, seen, call, written, quiet, stray, lapsed>>
-----------------------------------------------------------------------------
Goto(c, label) == pc' = [pc EXCEPT ![c] = label]

NoEntry == [generation |-> None, client |-> None]
Unmade  == {k \in Client : clients[k].state = "unmade"}
Fresh   == Min(Unmade)

Build(v, l) ==
  /\ Unmade # {}
  /\ clients' = [clients EXCEPT ![Fresh] = [from |-> v, on |-> l, state |-> "open"]]

Closed(k) == [clients EXCEPT ![k].state = "closed"]

\* Where a coroutine may be suspended: nobody else of its loop runs otherwise.
Over      == {"done", "raised", "cancelled"}
Suspended == {"absent", "idle", "stale", "pushing"} \cup Over
HasTheLoop(c) ==
  c \in Async => \A d \in Async \ {c} : On[d] = On[c] => pc[d] \in Suspended

Init ==
  /\ version = 0 /\ receiver = 0 /\ cache = None
  /\ slot = None /\ lock = None /\ closing = None
  /\ generation = 0 /\ guard = None /\ entries = [l \in Loop |-> NoEntry] /\ gone = {}
  /\ clients = [k \in Client |-> [from |-> 0, on |-> None, state |-> "unmade"]]
  /\ \E cast \in Casts : pc = [c \in Caller |-> IF c \in cast THEN "idle" ELSE "absent"]
  /\ seen = [c \in Caller |-> None]
  /\ held = [c \in Caller |-> None] /\ old = [c \in Caller |-> None]
  /\ key = [c \in Sender |-> None] /\ chunk = [c \in Sender |-> 1]
  /\ redis = {} /\ log = {}
  /\ quiet = [c \in Caller |-> FALSE] /\ stray = {} /\ lapsed = FALSE
-----------------------------------------------------------------------------
(***************************************************************************)
(* A change of the settings, then its receivers in the order their modules *)
(* connected them: settings.py is imported by redis.py.                    *)
(***************************************************************************)
\* Mutant: the connections are reset before the settings they are built from.
ConnectionsFirst == <<"shared", "loops", "settings">>

Receivers == <<"settings", "shared", "loops">>

Runs(name) == receiver \in DOMAIN Receivers /\ Receivers[receiver] = name
Received == receiver' = IF receiver = Len(Receivers) THEN 0 ELSE receiver + 1

ChangeSettings ==
  /\ receiver = 0 /\ version < MaxChanges
  /\ version' = version + 1 /\ receiver' = 1
  /\ quiet' = [c \in Caller |-> FALSE]
  /\ UNCHANGED <<cache, shared, perLoop, clients, pc, seen, call, written, stray, lapsed>>

\* Settings.reset()
ResetSettings ==
  /\ Runs("settings")
  /\ cache' = None
  /\ Received
  /\ UNCHANGED <<version, shared, perLoop, clients, pc, seen, call, written, quiet, stray, lapsed>>

\* _SharedConnection.reset(): empty the slot under the lock ...
ResetShared ==
  /\ Runs("shared") /\ closing = None /\ lock = None
  /\ slot' = None /\ closing' = slot
  /\ IF slot = None THEN Received ELSE UNCHANGED receiver
  /\ UNCHANGED <<version, cache, lock, perLoop, clients, pc, seen, call, written, quiet, stray, lapsed>>

\* ... and close what was in it outside.
CloseShared ==
  /\ closing # None
  /\ clients' = Closed(closing) /\ closing' = None
  /\ Received
  /\ UNCHANGED <<version, cache, slot, lock, perLoop, pc, seen, call, written, quiet, stray, lapsed>>

\* Mutant: the clients are forgotten, not only marked.
ForgetAll ==
  /\ Runs("loops") /\ guard = None
  /\ generation' = generation + 1 /\ entries' = [l \in Loop |-> NoEntry]
  /\ Received
  /\ UNCHANGED <<version, cache, shared, guard, gone, clients, pc, seen, call, written, quiet, stray, lapsed>>

\* _LoopConnections.invalidate()
Invalidate ==
  /\ Runs("loops") /\ guard = None
  /\ generation' = generation + 1
  /\ Received
  /\ UNCHANGED <<version, cache, shared, guard, entries, gone, clients, pc, seen, call, written, quiet, stray, lapsed>>
-----------------------------------------------------------------------------
(***************************************************************************)
(* Settings.resolved: a cache that is read and written without a lock.     *)
(***************************************************************************)
Reads(c) == pc[c] \in {"key", "url", "build"}

\* The cache is empty: read the settings and the environment.
Resolve(c) ==
  /\ Reads(c) /\ cache = None /\ seen[c] = None
  /\ seen' = [seen EXCEPT ![c] = version]
  /\ UNCHANGED <<settings, shared, perLoop, clients, pc, call, written, quiet, stray, lapsed>>

\* The cached value, or what was resolved, which is cached now whatever happened
\* to the cache meanwhile.
Conf(c) == IF seen[c] = None THEN cache ELSE seen[c]
ReadConf(c) ==
  /\ Conf(c) # None
  /\ cache' = Conf(c)
  /\ lapsed' = (lapsed \/ (Conf(c) # version /\ ~Runs("settings") /\ seen[c] # None))
  /\ seen' = [seen EXCEPT ![c] = None]
  /\ UNCHANGED <<version, receiver>>
-----------------------------------------------------------------------------
(***************************************************************************)
(* A call, and the chunks it writes inside queueing().                     *)
(***************************************************************************)
Records(c, what) == log' = log \cup {<<<<c, chunk[c]>>, what>>}

\* A bot that is not ENABLED writes nothing.
Call(c) ==
  /\ pc[c] = "idle" /\ HasTheLoop(c)
  /\ c \in Async => On[c] \notin gone
  /\ quiet' = [quiet EXCEPT ![c] = receiver = 0]
  /\ \/ Goto(c, CASE c \in Thread -> "key" [] c \in Coroutine -> "aget" [] c \in Closer -> "aclose")
     \/ c \in Sender /\ Goto(c, "done")
  /\ UNCHANGED <<settings, shared, perLoop, clients, seen, call, written, stray, lapsed>>

\* queueing(): the key, and a payload that may not serialise.
Pack(c) ==
  /\ pc[c] = "key"
  /\ ReadConf(c)
  /\ key' = [key EXCEPT ![c] = Conf(c)]
  /\ \/ Goto(c, IF c \in Thread THEN "get" ELSE "push") /\ UNCHANGED log
     \/ Records(c, "serialising") /\ Goto(c, "raised")
  /\ UNCHANGED <<shared, perLoop, clients, held, old, chunk, redis, quiet, stray>>

\* rpush() goes out: it is applied or not.  A closed client connects again.
Push(c) ==
  LET k == held[c] IN
  /\ pc[c] = "push"
  /\ \/ redis' = redis \cup {[message |-> <<c, chunk[c]>>, server |-> clients[k].from, key |-> key[c]]}
     \/ UNCHANGED redis
  /\ stray' = IF clients[k].state = "closed" THEN stray \cup {k} ELSE stray
  /\ clients' = [clients EXCEPT ![k].state = "open"]
  /\ Goto(c, "pushing")
  /\ UNCHANGED <<settings, shared, perLoop, seen, call, log, quiet, lapsed>>

Applied(c) == \E w \in redis : w.message = <<c, chunk[c]>>

\* Mutant: a write that raised leaves no record.
Unrecorded(c) ==
  /\ pc[c] = "pushing" /\ HasTheLoop(c)
  /\ \/ /\ Applied(c)
        /\ Records(c, "queued")
        /\ IF chunk[c] < Chunks[c]
           THEN Goto(c, "key") /\ chunk' = [chunk EXCEPT ![c] = @ + 1]
           ELSE Goto(c, "done") /\ UNCHANGED chunk
     \/ Goto(c, "raised") /\ UNCHANGED <<log, chunk>>
  /\ UNCHANGED <<settings, shared, perLoop, clients, seen, held, old, key, redis, quiet, stray, lapsed>>

\* The reply, or an exception: a write that raised may have been applied.
PushEnds(c) ==
  /\ pc[c] = "pushing" /\ HasTheLoop(c)
  /\ \/ /\ Applied(c)
        /\ Records(c, "queued")
        /\ IF chunk[c] < Chunks[c]
           THEN Goto(c, "key") /\ chunk' = [chunk EXCEPT ![c] = @ + 1]
           ELSE Goto(c, "done") /\ UNCHANGED chunk
     \/ Records(c, "queueing") /\ Goto(c, "raised") /\ UNCHANGED chunk
  /\ UNCHANGED <<settings, shared, perLoop, clients, seen, held, old, key, redis, quiet, stray, lapsed>>

\* A coroutine is cancelled at the await of its write.  queueing() knows failures
\* by Exception, which CancelledError is not: nothing is recorded.
CancelPush(c) ==
  /\ pc[c] = "pushing" /\ HasTheLoop(c)
  /\ Goto(c, "cancelled")
  /\ UNCHANGED <<settings, shared, perLoop, clients, seen, call, written, quiet, stray, lapsed>>
-----------------------------------------------------------------------------
(***************************************************************************)
(* _SharedConnection.get(): one client for every thread.                   *)
(***************************************************************************)
Holds(c, k) == held' = [held EXCEPT ![c] = k]

GetShared(t) ==
  /\ pc[t] = "get"
  /\ IF slot # None THEN Holds(t, slot) /\ Goto(t, "push")
     ELSE UNCHANGED held /\ Goto(t, "lock")
  /\ UNCHANGED <<settings, shared, perLoop, clients, seen, old, key, chunk, written, quiet, stray, lapsed>>

\* Mutant: the slot is not looked at again under the lock.
LockSharedBlindly(t) ==
  /\ pc[t] = "lock" /\ lock = None
  /\ lock' = t /\ Goto(t, "url") /\ UNCHANGED held
  /\ UNCHANGED <<settings, slot, closing, perLoop, clients, seen, old, key, chunk, written, quiet, stray, lapsed>>

LockShared(t) ==
  /\ pc[t] = "lock" /\ lock = None
  /\ IF slot # None THEN Holds(t, slot) /\ Goto(t, "push") /\ UNCHANGED lock
     ELSE lock' = t /\ Goto(t, "url") /\ UNCHANGED held
  /\ UNCHANGED <<settings, slot, closing, perLoop, clients, seen, old, key, chunk, written, quiet, stray, lapsed>>

BuildShared(t) ==
  /\ pc[t] = "url"
  /\ ReadConf(t)
  /\ Build(Conf(t), None)
  /\ slot' = Fresh /\ Holds(t, Fresh) /\ lock' = None
  /\ Goto(t, "push")
  /\ UNCHANGED <<closing, perLoop, old, key, chunk, written, quiet, stray>>
-----------------------------------------------------------------------------
(***************************************************************************)
(* _LoopConnections: a client for each loop, for its own coroutines.       *)
(***************************************************************************)
\* _forget_closed(): entries of loops that are closed go.
Swept == [l \in Loop |-> IF l \in gone THEN NoEntry ELSE entries[l]]

\* Mutant: the guard is let go before the client is built.
GetUnguarded(c) ==
  /\ pc[c] = "aget" /\ guard = None
  /\ entries' = Swept
  /\ Goto(c, "build")
  /\ UNCHANGED <<settings, shared, generation, guard, gone, clients, seen, call, written, quiet, stray, lapsed>>

\* get(): the entry if it is of this generation, else build another ...
GetOnLoop(c) ==
  LET entry == entries[On[c]] IN
  /\ pc[c] = "aget" /\ guard = None
  /\ entries' = Swept
  /\ IF entry # NoEntry /\ entry.generation = generation
     THEN Holds(c, entry.client) /\ Goto(c, "key") /\ UNCHANGED guard
     ELSE guard' = c /\ Goto(c, "build") /\ UNCHANGED held
  /\ UNCHANGED <<settings, shared, generation, gone, clients, seen, old, key, chunk, written, quiet, stray, lapsed>>

\* ... still under the guard, and take the stale one out ...
BuildOnLoop(c) ==
  /\ pc[c] = "build"
  /\ ReadConf(c)
  /\ Build(Conf(c), On[c])
  /\ entries' = [entries EXCEPT ![On[c]] = [generation |-> generation, client |-> Fresh]]
  /\ guard' = None
  /\ Holds(c, Fresh) /\ old' = [old EXCEPT ![c] = entries[On[c]].client]
  /\ Goto(c, IF old'[c] = None THEN "key" ELSE "stale")
  /\ UNCHANGED <<shared, generation, gone, key, chunk, written, quiet, stray>>

\* Mutant: the client that is to be handed out is closed instead.
CloseReplacement(c) ==
  /\ pc[c] = "stale" /\ HasTheLoop(c)
  /\ clients' = Closed(IF c \in Closer THEN old[c] ELSE held[c])
  /\ old' = [old EXCEPT ![c] = None]
  /\ Goto(c, IF c \in Closer THEN "done" ELSE "key")
  /\ UNCHANGED <<settings, shared, perLoop, seen, held, key, chunk, written, quiet, stray, lapsed>>

\* ... which is closed on its own loop, after an await.
CloseStale(c) ==
  /\ pc[c] = "stale" /\ HasTheLoop(c)
  /\ clients' = Closed(old[c]) /\ old' = [old EXCEPT ![c] = None]
  /\ Goto(c, IF c \in Closer THEN "done" ELSE "key")
  /\ UNCHANGED <<settings, shared, perLoop, seen, held, key, chunk, written, quiet, stray, lapsed>>

\* The close raises, which get() swallows and close() does not, or the coroutine
\* is cancelled in it: the connection may be left as it was, and nobody has it.
CloseBrokenOff(c) ==
  /\ pc[c] = "stale" /\ HasTheLoop(c)
  /\ \/ clients' = Closed(old[c]) /\ UNCHANGED stray
     \/ UNCHANGED clients /\ stray' = stray \cup {old[c]}
  /\ old' = [old EXCEPT ![c] = None]
  /\ \/ Goto(c, IF c \in Closer THEN "raised" ELSE "key")
     \/ Goto(c, "cancelled")
  /\ UNCHANGED <<settings, shared, perLoop, seen, held, key, chunk, written, quiet, lapsed>>

\* close(), which aclose() calls.
Forget(c) ==
  /\ pc[c] = "aclose" /\ guard = None
  /\ old' = [old EXCEPT ![c] = entries[On[c]].client]
  /\ entries' = [entries EXCEPT ![On[c]] = NoEntry]
  /\ Goto(c, IF old'[c] = None THEN "done" ELSE "stale")
  /\ UNCHANGED <<settings, shared, generation, guard, gone, clients, seen, held, key, chunk, written, quiet, stray, lapsed>>

\* A loop is closed when nothing of it is suspended.
CloseLoop(l) ==
  /\ l \notin gone
  /\ \A c \in Async : On[c] = l => pc[c] \in {"absent", "idle"} \cup Over
  /\ gone' = gone \cup {l}
  /\ UNCHANGED <<settings, shared, generation, guard, entries, clients, pc, seen, call, written, quiet, stray, lapsed>>
-----------------------------------------------------------------------------
Next ==
  \/ ChangeSettings \/ ResetSettings \/ ResetShared \/ CloseShared \/ Invalidate
  \/ \E c \in Caller : Call(c) \/ Resolve(c)
  \/ \E c \in Sender : Pack(c) \/ Push(c) \/ PushEnds(c)
  \/ \E t \in Thread : GetShared(t) \/ LockShared(t) \/ BuildShared(t)
  \/ \E c \in Coroutine : GetOnLoop(c) \/ BuildOnLoop(c) \/ CancelPush(c)
  \/ \E c \in Async : CloseStale(c) \/ CloseBrokenOff(c)
  \/ \E c \in Closer : Forget(c)
  \/ \E l \in Loop : CloseLoop(l)

Spec == Init /\ [][Next]_vars
-----------------------------------------------------------------------------
Label ==
  {"absent", "idle", "key", "get", "lock", "url", "aget", "build", "stale", "aclose",
   "push", "pushing", "done", "raised", "cancelled"}

\* Everything has its type; a lock is held by whoever builds under it.
TypeOK ==
  /\ version \in Version /\ receiver \in 0..Len(Receivers) /\ cache \in Version \cup {None}
  /\ slot \in Client \cup {None} /\ closing \in Client \cup {None}
  /\ generation \in Nat /\ gone \subseteq Loop
  /\ entries \in [Loop -> [generation : Nat, client : Client] \cup {NoEntry}]
  /\ clients \in [Client -> [from : Version, on : Loop \cup {None}, state : {"unmade", "open", "closed"}]]
  /\ pc \in [Caller -> Label]
  /\ seen \in [Caller -> Version \cup {None}] /\ key \in [Sender -> Version \cup {None}]
  /\ held \in [Caller -> Client \cup {None}] /\ old \in [Caller -> Client \cup {None}]
  /\ chunk \in [Sender -> Nat \ {0}] /\ \A c \in Sender : chunk[c] <= Chunks[c]
  /\ redis \subseteq [message : Message, server : Version, key : Version]
  /\ log \subseteq Message \X {"queued", "queueing", "serialising"}
  /\ quiet \in [Caller -> BOOLEAN] /\ stray \subseteq Client /\ lapsed \in BOOLEAN
  /\ lock \in Thread \cup {None} /\ guard \in Coroutine \cup {None}
  /\ \A t \in Thread : pc[t] = "url" <=> lock = t
  /\ \A c \in Coroutine : pc[c] = "build" <=> guard = c

(***************************************************************************)
(* What is recorded of a message is so, and at most once: "queued" is in   *)
(* Redis, "serialising" is not and never will be.  A call that raised has  *)
(* a row for every message it came to ("a message lost on the way to Redis *)
(* records a drop", queueing()), and what a call leaves in Redis has one,  *)
(* but for the write it was cancelled in.                                  *)
(***************************************************************************)
Rows(m) == {what \in {"queued", "queueing", "serialising"} : <<m, what>> \in log}
InRedis(m) == \E w \in redis : w.message = m

RecordsAreTrue ==
  \A c \in Sender : \A i \in 1..Chunks[c] :
    LET m == <<c, i>> IN
    /\ "queued" \in Rows(m) => InRedis(m)
    /\ "serialising" \in Rows(m) => ~InRedis(m)
    /\ \A r, s \in Rows(m) : r = s
    /\ pc[c] = "raised" /\ i <= chunk[c] => Rows(m) # {}
    /\ pc[c] \in Over /\ InRedis(m) => Rows(m) # {} \/ (pc[c] = "cancelled" /\ i = chunk[c])

(***************************************************************************)
(* No connection leaks: an open client is in its cache, or somebody is     *)
(* about to close it, or its loop is closed - or a caller used it after it *)
(* was closed, or its closing was broken off (get(), reset(), invalidate() *)
(* and close() of both caches).                                            *)
(***************************************************************************)
OpenClientsAreKnown ==
  \A k \in Client : clients[k].state = "open" =>
    \/ k \in {slot, closing} \cup {entries[l].client : l \in Loop} \cup {old[c] : c \in Caller}
    \/ clients[k].on \in gone \/ k \in stray

\* An aclose() of this coroutine's loop has taken the loop's client.
AcloseBeside(c) ==
  c \in Coroutine /\ \E z \in Closer : On[z] = On[c] /\ pc[z] \notin {"absent", "idle", "aclose"}

(***************************************************************************)
(* A call that no change of the settings overlaps writes where they say,   *)
(* to the server and under the key they name, unless the cache lapsed; and *)
(* nobody has closed the client under it but an aclose() of its own loop.  *)
(***************************************************************************)
WritesFollowTheSettings ==
  \A c \in Sender : pc[c] = "push" /\ quiet[c] =>
    /\ ~lapsed => clients[held[c]].from = version /\ key[c] = version
    /\ clients[held[c]].state = "open" \/ AcloseBeside(c)
=============================================================================
