--------------------------- MODULE HeadlessSessions ---------------------------
(***************************************************************************)
(* HeadlessSessionMgr (src/game/HeadlessSessionMgr.cpp) and the network      *)
(* logins it competes with (Handlers/CharacterHandler.cpp, WorldSession.cpp, *)
(* World.cpp), for the characters of one account.  A module asks for a       *)
(* headless session of a character; a client may log in with the same        *)
(* character at any time.  Both kinds of login read the database             *)
(* asynchronously: the query holder carries the request token it belongs to  *)
(* and comes back to the world thread after anything may have happened.      *)
(*                                                                           *)
(* All actions are executed by the world thread, so each of them is one      *)
(* step.  Between BeginStopDeferral and EndStopDeferral a module callback    *)
(* runs, which may only call Start, StartPrepared, Stop and open another     *)
(* scope (docs/CORE_SYSTEMS_GUIDE.md:1042).                                  *)
(***************************************************************************)
EXTENDS Naturals, FiniteSets

CONSTANTS
    Characters,     \* the characters of the account
    MaxRequests,    \* bound: headless request tokens handed out
    MaxLogins,      \* bound: login requests of clients
    MaxSockets,     \* bound: network sessions of the account
    MaxDepth,       \* bound: nested deferral scopes
    Grace,          \* the five seconds out of world, in calls of Update
    Nobody          \* no character

ASSUME NobodyAssumption == Nobody \notin Characters
ASSUME GraceAssumption == Grace \in Nat \ {0}
ASSUME BoundAssumption ==
    MaxRequests \in Nat /\ MaxLogins \in Nat /\ MaxSockets \in Nat /\ MaxDepth \in Nat

VARIABLES
    pending,        \* m_pendingSessions: request token of a character, or 0
    active,         \* m_sessions of the manager, likewise
    elapsed,        \* outOfWorldElapsed of the active entry
    loading,        \* tokens of the sessions with m_playerLoading
    depth,          \* m_stopDeferralDepth
    deferred,       \* m_deferredStops
    owner,          \* the session of the Player of a character
    where,          \* is the Player in the world
    current,        \* the account's session in World::m_sessions, or 0
    closed,         \* its socket is closed
    login,          \* its login request: guid, token, m_playerLoading
    disconnected,   \* m_disconnectedSessions
    holders,        \* login queries on their way
    counters,       \* the last token, login and socket handed out
    banned, locked, stopped,
    saved,          \* history: requests whose Player was saved at logout
    discarded,      \* history: requests stopped with save = false
    asked           \* history: requests stopped in the open scope

registry == <<pending, active, elapsed, loading>>
scope == <<depth, deferred, asked>>
players == <<owner, where>>
network == <<current, closed, login, disconnected>>
account == <<banned, locked>>
vars == <<registry, scope, players, network, holders, counters, account,
          stopped, saved, discarded>>

Requests == 1 .. MaxRequests
NoOwner == <<"nobody", 0>>
Headless(t) == <<"headless", t>>
Network(n) == <<"network", n>>
NoStop == [token |-> 0, save |-> TRUE]
NoLogin == [guid |-> Nobody, token |-> 0, loading |-> FALSE]

Init ==
    /\ pending = [c \in Characters |-> 0]
    /\ active = [c \in Characters |-> 0]
    /\ elapsed = [c \in Characters |-> 0]
    /\ loading = {}
    /\ depth = 0 /\ asked = {}
    /\ deferred = [c \in Characters |-> NoStop]
    /\ owner = [c \in Characters |-> NoOwner]
    /\ where = [c \in Characters |-> "nowhere"]
    /\ current = 0 /\ closed = FALSE /\ login = NoLogin /\ disconnected = {}
    /\ holders = {}
    /\ counters = [token |-> 0, login |-> 0, socket |-> 0]
    /\ banned = FALSE /\ locked = {} /\ stopped = FALSE
    /\ saved = {} /\ discarded = {}

-----------------------------------------------------------------------------
(* What the handlers look at. *)

\* The tokens the manager has an entry for.
Entries(c) == {pending[c], active[c]} \ {0}

\* GetPlayer() of the headless session of the active entry.
HasPlayer(c) == active[c] # 0 /\ owner[c] = Headless(active[c])

GetState(c) ==
    CASE pending[c] # 0 -> "pending"
      [] pending[c] = 0 /\ active[c] = 0 -> "notFound"
      [] OTHER -> IF HasPlayer(c) /\ active[c] \notin loading
                  THEN "active" ELSE "loading"

\* The characters whose Player belongs to network session n.
PlayedBy(n) == {c \in Characters : owner[c] = Network(n)}

\* The world thread is not inside a module callback.
WorldRuns == depth = 0 /\ ~stopped

\* Logging the Players of C out: LogoutPlayer removes them from the world.
LogoutPlayers(C) ==
    /\ owner' = [c \in Characters |-> IF c \in C THEN NoOwner ELSE owner[c]]
    /\ where' = [c \in Characters |-> IF c \in C THEN "nowhere" ELSE where[c]]

\* LogoutPlayer completes a pending transfer, and saves only a Player that is
\* in the world then.
SavedBy(C) == {active[c] : c \in {d \in C : HasPlayer(d) /\ where[d] # "stranded"}}

\* Fault: only the active entries are erased.
DropActiveOnly(C) == pending

WithoutPending(C) == [c \in Characters |-> IF c \in C THEN 0 ELSE pending[c]]

\* The entries of C are erased and their sessions destroyed; the Players of
\* those in S are saved.
DestroySessions(C, S) ==
    /\ pending' = WithoutPending(C)
    /\ active' = [c \in Characters |-> IF c \in C THEN 0 ELSE active[c]]
    /\ loading' = loading \ UNION {Entries(c) : c \in C}
    /\ saved' = saved \cup SavedBy(S)

-----------------------------------------------------------------------------
(* The module's calls. *)

\* Fault: a client that is logging in is not looked for.
IgnoresClients(c) == Entries(c) = {} /\ owner[c] = NoOwner

\* Nobody else holds the character: neither an entry, nor a client that is
\* loading it, nor a live Player.
Unclaimed(c) ==
    /\ Entries(c) = {}
    /\ ~(current # 0 /\ login.loading /\ login.guid = c)
    /\ owner[c] = NoOwner

ValidateStart(c) == ~banned /\ c \notin locked /\ Unclaimed(c)

NextRequestToken == counters.token + 1

Start(c) ==
    /\ ~stopped /\ counters.token < MaxRequests
    /\ ValidateStart(c)
    /\ counters' = [counters EXCEPT !.token = NextRequestToken]
    /\ \/ /\ pending' = [pending EXCEPT ![c] = NextRequestToken]
          /\ loading' = loading \cup {NextRequestToken}
          /\ holders' = holders \cup
                {[transport |-> "headless", guid |-> c, token |-> NextRequestToken]}
       \/ UNCHANGED <<pending, loading, holders>>     \* QueryDispatchFailed
    /\ UNCHANGED <<active, elapsed, scope, players, network, account, stopped,
                   saved, discarded>>

\* Fault: the last caller decides.
LastCallDecides(c, t, save) == [token |-> t, save |-> save]

\* A later call cannot turn a deletion into a save.
DeferStop(c, t, save) ==
    IF deferred[c] = NoStop THEN [token |-> t, save |-> save]
    ELSE [deferred[c] EXCEPT !.save = @ /\ save]

\* A completed holder without token: ValidateStart has passed, so the callback
\* promotes the entry and loads the Player.  When LoadFromDB fails the entry is
\* stopped, at once or at the end of the scope.
StartPrepared(c) ==
    /\ ~stopped /\ counters.token < MaxRequests
    /\ ValidateStart(c)
    /\ counters' = [counters EXCEPT !.token = NextRequestToken]
    /\ elapsed' = [elapsed EXCEPT ![c] = 0]
    /\ \/ /\ active' = [active EXCEPT ![c] = NextRequestToken]
          /\ owner' = [owner EXCEPT ![c] = Headless(NextRequestToken)]
          /\ where' = [where EXCEPT ![c] = "world"]
          /\ UNCHANGED <<scope, discarded>>
       \/ /\ discarded' = discarded \cup {NextRequestToken}
          /\ IF depth > 0
             THEN /\ active' = [active EXCEPT ![c] = NextRequestToken]
                  /\ deferred' = [deferred EXCEPT
                        ![c] = DeferStop(c, NextRequestToken, FALSE)]
                  /\ asked' = asked \cup {NextRequestToken}
             ELSE UNCHANGED <<active, deferred, asked>>
          /\ UNCHANGED <<depth, players>>
    /\ UNCHANGED <<pending, loading, network, holders, account, stopped, saved>>

Stop(c, save) ==
    /\ ~stopped /\ Entries(c) # {}
    /\ discarded' = IF save THEN discarded ELSE discarded \cup Entries(c)
    /\ IF depth > 0
       THEN /\ \E t \in Entries(c) :
                  /\ t = IF active[c] # 0 THEN active[c] ELSE pending[c]
                  /\ deferred' = [deferred EXCEPT ![c] = DeferStop(c, t, save)]
                  /\ asked' = asked \cup {t}
            /\ UNCHANGED <<registry, depth, players, saved>>
       ELSE /\ DestroySessions({c}, IF save THEN {c} ELSE {})
            /\ LogoutPlayers({d \in {c} : HasPlayer(d)})
            /\ UNCHANGED <<elapsed, scope>>
    /\ UNCHANGED <<network, holders, counters, account, stopped>>

BeginStopDeferral ==
    /\ ~stopped /\ depth < MaxDepth
    /\ depth' = depth + 1
    /\ UNCHANGED <<registry, deferred, asked, players, network, holders,
                   counters, account, stopped, saved, discarded>>

\* Fault: only an active entry is compared.
OnlyActiveDue(c) == deferred[c] # NoStop /\ deferred[c].token = active[c]

\* The deferred stop still belongs to the entry of the character.
StopIsDue(c) == deferred[c] # NoStop /\ deferred[c].token \in Entries(c)

EndStopDeferral ==
    /\ depth > 0
    /\ depth' = depth - 1
    /\ IF depth > 1
       THEN UNCHANGED <<registry, players, saved, deferred, asked>>
       ELSE LET due == {c \in Characters : StopIsDue(c)} IN
            /\ DestroySessions(due, {c \in due : deferred[c].save})
            /\ LogoutPlayers({c \in due : HasPlayer(c)})
            /\ deferred' = [c \in Characters |-> NoStop]
            /\ asked' = {}
            /\ UNCHANGED elapsed
    /\ UNCHANGED <<network, holders, counters, account, stopped, discarded>>

-----------------------------------------------------------------------------
(* The world's calls. *)

\* Fault: a holder is only looked up among the promoted sessions.
ActiveEntryOnly(h) == active[h.guid] = h.token

\* Fault: the token is not compared.
AnyEntry(h) == Entries(h.guid) # {}

\* A headless holder finds the session that asked for it.
FindEntry(h) == h.token \in Entries(h.guid)

\* The entries a holder that comes too late takes with it: all of them when
\* the account is banned, its own when the character is locked or already has
\* a Player of another session.
Refused(h) ==
    CASE ~FindEntry(h) -> {}
      [] FindEntry(h) /\ banned -> Characters
      [] OTHER -> {c \in {h.guid} : \/ c \in locked
                                    \/ owner[c] # NoOwner /\ ~HasPlayer(c)}

\* HandleLoginCallback of the manager and HandlePlayerLogin.
HandleLoginCallback(h) ==
    /\ WorldRuns /\ h \in holders /\ h.transport = "headless"
    /\ holders' = holders \ {h}
    /\ LET c == h.guid IN
       IF FindEntry(h) /\ Refused(h) = {} /\ owner[c] = NoOwner
       THEN /\ pending' = [pending EXCEPT ![c] = 0]
            /\ active' = [active EXCEPT ![c] = h.token]
            /\ elapsed' = [elapsed EXCEPT ![c] = IF pending[c] = 0 THEN @ ELSE 0]
            /\ loading' = loading \ {h.token}
            /\ \/ /\ h.token \in loading
                  /\ owner' = [owner EXCEPT ![c] = Headless(h.token)]
                  /\ where' = [where EXCEPT ![c] = "world"]
               \/ UNCHANGED players                   \* LoadFromDB fails
            /\ UNCHANGED <<saved, discarded>>
       ELSE /\ DestroySessions(Refused(h), IF banned THEN Refused(h) ELSE {})
            /\ LogoutPlayers({d \in Refused(h) : HasPlayer(d)})
            /\ discarded' = IF banned \/ Refused(h) = {} THEN discarded
                            ELSE discarded \cup {h.token}
            /\ UNCHANGED elapsed
    /\ UNCHANGED <<scope, network, counters, account, stopped>>

\* An entry whose character has come to life meanwhile is dropped.
PromotePending ==
    /\ WorldRuns
    /\ LET waits == {c \in Characters : pending[c] # 0}
           rejected == {c \in waits : active[c] # 0 \/ owner[c] # NoOwner} IN
       /\ waits # {}
       /\ pending' = [c \in Characters |-> 0]
       /\ active' = [c \in Characters |->
                        IF c \in waits \ rejected THEN pending[c] ELSE active[c]]
       /\ elapsed' = [c \in Characters |->
                        IF c \in waits \ rejected THEN 0 ELSE elapsed[c]]
       /\ loading' = loading \ {pending[c] : c \in rejected}
    /\ UNCHANGED <<scope, players, network, holders, counters, account, stopped,
                   saved, discarded>>

\* Fault: the clock starts again in every call.
Restarted(c) == 1

Tick(c) == elapsed[c] + 1

\* Update: an entry goes when its session has neither a Player nor a load on
\* its way, when a logout request of its Player has run out (due), or when the
\* Player has been out of the world, and not in a transfer, for the grace time.
Update(due) ==
    /\ WorldRuns
    /\ LET idle == {c \in Characters : active[c] # 0 /\ active[c] \notin loading}
           astray == {c \in idle \ due : HasPlayer(c) /\ where[c] = "stranded"}
           gone == {c \in idle : ~HasPlayer(c)} \cup due
                     \cup {c \in astray : Tick(c) = Grace} IN
       /\ due \subseteq {c \in idle : HasPlayer(c)}
       /\ DestroySessions(gone, gone)
       /\ LogoutPlayers({c \in gone : HasPlayer(c)})
       /\ elapsed' = [c \in Characters |->
                        IF c \in astray \ gone THEN Tick(c) ELSE 0]
    /\ UNCHANGED <<scope, network, holders, counters, account, stopped, discarded>>

\* World::BanAccount: StopForAccount, then the client is logged out and kicked,
\* unless it plays the character who orders the ban.
BanAccount ==
    /\ WorldRuns /\ ~banned
    /\ banned' = TRUE
    /\ DestroySessions(Characters, Characters)
    /\ \/ /\ LogoutPlayers({c \in Characters : HasPlayer(c)} \cup PlayedBy(current))
          /\ closed' = (current # 0)
       \/ /\ PlayedBy(current) # {}
          /\ LogoutPlayers({c \in Characters : HasPlayer(c)})
          /\ UNCHANGED closed
    /\ UNCHANGED <<elapsed, scope, current, login, disconnected, holders,
                   counters, locked, stopped, discarded>>

\* The ban is lifted or runs out: the clock does not wait for a callback.
Unban ==
    /\ ~stopped /\ banned
    /\ banned' = FALSE
    /\ UNCHANGED <<registry, scope, players, network, holders, counters, locked,
                   stopped, saved, discarded>>

\* SchedulePlayerDump and, from the dump thread at any time, UnlockCharacter.
ToggleLock(c) ==
    /\ WorldRuns \/ (~stopped /\ c \in locked)
    /\ locked' = IF c \in locked THEN locked \ {c} ELSE locked \cup {c}
    /\ UNCHANGED <<registry, scope, players, network, holders, counters, banned,
                   stopped, saved, discarded>>

\* HandleLogoutRequestOpcode of a headless Player that may log out at once: the
\* entry stays until the next Update.
InstantLogout(c) ==
    /\ WorldRuns /\ HasPlayer(c)
    /\ LogoutPlayers({c})
    /\ saved' = saved \cup SavedBy({c})
    /\ UNCHANGED <<registry, scope, network, holders, counters, account,
                   stopped, discarded>>

\* Far transfers: a Player leaves the world, arrives, or is left outside.
Transfer(c, from, to) ==
    /\ WorldRuns /\ where[c] = from
    /\ where' = [where EXCEPT ![c] = to]
    /\ UNCHANGED <<registry, scope, owner, network, holders, counters, account,
                   stopped, saved, discarded>>

-----------------------------------------------------------------------------
(* The client's session. *)

\* Fault: a session whose Player is in a transfer is just deleted.
DeleteWithoutLogout ==
    /\ disconnected' = IF \E c \in PlayedBy(current) : where[c] = "world"
                       THEN disconnected \cup {current} ELSE disconnected
    /\ UNCHANGED players

\* The session that leaves World::m_sessions: with a Player in the world it
\* lingers among the disconnected ones, else it is deleted and its Player, if
\* it has one, logged out.
ForcePlayerLogoutDelay ==
    LET P == PlayedBy(current)
        lingers == \E c \in P : where[c] = "world" IN
    /\ disconnected' = IF lingers THEN disconnected \cup {current} ELSE disconnected
    /\ LogoutPlayers(IF lingers THEN {} ELSE P)

\* World::AddSession_: a second connection of the account replaces the first,
\* but is refused while the first one is loading a character.
AddSession ==
    /\ WorldRuns /\ counters.socket < MaxSockets
    /\ counters' = [counters EXCEPT !.socket = @ + 1]
    /\ IF current # 0 /\ login.loading
       THEN UNCHANGED <<network, players>>
       ELSE /\ current' = counters.socket + 1
            /\ closed' = FALSE /\ login' = NoLogin
            /\ ForcePlayerLogoutDelay
    /\ UNCHANGED <<registry, scope, holders, account, stopped, saved, discarded>>

CloseSocket ==
    /\ WorldRuns /\ current # 0 /\ ~closed
    /\ closed' = TRUE
    /\ UNCHANGED <<registry, scope, players, current, login, disconnected,
                   holders, counters, account, stopped, saved, discarded>>

\* WorldSession::Update notices the closed socket, also in mid-login.
UpdateClosed ==
    /\ WorldRuns /\ current # 0 /\ closed
    /\ current' = 0 /\ closed' = FALSE /\ login' = NoLogin
    /\ ForcePlayerLogoutDelay
    /\ UNCHANGED <<registry, scope, holders, counters, account, stopped, saved,
                   discarded>>

\* UpdateDisconnected: the time is up, or the Player is gone or out of the world.
ExpireDisconnected(n) ==
    /\ WorldRuns /\ n \in disconnected
    /\ disconnected' = disconnected \ {n}
    /\ LogoutPlayers(PlayedBy(n))
    /\ UNCHANGED <<registry, scope, current, closed, login, holders,
                   counters, account, stopped, saved, discarded>>

NetworkLogout ==
    /\ WorldRuns /\ PlayedBy(current) # {} /\ ~login.loading
    /\ LogoutPlayers(PlayedBy(current))
    /\ UNCHANGED <<registry, scope, network, holders, counters, account, stopped,
                   saved, discarded>>

\* What the hook OnBotLoginYield of a module does: nothing, or it stops the
\* session of the character (external: the modules are not in this repository).
YieldChoices(c) == IF Entries(c) = {} THEN {FALSE} ELSE BOOLEAN

\* A login that has not come to life is cancelled, an active session is left to
\* be reclaimed when the holder comes back.
Cancels(c, yields) == yields \/ GetState(c) \in {"pending", "loading"}

\* The state was read before the hook ran: Stop finds nothing to stop then, and
\* the client is told that its login failed.
Dispatches(c, yields) == ~(yields /\ GetState(c) \in {"pending", "loading"})

HandlePlayerLoginOpcode(c) ==
    /\ WorldRuns /\ current # 0 /\ ~closed /\ counters.login < MaxLogins
    /\ ~login.loading /\ PlayedBy(current) = {} /\ c \notin locked
    /\ \E yields \in YieldChoices(c) :
        LET out == {d \in {c} : Cancels(d, yields)} IN
        /\ DestroySessions(out, IF yields THEN out ELSE {})
        /\ LogoutPlayers({d \in out : HasPlayer(d)})
        /\ discarded' = IF out # {} /\ ~yields
                        THEN discarded \cup Entries(c) ELSE discarded
        /\ IF Dispatches(c, yields)
           THEN LET t == counters.login + 1 IN
                /\ counters' = [counters EXCEPT !.login = t]
                /\ login' = [guid |-> c, token |-> t, loading |-> TRUE]
                /\ holders' = holders \cup
                      {[transport |-> "network", guid |-> c, token |-> t]}
           ELSE UNCHANGED <<counters, login, holders>>
    /\ UNCHANGED <<elapsed, scope, current, closed, disconnected, account, stopped>>

\* Fault: the holder of a character with a headless session is dropped.
HeadlessComesFirst(h) == login.token = h.token /\ Entries(h.guid) = {}

IsLoginRequest(h) == login.guid = h.guid /\ login.token = h.token

\* ReclaimForNetwork erases the entry without logging its Player out.
ReclaimForNetwork(c) == [active EXCEPT ![c] = 0]

\* HandlePlayerLoginCallback and HandlePlayerLogin of a client's session.
HandlePlayerLogin(h) ==
    /\ WorldRuns /\ h \in holders /\ h.transport = "network"
    /\ holders' = holders \ {h}
    /\ IF current = 0 \/ ~IsLoginRequest(h)
       THEN UNCHANGED <<active, players, closed, login>>
       ELSE /\ login' = [login EXCEPT !.loading = FALSE]
            /\ LET c == h.guid
                   kicked == closed' = TRUE /\ UNCHANGED <<active, players>> IN
               CASE PlayedBy(current) # {} \/ ~login.loading ->
                        UNCHANGED <<active, players, closed>>
                 [] OTHER ->
                    IF owner[c] = NoOwner
                    THEN \/ /\ owner' = [owner EXCEPT ![c] = Network(current)]
                            /\ where' = [where EXCEPT ![c] = "world"]
                            /\ UNCHANGED <<active, closed>>
                         \/ kicked                    \* LoadFromDB fails
                    ELSE IF \/ where[c] # "world"
                            \/ owner[c][1] = "headless" /\ ~HasPlayer(c)
                    THEN kicked
                    ELSE /\ active' = IF owner[c][1] = "headless"
                                      THEN ReclaimForNetwork(c) ELSE active
                         /\ owner' = [owner EXCEPT ![c] = Network(current)]
                         /\ UNCHANGED <<where, closed>>
    /\ UNCHANGED <<pending, elapsed, loading, scope, current, disconnected,
                   counters, account, stopped, saved, discarded>>

\* World::Shutdown: KickAll and one UpdateSessions delete the client's session
\* (IsStopped: it does not linger), then the manager destroys its own.
Shutdown ==
    /\ WorldRuns
    /\ stopped' = TRUE
    /\ DestroySessions(Characters, Characters)
    /\ LogoutPlayers({c \in Characters : HasPlayer(c)} \cup PlayedBy(current))
    /\ current' = 0 /\ closed' = FALSE /\ login' = NoLogin
    /\ UNCHANGED <<elapsed, scope, disconnected, holders, counters, account,
                   discarded>>

Deliver == \E h \in holders : HandleLoginCallback(h) \/ HandlePlayerLogin(h)

UpdateAny == \E due \in SUBSET Characters : Update(due)

Transfers == \E c \in Characters :
    \/ Transfer(c, "world", "transfer")
    \/ Transfer(c, "transfer", "world")
    \/ Transfer(c, "transfer", "stranded")
    \/ Transfer(c, "stranded", "world")

Next ==
    \/ \E c \in Characters : Start(c) \/ StartPrepared(c)
    \/ \E c \in Characters, save \in BOOLEAN : Stop(c, save)
    \/ BeginStopDeferral \/ EndStopDeferral
    \/ Deliver \/ PromotePending \/ UpdateAny
    \/ BanAccount \/ Unban
    \/ \E c \in Characters : ToggleLock(c) \/ InstantLogout(c)
    \/ Transfers
    \/ AddSession \/ CloseSocket \/ UpdateClosed \/ NetworkLogout
    \/ \E n \in 1 .. MaxSockets : ExpireDisconnected(n)
    \/ \E c \in Characters : HandlePlayerLoginOpcode(c)
    \/ Shutdown

\* A module callback returns from its outermost scope, and the world loop comes
\* back to the result queue and to UpdateSessions however often it enters
\* callbacks in between.  No Player has to ask for its logout.
Spec ==
    /\ Init /\ [][Next]_vars
    /\ WF_vars(EndStopDeferral) /\ SF_vars(depth = 1 /\ EndStopDeferral)
    /\ SF_vars(Deliver) /\ SF_vars(PromotePending) /\ SF_vars(Update({}))

-----------------------------------------------------------------------------
TypeOK ==
    /\ pending \in [Characters -> 0 .. MaxRequests]
    /\ active \in [Characters -> 0 .. MaxRequests]
    /\ elapsed \in [Characters -> 0 .. Grace - 1]
    /\ loading \subseteq Requests
    /\ depth \in 0 .. MaxDepth /\ asked \subseteq Requests
    /\ deferred \in [Characters -> [token : 0 .. MaxRequests, save : BOOLEAN]]
    /\ owner \in [Characters -> {NoOwner} \cup {Headless(t) : t \in Requests}
                                 \cup {Network(n) : n \in 1 .. MaxSockets}]
    /\ where \in [Characters -> {"nowhere", "world", "transfer", "stranded"}]
    /\ \A c \in Characters : where[c] = "nowhere" <=> owner[c] = NoOwner
    /\ current \in 0 .. MaxSockets /\ closed \in BOOLEAN
    /\ login \in [guid : Characters \cup {Nobody}, token : 0 .. MaxLogins,
                  loading : BOOLEAN]
    /\ disconnected \subseteq 1 .. MaxSockets
    /\ holders \subseteq [transport : {"headless", "network"}, guid : Characters,
                           token : Nat \ {0}]
    /\ counters \in [token : 0 .. MaxRequests, login : 0 .. MaxLogins,
                     socket : 0 .. MaxSockets]
    /\ {banned, stopped} \subseteq BOOLEAN /\ locked \subseteq Characters
    /\ saved \subseteq Requests /\ discarded \subseteq Requests

Live(n) == n \in disconnected \cup ({current} \ {0})

\* Every Player belongs to a session that somebody will still update and
\* destroy, and a client plays at most one character: no order of reclaim,
\* replacement, stop, ban and late holders leaves an orphan in the world.
\* A Player that lingers without its client is left behind by Shutdown.
EveryPlayerIsOwned ==
    /\ \A c \in Characters : owner[c] # NoOwner =>
        \/ HasPlayer(c)
        \/ \E n \in 1 .. MaxSockets : Live(n) /\ owner[c] = Network(n)
    /\ \A n \in 1 .. MaxSockets : Cardinality(PlayedBy(n)) <= 1

\* "A real client always wins": while a headless login of a character is on its
\* way, no client is loading the character and nobody plays it.
HeadlessLoginIsAlone ==
    \A c \in Characters : Entries(c) \cap loading # {} =>
        /\ pending[c] = 0 \/ active[c] = 0
        /\ owner[c] = NoOwner
        /\ ~(current # 0 /\ login.loading /\ login.guid = c)

\* A ban reaches the sessions that are pending, loading and playing, and none
\* comes back from a holder that was on its way.
NoHeadlessWhenBanned ==
    banned => \A c \in Characters : Entries(c) = {} /\ owner[c][1] # "headless"

\* "A deletion request must not be turned back into a save by a later call",
\* nor by the logout at the end of the scope or a late holder.
DeletionIsNotSaved == [][(saved' \ saved) \cap discarded' = {}]_vars

\* Stops "are applied on scope exit": when the outermost scope closes, no
\* request that was stopped inside it has an entry left.  (It has no Player then
\* either: EveryPlayerIsOwned.)
DeferredStopsApply ==
    [][depth = 1 /\ depth' = 0 =>
        \A c \in Characters : asked \cap Entries(c)' = {}]_vars

\* A request that has lost its entry never has one again: a late holder cannot
\* bring a stopped session back.
StoppedStaysStopped ==
    [][\A t \in 1 .. counters.token :
        (\A c \in Characters : t \notin Entries(c)) =>
            \A c \in Characters : t \notin Entries(c)' /\ owner'[c] # Headless(t)]_vars

\* A request for a headless session is answered: its session ends up with a
\* Player or is removed.
HeadlessLoginSettles ==
    \A t \in Requests : t \in loading ~> t \notin loading

\* The client is not left in the loading state.
NetworkLoginSettles == login.loading ~> ~login.loading

\* A headless Player outside the world is back or gone in the end.
StrandedIsStopped ==
    \A c \in Characters :
        HasPlayer(c) /\ where[c] = "stranded" ~> ~(HasPlayer(c) /\ where[c] = "stranded")
=============================================================================
